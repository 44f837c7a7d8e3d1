------------------------ MODULE PaneRenderers_proofs ------------------------
(***************************************************************************)
(* Proofs about PaneRenderers for any panes, terminals, theme, quiet hours *)
(* and instants.                                                           *)
(*                                                                         *)
(* The argument: what a job has left to draw fits its device - the border  *)
(* options a pane, title and badge a terminal - and what the debounce      *)
(* remembers is the latest of what was handed over.  Both are kept by      *)
(* every step, and the action property reads them off.  What a device      *)
(* looks like needs more, in the second half: the captured looks are the   *)
(* users' but for blanks around a text, and every option is heading for a  *)
(* value of a known kind while a job has commands left (LooksInv).         *)
(***************************************************************************)
EXTENDS PaneRenderers, SequenceTheorems, TLAPS

DrawnOn(d) == {"notify"} \cup (IF d \in Pane THEN TmuxOption \cup {"capture"} ELSE {"title", "badge"})

\* The commands that may be waiting for a device.
Fitting(d) == {c \in Command : c.option \in DrawnOn(d)}

TodoFits == \A a \in Actor : job[a] # NoJob => job[a].todo \in Seq(Fitting(job[a].target))

LatestNoted ==
    /\ \A n \in attempts : n.at <= now /\ \E last \in last_notify[n.target][n.state] : n.at <= last
    /\ \A d \in Device, st \in AgentState : \A last \in last_notify[d][st] :
          [target |-> d, state |-> st, at |-> last] \in attempts

RenderersInv == TypeOK /\ TodoFits /\ LatestNoted

-----------------------------------------------------------------------------
(* Values in force and captured ones                                       *)

LEMMA InForceValue ==
    ASSUME NEW v \in Value
    PROVE  /\ effective(v) \in Value \ {"unset"}
           /\ trimmed(effective(v)) \in Value \ {"unset"}
           /\ v # "unset" => effective(v) = v
           /\ trimmed(trimmed(v)) = trimmed(v)
BY RenderersAssumption DEF effective, trimmed, Value, WindowsValue, AgentState

LEMMA UsersAreStateless ==
    ASSUME NEW v \in UsersValue
    PROVE  v \in Value /\ v \notin AgentState /\ Restored(v) \cap AgentState = {}
BY RenderersAssumption DEF Restored, effective, trimmed, Value, UsersValue, WindowsValue, AgentState

-----------------------------------------------------------------------------
(* The lists of commands                                                   *)

LEMMA TmuxFits ==
    ASSUME NEW d \in Pane, NEW o \in TmuxOption \cup {"capture"}, NEW v \in Value
    PROVE  tmux(o, v) \in Fitting(d)
BY DEF tmux, Fitting, Command, TmuxOption, DrawnOn, Option

LEMMA ITerm2Fits ==
    ASSUME NEW d \in Tty, NEW o \in {"title", "badge"}, NEW v \in Value
    PROVE  iterm2(o, v) \in Fitting(d)
BY RenderersAssumption DEF iterm2, Fitting, Command, TmuxOption, DrawnOn, Option

LEMMA TmuxRenderFits ==
    ASSUME NEW d \in Pane, NEW st \in AgentState, NEW label \in Label
    PROVE  tmux_render(st, label) \in Seq(Fitting(d))
<1>1. \A o \in TmuxOption, v \in Value : tmux(o, v) \in Fitting(d)
  BY TmuxFits
<1>2. st \in Value /\ "unset" \in Value /\ "top" \in Value
  BY DEF Value
<1>3. tmux_unset \in Seq(Fitting(d))
  BY <1>1, <1>2 DEF tmux_unset, TmuxOption
<1>4. border_style_for(st) \in Seq(Fitting(d))
  BY <1>1, <1>2 DEF border_style_for, TmuxOption
<1>5. border_format_for(st, label) \in Seq(Fitting(d))
  BY <1>1, <1>2 DEF border_format_for, TmuxOption
<1>. QED BY <1>3, <1>4, <1>5, ConcatProperties DEF tmux_render

LEMMA TmuxResetFits ==
    ASSUME NEW d \in Pane, NEW found \in Look \cup {NoLook}
    PROVE  tmux_reset(found) \in Seq(Fitting(d))
<1> DEFINE restored(o) == IF found = NoLook THEN "unset" ELSE found[o]
<1>1. \A o \in TmuxOption : restored(o) \in Value
  BY DEF Look, TmuxOption, Option, Value
<1>2. \A o \in TmuxOption : tmux(o, restored(o)) \in Fitting(d)
  BY <1>1, TmuxFits
<1> HIDE DEF restored
<1>3. tmux_reset(found) =
        <<tmux("style", restored("style")), tmux("format", restored("format")),
          tmux("status", restored("status"))>>
  BY DEF tmux_reset, restored
<1>. QED BY <1>2, <1>3 DEF TmuxOption

LEMMA RenderFits ==
    ASSUME NEW d \in Device, NEW st \in AgentState, NEW label \in Label
    PROVE  render_all(d, st, label) \in Seq(Fitting(d))
<1> DEFINE notice == [by |-> "notification", option |-> "notify", value |-> st]
<1>1. notice \in Fitting(d)
  BY DEF Fitting, Command, DrawnOn, TmuxOption, Value
<1>2. <<notice>> \in Seq(Fitting(d))
  BY <1>1
<1>3. CASE d \in Pane
  <2>1. tmux("capture", "unset") \in Fitting(d)
    BY <1>3, TmuxFits DEF Value
  <2>2. capture_pane_state(d) \in Seq(Fitting(d))
    BY <2>1 DEF capture_pane_state
  <2>3. capture_pane_state(d) \o tmux_render(st, label) \in Seq(Fitting(d))
    BY <1>3, <2>2, TmuxRenderFits, ConcatProperties
  <2>. QED BY <1>2, <1>3, <2>3, ConcatProperties DEF render_all
<1>4. CASE d \notin Pane
  <2>1. d \in Tty
    BY <1>4 DEF Device
  <2>2. \A o \in {"title", "badge"}, v \in Value : iterm2(o, v) \in Fitting(d)
    BY <2>1, ITerm2Fits
  <2>3. st \in Value /\ "blank" \in Value
    BY DEF Value
  <2>4. build_title(st) \in Seq(Fitting(d)) /\ build_badge(st) \in Seq(Fitting(d))
    BY <2>2, <2>3 DEF build_title, build_badge
  <2>5. iterm2_render(st) \in Seq(Fitting(d))
    BY <2>4, ConcatProperties DEF iterm2_render
  <2>. QED BY <1>2, <1>4, <2>5, ConcatProperties DEF render_all
<1>. QED BY <1>3, <1>4

LEMMA ResetFits ==
    ASSUME TypeOK, NEW d \in Device
    PROVE  reset_all(d) \in Seq(Fitting(d))
<1>1. CASE d \in Pane
  <2>1. prior[d] \in Look \cup {NoLook}
    BY DEF TypeOK
  <2>. QED BY <1>1, <2>1, TmuxResetFits DEF reset_all
<1>2. CASE d \notin Pane
  <2>1. iterm2("title", "blank") \in Fitting(d) /\ iterm2("badge", "blank") \in Fitting(d)
    BY <1>2, ITerm2Fits DEF Device, Value
  <2>. QED BY <1>2, <2>1 DEF reset_all, iterm2_reset
<1>. QED BY <1>1, <1>2

LEMMA CliFits ==
    ASSUME NEW d \in Pane, NEW st \in AgentState
    PROVE  /\ prototype_run(st) \in Seq(Fitting(d))
           /\ standalone_render(st) \in Seq(Fitting(d))
<1>1. standalone_render(st) \in Seq(Fitting(d))
  BY TmuxRenderFits DEF standalone_render, Label
<1>2. CASE isolated
  <2> DEFINE c == [by |-> "prototype", option |-> "style",
                   value |-> IF st = "Idle" THEN "unset" ELSE st]
  <2>1. c \in Fitting(d)
    BY <1>2 DEF Fitting, Command, Option, DrawnOn, TmuxOption, Value
  <2>2. prototype_run(st) = <<c>>
    BY <1>2 DEF prototype_run
  <2>3. <<c>> \in Seq(Fitting(d))
    BY <2>1
  <2>. QED BY <1>1, <2>2, <2>3
<1>3. CASE ~isolated
  BY <1>1, <1>3 DEF prototype_run
<1>. QED BY <1>2, <1>3

-----------------------------------------------------------------------------
(* Every step keeps the invariant                                          *)

JobsOK == job \in [Actor -> Job \cup {NoJob}] /\ TodoFits

\* What TypeOK says of everything but the jobs.
RestOK ==
    /\ isolated \in BOOLEAN /\ up \in BOOLEAN /\ now \in Instants /\ ops \in 0..MaxOps
    /\ look \in [Device -> Look] /\ users \in [Device -> Look]
    /\ prior \in [Device -> Look \cup {NoLook}]
    /\ last_notify \in [Device -> [AgentState -> SUBSET Instants]]
    /\ disturbed \subseteq Device
    /\ view \in [Device -> [state : AgentState, label : Label] \cup {NoView}]
    /\ attempts \subseteq [target : Device, state : AgentState, at : Instants]

LEMMA InvParts == RenderersInv <=> JobsOK /\ RestOK /\ LatestNoted
BY DEF RenderersInv, TypeOK, JobsOK, RestOK

LEMMA FittingAreCommands ==
    ASSUME NEW d \in Device, NEW todo \in Seq(Fitting(d))
    PROVE  todo \in Seq(Command)
<1>1. Fitting(d) \subseteq Command
  BY DEF Fitting
<1>. QED BY <1>1, SeqMonotonic

\* A job may be replaced by any other that fits its device, and by none.
LEMMA JobStored ==
    ASSUME JobsOK, NEW a \in Actor, NEW k \in Job \cup {NoJob},
           k # NoJob => k.todo \in Seq(Fitting(k.target)),
           job' = [job EXCEPT ![a] = k]
    PROVE  JobsOK'
<1>1. job' \in [Actor -> Job \cup {NoJob}]
  BY DEF JobsOK
<1>2. ASSUME NEW b \in Actor, job'[b] # NoJob
      PROVE  job'[b].todo \in Seq(Fitting(job'[b].target))
  <2>1. CASE b = a
    BY <2>1, <1>2 DEF JobsOK
  <2>2. CASE b # a
    <3>1. job'[b] = job[b]
      BY <2>2 DEF JobsOK
    <3>. QED BY <1>2, <3>1 DEF JobsOK, TodoFits
  <2>. QED BY <2>1, <2>2
<1>. QED BY <1>1, <1>2 DEF JobsOK, TodoFits

LEMMA JobEdited ==
    ASSUME NEW j \in Job, NEW todo \in Seq(Command), NEW ok \in BOOLEAN
    PROVE  /\ [j EXCEPT !.todo = todo] \in Job
           /\ [j EXCEPT !.todo = todo].todo = todo
           /\ [j EXCEPT !.todo = todo].target = j.target
           /\ [j EXCEPT !.todo = todo, !.ok = ok] \in Job
           /\ [j EXCEPT !.todo = todo, !.ok = ok].todo = todo
           /\ [j EXCEPT !.todo = todo, !.ok = ok].target = j.target
BY DEF Job

LEMMA TurnHas ==
    ASSUME JobsOK, NEW a \in Actor, Turn(a)
    PROVE  /\ job[a] \in Job /\ job[a].target \in Device /\ job[a].state \in AgentState
           /\ job[a].todo \in Seq(Fitting(job[a].target))
           /\ Current(a) \in Fitting(job[a].target)
           /\ Tail(job[a].todo) \in Seq(Fitting(job[a].target))
           /\ Tail(job[a].todo) # job[a].todo
<1>1. job[a] \in Job
  BY DEF JobsOK, Turn
<1>2. job[a].target \in Device /\ job[a].state \in AgentState
  BY <1>1 DEF Job
<1>3. job[a].todo \in Seq(Fitting(job[a].target)) /\ job[a].todo # <<>>
  BY DEF JobsOK, TodoFits, Turn
<1> DEFINE now_left == job[a].todo
           then_left == Tail(job[a].todo)
<1>4. Len(then_left) = Len(now_left) - 1 /\ Len(now_left) \in Nat
  BY <1>3, HeadTailProperties, LenProperties
<1>5. then_left # now_left
  <2> HIDE DEF now_left, then_left
  <2>. QED BY <1>4
<1>. QED BY <1>1, <1>2, <1>3, <1>5, HeadTailProperties DEF Current

LEMMA AdvanceKeeps ==
    ASSUME JobsOK, NEW a \in Actor, Turn(a), Advance(a)
    PROVE  JobsOK' /\ job'[a].todo # job[a].todo
<1> DEFINE k == [job[a] EXCEPT !.todo = Tail(job[a].todo)]
<1>1. job' = [job EXCEPT ![a] = k]
  BY DEF Advance
<1>2. Tail(job[a].todo) \in Seq(Command)
  BY TurnHas, FittingAreCommands
<1>3. k \in Job /\ k.todo = Tail(job[a].todo) /\ k.target = job[a].target
  BY <1>2, TurnHas, JobEdited
<1>4. job'[a] = k
  BY <1>1 DEF JobsOK
<1>5. Tail(job[a].todo) # job[a].todo
  BY TurnHas
<1> HIDE DEF k
<1>6. k.todo \in Seq(Fitting(k.target))
  BY <1>3, TurnHas
<1>. QED BY <1>1, <1>3, <1>4, <1>5, <1>6, JobStored

LEMMA BeginKeeps ==
    ASSUME RenderersInv, NEW a \in Actor, NEW kind \in {"render", "reset"},
           NEW d \in Device, NEW st \in AgentState, NEW label \in Label,
           NEW todo \in Seq(Fitting(d)), Begin(a, kind, d, st, label, todo)
    PROVE  JobsOK' /\ ops' \in 0..MaxOps
<1> DEFINE meets(b) == job[b] # NoJob /\ Shares(job[b].target, d)
           other    == CHOOSE b \in Actor : b # a
           new      == [kind |-> kind, target |-> d, state |-> st, label |-> label,
                        todo |-> todo, ok |-> TRUE, alone |-> ~meets(other)]
<1>1. ops' \in 0..MaxOps
  BY RenderersAssumption DEF RenderersInv, TypeOK, Begin
<1>2. job' = [b \in Actor |-> IF b = a THEN new
                              ELSE IF meets(b) THEN [job[b] EXCEPT !.alone = FALSE] ELSE job[b]]
  BY DEF Begin
<1>3. todo \in Seq(Command)
  BY FittingAreCommands
<1>4. new \in Job /\ new.todo = todo /\ new.target = d
  BY <1>3 DEF Job
<1>5. ASSUME NEW b \in Actor, b # a, job[b] # NoJob
      PROVE  /\ job'[b] \in Job
             /\ job'[b].todo = job[b].todo /\ job'[b].target = job[b].target
  <2>1. job[b] \in Job
    BY <1>5 DEF RenderersInv, TypeOK
  <2>2. job'[b] = [job[b] EXCEPT !.alone = FALSE] \/ job'[b] = job[b]
    BY <1>2, <1>5
  <2>. QED BY <2>1, <2>2 DEF Job
<1>6. ASSUME NEW b \in Actor, b # a, job[b] = NoJob
      PROVE  job'[b] = NoJob
  BY <1>2, <1>6
<1>7. job'[a] = new
  BY <1>2
<1>8. job' \in [Actor -> Job \cup {NoJob}]
  <2>1. \A b \in Actor : job'[b] \in Job \cup {NoJob}
    BY <1>4, <1>5, <1>6, <1>7
  <2>. QED BY <1>2, <2>1
<1> HIDE DEF new
<1>9. ASSUME NEW b \in Actor, job'[b] # NoJob
      PROVE  job'[b].todo \in Seq(Fitting(job'[b].target))
  <2>1. CASE b = a
    BY <2>1, <1>4, <1>7
  <2>2. CASE b # a
    <3>1. job[b] # NoJob
      BY <2>2, <1>6, <1>9
    <3>2. job[b].todo \in Seq(Fitting(job[b].target)) /\ job[b].target \in Device
      BY <3>1 DEF RenderersInv, TypeOK, TodoFits, Job
    <3>. QED BY <2>2, <3>1, <3>2, <1>5
  <2>. QED BY <2>1, <2>2
<1>. QED BY <1>1, <1>8, <1>9 DEF JobsOK, TodoFits

LEMMA InitHolds == Init => RenderersInv
<1> SUFFICES ASSUME Init PROVE RenderersInv
  OBVIOUS
<1>1. users \in [Device -> Look]
  <2>1. PICK v \in UsersValue : users = [d \in Device |-> [o \in Option |-> v]]
    BY DEF Init
  <2>. QED BY <2>1 DEF Look, Value, UsersValue
<1>2. isolated \in BOOLEAN /\ now \in Instants /\ ops \in 0..MaxOps
  BY RenderersAssumption DEF Init
<1>3. RestOK
  BY <1>1, <1>2 DEF Init, RestOK, NoCaptures, NotNotified
<1>4. JobsOK
  BY DEF Init, JobsOK, TodoFits
<1>5. LatestNoted
  BY DEF Init, LatestNoted, NotNotified
<1>. QED BY <1>3, <1>4, <1>5, InvParts

LEMMA EngineRenderKeeps ==
    ASSUME RenderersInv, NEW d \in Device, NEW v \in Views, EngineRender(d, v[1], v[2])
    PROVE  RenderersInv'
<1>1. v[1] \in AgentState /\ v[2] \in Label
  BY RenderersAssumption
<1>2. JobsOK' /\ ops' \in 0..MaxOps
  BY <1>1, RenderFits, BeginKeeps DEF EngineRender, Actor
<1>3. disturbed' \subseteq Device
  BY DEF EngineRender, Spilled, RenderersInv, TypeOK
<1>4. RestOK'
  BY <1>2, <1>3 DEF EngineRender, RenderersInv, TypeOK, RestOK
<1>5. LatestNoted'
  BY DEF EngineRender, RenderersInv, LatestNoted
<1>. QED BY <1>2, <1>4, <1>5 DEF RenderersInv, TypeOK, JobsOK, RestOK

LEMMA EngineResetKeeps ==
    ASSUME RenderersInv, NEW d \in Device, EngineReset(d)
    PROVE  RenderersInv'
<1>1. "Idle" \in AgentState /\ "plain" \in Label
  BY DEF AgentState, Label
<1>2. reset_all(d) \in Seq(Fitting(d))
  BY ResetFits DEF RenderersInv
<1>3. JobsOK' /\ ops' \in 0..MaxOps
  BY <1>1, <1>2, BeginKeeps DEF EngineReset, Actor
<1>4. disturbed' \subseteq Device
  BY DEF EngineReset, Spilled, RenderersInv, TypeOK
<1>5. prior' \in [Device -> Look \cup {NoLook}]
  BY DEF EngineReset, RenderersInv, TypeOK
<1>6. RestOK'
  BY <1>3, <1>4, <1>5 DEF EngineReset, RenderersInv, TypeOK, RestOK
<1>7. LatestNoted'
  BY DEF EngineReset, RenderersInv, LatestNoted
<1>. QED BY <1>3, <1>6, <1>7 DEF RenderersInv, TypeOK, JobsOK, RestOK

LEMMA CliEventKeeps ==
    ASSUME RenderersInv, NEW d \in Device, NEW v \in Views, CliEvent(d, v[1])
    PROVE  RenderersInv'
<1>1. v[1] \in AgentState /\ "plain" \in Label /\ d \in Pane
  BY RenderersAssumption DEF CliEvent, Label
<1>2. (IF up THEN prototype_run(v[1]) ELSE standalone_render(v[1])) \in Seq(Fitting(d))
  BY <1>1, CliFits
<1>3. JobsOK' /\ ops' \in 0..MaxOps
  BY <1>1, <1>2, BeginKeeps DEF CliEvent, Actor
<1>4. disturbed' \subseteq Device
  BY DEF CliEvent, Spilled, RenderersInv, TypeOK
<1>5. RestOK'
  BY <1>3, <1>4 DEF CliEvent, RenderersInv, TypeOK, RestOK
<1>6. LatestNoted'
  BY DEF CliEvent, RenderersInv, LatestNoted
<1>. QED BY <1>3, <1>5, <1>6 DEF RenderersInv, TypeOK, JobsOK, RestOK

LEMMA CliResetKeeps ==
    ASSUME RenderersInv, NEW d \in Device, CliReset(d)
    PROVE  RenderersInv'
<1>1. "Idle" \in AgentState /\ "plain" \in Label /\ d \in Pane
  BY DEF CliReset, AgentState, Label
<1>2. tmux_reset(NoLook) \in Seq(Fitting(d))
  BY <1>1, TmuxResetFits
<1>3. JobsOK' /\ ops' \in 0..MaxOps
  BY <1>1, <1>2, BeginKeeps DEF CliReset, Actor
<1>4. disturbed' \subseteq Device
  BY DEF CliReset, Spilled, RenderersInv, TypeOK
<1>5. RestOK'
  BY <1>3, <1>4 DEF CliReset, RenderersInv, TypeOK, RestOK
<1>6. LatestNoted'
  BY DEF CliReset, RenderersInv, LatestNoted
<1>. QED BY <1>3, <1>5, <1>6 DEF RenderersInv, TypeOK, JobsOK, RestOK

LEMMA DrawKeeps ==
    ASSUME RenderersInv, NEW a \in Actor, Draw(a)
    PROVE  RenderersInv'
<1>1. JobsOK
  BY InvParts
<1>2. JobsOK'
  BY <1>1, AdvanceKeeps DEF Draw
<1>3. Current(a).option \in Option /\ Current(a).value \in Value
  BY <1>1, TurnHas DEF Draw, Fitting, Command
<1>4. Drawn(job[a].target, Current(a)) \in [Device -> Look]
  BY <1>3 DEF Drawn, RenderersInv, TypeOK, Look
<1>5. RestOK'
  BY <1>4 DEF Draw, RenderersInv, TypeOK, RestOK
<1>6. LatestNoted'
  BY DEF Draw, RenderersInv, LatestNoted
<1>. QED BY <1>2, <1>5, <1>6 DEF RenderersInv, TypeOK, JobsOK, RestOK

LEMMA FailKeeps ==
    ASSUME RenderersInv, NEW a \in Actor, Fail(a)
    PROVE  RenderersInv'
<1>1. JobsOK
  BY InvParts
<1> DEFINE F == Fitting(job[a].target)
<1>2. PICK next \in 2..Len(job[a].todo) + 1 :
         job' = [job EXCEPT ![a].todo = SubSeq(@, next, Len(@)), ![a].ok = FALSE]
  BY DEF Fail
<1>3. /\ job[a] \in Job /\ job[a].target \in Device
      /\ job[a].todo \in Seq(F) /\ Len(job[a].todo) \in Nat
  BY <1>1, TurnHas, LenProperties DEF Fail
<1> DEFINE rest == SubSeq(job[a].todo, next, Len(job[a].todo))
           k    == [job[a] EXCEPT !.todo = rest, !.ok = FALSE]
<1>4. rest \in Seq(F)
  <2>1. \A i \in next..Len(job[a].todo) : job[a].todo[i] \in F
    BY <1>3, ElementOfSeq
  <2>. QED BY <1>2, <1>3, <2>1, SubSeqProperties
<1>5. rest \in Seq(Command)
  BY <1>3, <1>4, FittingAreCommands
<1>6. job' = [job EXCEPT ![a] = k]
  BY <1>1, <1>2, <1>3 DEF JobsOK
<1>7. k \in Job /\ k.todo = rest /\ k.target = job[a].target
  BY <1>3, <1>5, JobEdited
<1> HIDE DEF k, rest
<1>8. JobsOK'
  BY <1>1, <1>4, <1>6, <1>7, JobStored DEF Fail
<1>9. disturbed' \subseteq Device
  BY <1>3 DEF Fail, RenderersInv, TypeOK
<1>10. ops' \in 0..MaxOps
  BY RenderersAssumption DEF Fail, RenderersInv, TypeOK
<1>11. RestOK'
  BY <1>9, <1>10 DEF Fail, RenderersInv, TypeOK, RestOK
<1>12. LatestNoted'
  BY DEF Fail, RenderersInv, LatestNoted
<1>. QED BY <1>8, <1>11, <1>12 DEF RenderersInv, TypeOK, JobsOK, RestOK

LEMMA CaptureKeeps ==
    ASSUME RenderersInv, NEW a \in Actor, NEW unread \in SUBSET Option, Capture(a, unread)
    PROVE  RenderersInv'
<1>1. JobsOK
  BY InvParts
<1>2. JobsOK'
  BY <1>1, AdvanceKeeps DEF Capture
<1>3. job[a].target \in Device
  BY <1>1, TurnHas DEF Capture
<1>4. [o \in Option |-> IF o \in unread THEN "unset" ELSE trimmed(effective(look[job[a].target][o]))] \in Look
  <2>1. look[job[a].target] \in [Option -> Value] /\ "unset" \in Value
    BY <1>3 DEF RenderersInv, TypeOK, Look, Value
  <2>. QED BY <2>1, InForceValue DEF Look
<1>5. prior' \in [Device -> Look \cup {NoLook}]
  BY <1>3, <1>4 DEF Capture, RenderersInv, TypeOK
<1>6. disturbed' \subseteq Device
  BY <1>3 DEF Capture, RenderersInv, TypeOK
<1>7. ops' \in 0..MaxOps
  BY RenderersAssumption DEF Capture, RenderersInv, TypeOK
<1>8. RestOK'
  BY <1>5, <1>6, <1>7 DEF Capture, RenderersInv, TypeOK, RestOK
<1>9. LatestNoted'
  BY DEF Capture, RenderersInv, LatestNoted
<1>. QED BY <1>2, <1>8, <1>9 DEF RenderersInv, TypeOK, JobsOK, RestOK

\* What is handed over is also what is remembered.
LEMMA HandedIsNoted ==
    ASSUME RenderersInv, NEW d \in Device, NEW st \in AgentState, now' \in Instants, now' >= now,
           Noted(d, st, now'), Handed(d, st, now')
    PROVE  /\ last_notify' \in [Device -> [AgentState -> SUBSET Instants]]
           /\ attempts' \subseteq [target : Device, state : AgentState, at : Instants]
           /\ LatestNoted'
<1> DEFINE note == [target |-> d, state |-> st, at |-> now']
<1>1. Instants \subseteq Nat /\ now \in Instants
  BY RenderersAssumption DEF RenderersInv, TypeOK
<1>2. last_notify \in [Device -> [AgentState -> SUBSET Instants]]
  BY DEF RenderersInv, TypeOK
<1>3. attempts \subseteq [target : Device, state : AgentState, at : Instants]
  BY DEF RenderersInv, TypeOK
<1>4. last_notify' \in [Device -> [AgentState -> SUBSET Instants]]
  BY <1>2 DEF Noted
<1>5. \A e \in Device, s \in AgentState :
         last_notify'[e][s] = IF e = d /\ s = st THEN {now'} ELSE last_notify[e][s]
  BY <1>2 DEF Noted
<1>6. attempts' = attempts \cup {note}
  BY DEF Handed
<1>7. attempts' \subseteq [target : Device, state : AgentState, at : Instants]
  BY <1>3, <1>6
<1>8. ASSUME NEW n \in attempts'
      PROVE  n.at <= now' /\ \E last \in last_notify'[n.target][n.state] : n.at <= last
  <2>1. n.target \in Device /\ n.state \in AgentState /\ n.at \in Instants
    BY <1>7, <1>8
  <2>2. CASE n = note
    <3>1. n.target = d /\ n.state = st /\ n.at = now'
      BY <2>2
    <3>2. last_notify'[n.target][n.state] = {now'}
      BY <1>5, <2>1, <3>1
    <3>. QED BY <1>1, <3>1, <3>2
  <2>3. CASE n \in attempts
    <3>1. n.at <= now /\ \E last \in last_notify[n.target][n.state] : n.at <= last
      BY <2>3 DEF RenderersInv, LatestNoted
    <3>2. n.at \in Nat /\ now \in Nat /\ now' \in Nat
      BY <1>1, <2>1
    <3>3. n.at <= now'
      BY <3>1, <3>2
    <3>. QED BY <1>5, <2>1, <3>1, <3>3
  <2>. QED BY <1>6, <1>8, <2>2, <2>3
<1>9. ASSUME NEW e \in Device, NEW s \in AgentState, NEW last \in last_notify'[e][s]
      PROVE  [target |-> e, state |-> s, at |-> last] \in attempts'
  <2>1. CASE e = d /\ s = st
    BY <1>5, <1>6, <1>9, <2>1
  <2>2. CASE ~(e = d /\ s = st)
    <3>1. last \in last_notify[e][s]
      BY <1>5, <1>9, <2>2
    <3>. QED BY <1>6, <3>1 DEF RenderersInv, LatestNoted
  <2>. QED BY <2>1, <2>2
<1>. QED BY <1>4, <1>7, <1>8, <1>9 DEF LatestNoted

LEMMA NotifyKeeps ==
    ASSUME RenderersInv, NEW a \in Actor, Notify(a)
    PROVE  RenderersInv'
<1>1. JobsOK /\ JobsOK'
  BY InvParts, AdvanceKeeps DEF Notify
<1>2. job[a].target \in Device /\ job[a].state \in AgentState
  BY <1>1, TurnHas DEF Notify
<1>3. now' \in Instants /\ now' >= now
  BY RenderersAssumption DEF Notify, RenderersInv, TypeOK
<1>4. /\ last_notify' \in [Device -> [AgentState -> SUBSET Instants]]
      /\ attempts' \subseteq [target : Device, state : AgentState, at : Instants]
      /\ LatestNoted'
  <2>1. CASE UNCHANGED <<last_notify, attempts>>
    <3>1. LatestNoted'
      <4>1. ASSUME NEW n \in attempts
            PROVE  n.at <= now' /\ \E last \in last_notify[n.target][n.state] : n.at <= last
        <5>1. n.at \in Nat /\ now \in Nat /\ now' \in Nat
          BY <1>3, RenderersAssumption DEF RenderersInv, TypeOK
        <5>2. n.at <= now /\ \E last \in last_notify[n.target][n.state] : n.at <= last
          BY DEF RenderersInv, LatestNoted
        <5>. QED BY <1>3, <5>1, <5>2
      <4>. QED BY <2>1, <4>1 DEF RenderersInv, LatestNoted
    <3>. QED BY <2>1, <3>1 DEF RenderersInv, TypeOK
  <2>2. CASE ~UNCHANGED <<last_notify, attempts>>
    <3>1. Noted(job[a].target, job[a].state, now') /\ Handed(job[a].target, job[a].state, now')
      BY <2>2 DEF Notify, notify
    <3>. QED BY <1>2, <1>3, <3>1, HandedIsNoted
  <2>. QED BY <2>1, <2>2
<1>5. RestOK'
  BY <1>3, <1>4 DEF Notify, RenderersInv, TypeOK, RestOK
<1>. QED BY <1>1, <1>4, <1>5 DEF RenderersInv, TypeOK, JobsOK, RestOK

LEMMA FinishKeeps ==
    ASSUME RenderersInv, NEW a \in Actor, Finish(a)
    PROVE  RenderersInv'
<1>1. JobsOK
  BY InvParts
<1>2. JobsOK'
  BY <1>1, JobStored DEF Finish
<1>3. job[a] \in Job
  BY <1>1 DEF Finish, JobsOK
<1>4. view' \in [Device -> [state : AgentState, label : Label] \cup {NoView}]
  BY <1>3 DEF Finish, RenderersInv, TypeOK, Job
<1>5. RestOK'
  BY <1>4 DEF Finish, RenderersInv, TypeOK, RestOK
<1>6. LatestNoted'
  BY DEF Finish, RenderersInv, LatestNoted
<1>. QED BY <1>2, <1>5, <1>6 DEF RenderersInv, TypeOK, JobsOK, RestOK

LEMMA CrashKeeps ==
    ASSUME RenderersInv, Crash
    PROVE  RenderersInv'
<1>1. JobsOK
  BY InvParts
<1>2. JobsOK'
  BY <1>1, JobStored DEF Crash, Actor
<1>3. disturbed' \subseteq Device
  BY DEF Crash, RenderersInv, TypeOK
<1>4. ops' \in 0..MaxOps
  BY RenderersAssumption DEF Crash, RenderersInv, TypeOK
<1>5. RestOK'
  BY <1>3, <1>4 DEF Crash, RenderersInv, TypeOK, RestOK, NoCaptures, NotNotified
<1>6. LatestNoted'
  BY DEF Crash, LatestNoted, NotNotified
<1>. QED BY <1>2, <1>5, <1>6 DEF RenderersInv, TypeOK, JobsOK, RestOK

LEMMA NextKeeps == RenderersInv /\ [Next]_vars => RenderersInv'
<1> SUFFICES ASSUME RenderersInv, [Next]_vars PROVE RenderersInv'
  OBVIOUS
<1>1. CASE \E d \in Device, v \in Views : EngineRender(d, v[1], v[2])
  BY <1>1, EngineRenderKeeps
<1>2. CASE \E d \in Device : EngineReset(d)
  BY <1>2, EngineResetKeeps
<1>3. CASE \E d \in Device, v \in Views : CliEvent(d, v[1])
  BY <1>3, CliEventKeeps
<1>4. CASE \E d \in Device : CliReset(d)
  BY <1>4, CliResetKeeps
<1>5. CASE \E a \in Actor : Draw(a) \/ Fail(a) \/ Notify(a) \/ Finish(a)
  BY <1>5, DrawKeeps, FailKeeps, NotifyKeeps, FinishKeeps
<1>6. CASE \E a \in Actor,
               unread \in {{}} \cup (IF "capture" \in Faults THEN {{"style"}, Option} ELSE {}) :
             Capture(a, unread)
  <2>1. PICK a \in Actor, unread \in SUBSET Option : Capture(a, unread)
    BY <1>6 DEF Option
  <2>. QED BY <2>1, CaptureKeeps
<1>7. CASE Crash
  BY <1>7, CrashKeeps
<1>8. CASE Restart \/ UNCHANGED vars
  <2>1. up' \in BOOLEAN
    BY <1>8 DEF Restart, vars, RenderersInv, TypeOK
  <2>. QED BY <1>8, <2>1 DEF Restart, vars, RenderersInv, TypeOK, TodoFits, LatestNoted
<1>. QED BY <1>1, <1>2, <1>3, <1>4, <1>5, <1>6, <1>7, <1>8 DEF Next

LEMMA RenderersInvariant == Spec => []RenderersInv
BY InitHolds, NextKeeps, PTL DEF Spec

-----------------------------------------------------------------------------
(* The theorems                                                            *)

\* Looks, captures, jobs, debounce and notifications keep their types; a job
\* never holds a command its device has no option for.
THEOREM RenderersTypeCorrect == Spec => []TypeOK
BY RenderersInvariant, PTL DEF RenderersInv

LEMMA SinceOnTheClock ==
    ASSUME NEW t \in Int, NEW s \in Int, t >= 0, s >= 0, s < 86400
    PROVE  (t - s) % 86400 = IF t % 86400 >= s THEN (t % 86400) - s ELSE (t % 86400) - s + 86400
OBVIOUS

LEMMA WithinADay ==
    ASSUME NEW f \in Int, f >= 0, f < 86400
    PROVE  f % 86400 = f
OBVIOUS

LEMMA OnTheClock == \A t \in Nat : t % 86400 \in Int /\ t % 86400 >= 0 /\ t % 86400 < 86400
OBVIOUS

LEMMA TimesOfADay == \A f \in 0..SecondsPerDay - 1 : f \in Int /\ f >= 0 /\ f < 86400
<1>1. \A n \in Int : \A f \in 0..n : f \in Int /\ f >= 0 /\ f <= n
  OBVIOUS
<1>2. SecondsPerDay - 1 \in Int /\ \A f \in Int : f <= SecondsPerDay - 1 => f < 86400
  BY DEF SecondsPerDay
<1>. QED BY <1>1, <1>2

LEMMA SpanOfADay ==
    ASSUME NEW s \in Int, NEW f \in Int, NEW time \in Int, NEW since \in Int, NEW span \in Int,
           s >= 0, s < 86400, f >= 0, f < 86400, time >= 0, time < 86400,
           time >= s => since = time - s, time < s => since = time - s + 86400,
           f >= s => span = f - s, f < s => span = f - s + 86400
    PROVE  since < span <=> \/ s <= f /\ s <= time /\ time < f
                            \/ f < s /\ (s <= time \/ time < f)
<1>1. CASE s <= f /\ s <= time
  BY <1>1
<1>2. CASE f < s /\ s <= time
  BY <1>2
<1>3. CASE s <= f /\ time < s
  BY <1>3
<1>4. CASE f < s /\ time < s
  BY <1>4
<1>. QED BY <1>1, <1>2, <1>3, <1>4

\* The two ways to write the quiet hours say the same: the renderer's two cases
\* on either side of midnight, and the time since the quiet hours began.
LEMMA QuietHours == \A t \in Nat : is_quiet_hours(t) <=> Silent(t)
<1>1. /\ quiet_hours_start \in Int /\ quiet_hours_start >= 0 /\ quiet_hours_start < 86400
      /\ quiet_hours_end \in Int /\ quiet_hours_end >= 0 /\ quiet_hours_end < 86400
  <2>1. /\ quiet_hours_start \in 0..SecondsPerDay - 1
        /\ quiet_hours_end \in 0..SecondsPerDay - 1
    BY RenderersAssumption
  <2>. QED BY <2>1, TimesOfADay
<1>2. ASSUME NEW s \in Int, NEW f \in Int, s = quiet_hours_start, f = quiet_hours_end, NEW t \in Nat
      PROVE  is_quiet_hours(t) <=> Silent(t)
  <2>1. PICK time \in Int : time = t % 86400 /\ time >= 0 /\ time < 86400
    BY OnTheClock
  <2>2. PICK since \in Int : since = (t - s) % 86400 /\
                             since = IF time >= s THEN time - s ELSE time - s + 86400
    BY <1>1, <1>2, <2>1, SinceOnTheClock
  <2>3. PICK span \in Int : span = (f - s) % 86400 /\
                            span = IF f >= s THEN f - s ELSE f - s + 86400
    BY <1>1, <1>2, SinceOnTheClock, WithinADay
  <2>4. Silent(t) <=> since < span
    BY <1>2, <2>2, <2>3 DEF Silent, SecondsPerDay
  <2>5. is_quiet_hours(t) <=> IF s <= f THEN s <= time /\ time < f ELSE s <= time \/ time < f
    BY <1>2, <2>1 DEF is_quiet_hours, SecondsPerDay
  <2>6. since < span <=> \/ s <= f /\ s <= time /\ time < f
                         \/ f < s /\ (s <= time \/ time < f)
    BY <1>1, <1>2, <2>1, <2>2, <2>3, SpanOfADay
  <2>7. s <= f <=> ~(f < s)
    OBVIOUS
  <2>. QED BY <2>4, <2>5, <2>6, <2>7
<1>. QED BY <1>1, <1>2

\* The debounce, which remembers one instant, decides as the whole history does.
LEMMA DebounceIsHistory ==
    ASSUME RenderersInv, NEW d \in Device, NEW st \in AgentState, NEW t \in Instants, t >= now
    PROVE  is_debounced(d, st, t) <=>
           \E n \in attempts : n.target = d /\ n.state = st /\ t - n.at < Debounce(st)
<1>1. t \in Nat /\ Debounce(st) \in Nat
  BY RenderersAssumption DEF Debounce
<1>2. \A last \in last_notify[d][st] : last \in Nat
  BY RenderersAssumption DEF RenderersInv, TypeOK
<1>3. \A n \in attempts : n.at \in Nat
  BY RenderersAssumption DEF RenderersInv, TypeOK
<1>4. ASSUME is_debounced(d, st, t)
      PROVE  \E n \in attempts : n.target = d /\ n.state = st /\ t - n.at < Debounce(st)
  <2>1. PICK last \in last_notify[d][st] : t - last < Debounce(st)
    BY <1>4 DEF is_debounced
  <2>2. [target |-> d, state |-> st, at |-> last] \in attempts
    BY <2>1 DEF RenderersInv, LatestNoted
  <2>. QED BY <2>1, <2>2
<1>5. ASSUME NEW n \in attempts, n.target = d, n.state = st, t - n.at < Debounce(st)
      PROVE  is_debounced(d, st, t)
  <2>1. PICK last \in last_notify[d][st] : n.at <= last
    BY <1>5 DEF RenderersInv, LatestNoted
  <2>2. t - last < Debounce(st)
    BY <1>1, <1>2, <1>3, <1>5, <2>1
  <2>. QED BY <2>1, <2>2 DEF is_debounced
<1>. QED BY <1>4, <1>5

LEMMA NotifyFollowsPolicy ==
    ASSUME RenderersInv, NEW a \in Actor, Notify(a)
    PROVE  attempts' = attempts \cup (IF Due(job[a].target, job[a].state, now')
                                      THEN {[target |-> job[a].target, state |-> job[a].state, at |-> now']}
                                      ELSE {})
<1> DEFINE d == job[a].target
           st == job[a].state
<1>1. d \in Device /\ st \in AgentState
  BY InvParts, TurnHas DEF Notify
<1> HIDE DEF d, st
<1>2. CASE ~should_notify(st)
  <2>1. ~Due(d, st, now')
    BY <1>2 DEF Due, should_notify
  <2>2. attempts' = attempts
    BY <1>2 DEF Notify, st
  <2>. QED BY <2>1, <2>2 DEF d, st
<1>3. CASE should_notify(st)
  <2>1. now' \in Instants /\ now' >= now /\ notify(d, st, now')
    BY <1>3 DEF Notify, d, st
  <2>2. now' \in Nat
    BY <2>1, RenderersAssumption
  <2>3. quiet_hours_allows(st, now') <=>
          (Silent(now') => st \in (IF quiet_hours_states = {} THEN {"Risk"} ELSE quiet_hours_states))
    BY <2>2, QuietHours DEF quiet_hours_allows
  <2>4. is_debounced(d, st, now') <=>
          \E n \in attempts : n.target = d /\ n.state = st /\ now' - n.at < Debounce(st)
    BY <1>1, <2>1, DebounceIsHistory
  <2>5. Debounce(st) = (IF st = "Result" THEN 30 ELSE 10)
    BY DEF Debounce
  <2>6. \A n \in attempts : now' - n.at < Debounce(st) <=> ~(now' - n.at >= Debounce(st))
    <3>1. \A n \in attempts : n.at \in Nat
      BY RenderersAssumption DEF RenderersInv, TypeOK
    <3>2. Debounce(st) \in Nat
      BY <2>5
    <3>. QED BY <2>2, <3>1, <3>2
  <2>7. ~is_debounced(d, st, now') <=>
          \A n \in attempts : n.target = d /\ n.state = st => now' - n.at >= Debounce(st)
    BY <2>4, <2>6
  <2>8. Due(d, st, now') <=> quiet_hours_allows(st, now') /\ ~is_debounced(d, st, now')
    BY <1>3, <2>3, <2>5, <2>7 DEF Due, should_notify
  <2>. QED BY <2>1, <2>8 DEF notify, Handed, d, st
<1>. QED BY <1>2, <1>3

\* The renderer, which remembers one instant for each session and state, hands
\* a notification over exactly when the whole history and the hour say so.
THEOREM NotificationsWhenDue == Spec => NotifiedWhenDue
<1> DEFINE Policy ==
       LET j == job["daemon"] IN
       /\ Turn("daemon") /\ up'
       /\ Current("daemon").option = "notify" /\ job'["daemon"].todo # j.todo
       => attempts' = attempts \cup (IF Due(j.target, j.state, now')
                                     THEN {[target |-> j.target, state |-> j.state, at |-> now']}
                                     ELSE {})
<1>1. RenderersInv /\ [Next]_vars => [Policy]_vars
  <2> SUFFICES ASSUME RenderersInv, [Next]_vars, Turn("daemon"), up',
                      Current("daemon").option = "notify",
                      job'["daemon"].todo # job["daemon"].todo
               PROVE  Notify("daemon")
    BY NotifyFollowsPolicy DEF Actor
  <2>1. job \in [Actor -> Job \cup {NoJob}] /\ "daemon" \in Actor
    BY DEF RenderersInv, TypeOK, Actor
  <2>2. "notify" \notin Option
    BY DEF Option
  <2>3. ASSUME NEW kind, NEW e, NEW st, NEW label, NEW todo, NEW a \in Actor,
               Begin(a, kind, e, st, label, todo)
        PROVE  FALSE
    <3>1. a # "daemon"
      BY <2>3 DEF Begin, Turn
    <3>2. job'["daemon"] \in {job["daemon"], [job["daemon"] EXCEPT !.alone = FALSE]}
      BY <2>1, <2>3, <3>1 DEF Begin
    <3>3. job["daemon"] \in Job
      BY <2>1 DEF Turn
    <3>4. job'["daemon"].todo = job["daemon"].todo
      BY <3>2, <3>3 DEF Job
    <3>. QED BY <3>4
  <2>4. ~\E e \in Device, v \in Views : EngineRender(e, v[1], v[2])
    BY <2>3 DEF EngineRender, Actor
  <2>5. ~\E e \in Device : EngineReset(e)
    BY <2>3 DEF EngineReset, Actor
  <2>6. ~\E e \in Device, v \in Views : CliEvent(e, v[1])
    BY <2>3 DEF CliEvent, Actor
  <2>7. ~\E e \in Device : CliReset(e)
    BY <2>3 DEF CliReset, Actor
  <2>8. ~Crash
    BY DEF Crash
  <2>9. ~Restart /\ ~UNCHANGED vars
    BY DEF Restart, vars
  <2>10. ASSUME NEW a \in Actor, Draw(a) \/ Fail(a) \/ Finish(a) \/ \E u : Capture(a, u)
         PROVE  FALSE
    <3>1. CASE a = "daemon"
      BY <2>2, <2>10, <3>1 DEF Draw, Fail, Finish, Capture, Turn
    <3>2. CASE a # "daemon"
      BY <2>1, <2>10, <3>2 DEF Draw, Fail, Finish, Capture, Advance
    <3>. QED BY <3>1, <3>2
  <2>11. ASSUME NEW a \in Actor, Notify(a), a # "daemon"
         PROVE  FALSE
    BY <2>1, <2>11 DEF Notify, Advance
  <2>. QED BY <2>4, <2>5, <2>6, <2>7, <2>8, <2>9, <2>10, <2>11 DEF Next
<1>. QED BY <1>1, RenderersInvariant, PTL DEF Spec, NotifiedWhenDue

-----------------------------------------------------------------------------
(* What is drawn where.  While nobody disturbs a device its look can be foretold: *)
(* whatever a job has left to draw, each option is heading for a value of a known *)
(* kind.                                                                         *)

\* The options a device has, and the one that a complete theme always draws on.
OwnOptions(d) == IF d \in Pane THEN TmuxOption ELSE {"title", "badge"}
Mark(d) == IF d \in Pane THEN "style" ELSE "title"

\* What the commands will write to an option, and where that leaves it.
Left(todo, o) == {c.value : c \in {c \in Range(todo) : c.option = o}}
Heading(value, todo, o, G) == Left(todo, o) \subseteq G /\ (value \in G \/ Left(todo, o) # {})

Same(l, m) == \A o \in TmuxOption : effective(l[o]) \in Restored(m[o])
AsFound(value) == {v \in Value : effective(v) \in Restored(value)}
Stateless == Value \ AgentState
Showing(st) == Stateless \cup ({st} \ {"Idle"})

At(d) == job["daemon"] # NoJob /\ job["daemon"].target = d

\* States are drawn with a device's own options only, and users set none.
StatesInPlace ==
    /\ \A d \in Device, o \in Option : users[d][o] \in UsersValue
    /\ \A d \in Device, o \in Option : look[d][o] \in AgentState => o \in OwnOptions(d)

\* Whoever draws on a device that is not the daemon's to draw on disturbs it.
IntrudersDisturb ==
    /\ job["cli"] # NoJob =>
          /\ job["cli"].target \in Pane
          /\ \A e \in Device : Shares(job["cli"].target, e) => e \in disturbed
    /\ job["daemon"] # NoJob =>
          \A e \in Device \ {job["daemon"].target} :
             Shares(job["daemon"].target, e) => e \in disturbed

\* A captured look is the user's, and so is the look of a pane not captured.
CapturedIsUsers ==
    \A d \in Pane \ disturbed :
        /\ prior[d] # NoLook => Same(prior[d], users[d])
        /\ prior[d] = NoLook /\ ~At(d) => Same(look[d], users[d])

\* A capture comes first, in the daemon's render of a pane as the user left it.
CaptureComesFirst ==
    /\ job["cli"] # NoJob => Left(job["cli"].todo, "capture") = {}
    /\ job["daemon"] # NoJob /\ job["daemon"].todo # <<>> =>
          Left(Tail(job["daemon"].todo), "capture") = {}
    /\ job["daemon"] # NoJob /\ job["daemon"].target \in Pane \ disturbed =>
          LET j == job["daemon"] IN
          /\ j.kind = "render" /\ prior[j.target] = NoLook =>
                j.todo # <<>> /\ Head(j.todo).option = "capture"
          /\ j.todo # <<>> /\ Head(j.todo).option = "capture" =>
                Same(look[j.target], users[j.target])

\* The daemon's reset heads for the user's look, or on a terminal for no state.
DaemonResets ==
    job["daemon"] # NoJob /\ job["daemon"].kind = "reset" =>
        LET j == job["daemon"] IN
        /\ j.target \in Pane \ disturbed =>
              \A o \in TmuxOption :
                 Heading(look[j.target][o], j.todo, o, AsFound(users[j.target][o]))
        /\ j.target \in Tty /\ j.ok =>
              \A o \in OwnOptions(j.target) : Heading(look[j.target][o], j.todo, o, Stateless)

\* The CLI's heads for no state, while the daemon draws nothing on the same pane.
CliResets ==
    job["cli"] # NoJob /\ job["cli"].alone =>
        LET j == job["cli"] IN
        /\ job["daemon"] # NoJob => ~Shares(job["daemon"].target, j.target)
        /\ j.kind = "reset" /\ j.ok =>
              \A o \in TmuxOption : Heading(look[j.target][o], j.todo, o, Stateless)

Drawable(st, label) == st = "Idle" \/ Complete([state |-> st, label |-> label])

\* A render of a state that can be drawn completely heads for that state alone.
RenderHeads ==
    job["daemon"] # NoJob /\ job["daemon"].kind = "render" =>
        LET j == job["daemon"] IN
        j.target \notin disturbed /\ Drawable(j.state, j.label) =>
            /\ \A o \in OwnOptions(j.target) :
                  Heading(look[j.target][o], j.todo, o, Showing(j.state))
            /\ j.state # "Idle" =>
                  Heading(look[j.target][Mark(j.target)], j.todo, Mark(j.target), {j.state})

LooksInv ==
    /\ StatesInPlace /\ IntrudersDisturb /\ CapturedIsUsers /\ CaptureComesFirst
    /\ DaemonResets /\ CliResets /\ RenderHeads /\ OneStateShown

-----------------------------------------------------------------------------
(* What is left to draw                                                    *)

LEMMA NothingLeft == ASSUME NEW o PROVE Left(<<>>, o) = {}
BY DEF Left, Range

LEMMA LeftOfOne ==
    ASSUME NEW c, NEW o
    PROVE  Left(<<c>>, o) = IF c.option = o THEN {c.value} ELSE {}
<1>1. Range(<<c>>) = {c}
  BY DEF Range
<1>. QED BY <1>1 DEF Left

LEMMA LeftOfTwo ==
    ASSUME NEW s \in Seq(Command), NEW t \in Seq(Command), NEW o
    PROVE  Left(s \o t, o) = Left(s, o) \cup Left(t, o)
<1>1. Range(s \o t) = Range(s) \cup Range(t)
  BY RangeConcatenation
<1>. QED BY <1>1 DEF Left

LEMMA LeftOfTail ==
    ASSUME NEW s \in Seq(Command), s # <<>>, NEW o
    PROVE  Left(s, o) = Left(Tail(s), o) \cup IF Head(s).option = o THEN {Head(s).value} ELSE {}
<1>1. s = <<Head(s)>> \o Tail(s)
  OBVIOUS
<1>2. Head(s) \in Command /\ Tail(s) \in Seq(Command)
  BY HeadTailProperties
<1>3. <<Head(s)>> \in Seq(Command)
  BY <1>2
<1>4. Left(<<Head(s)>> \o Tail(s), o) = Left(<<Head(s)>>, o) \cup Left(Tail(s), o)
  BY <1>2, <1>3, LeftOfTwo
<1>. QED BY <1>1, <1>4, LeftOfOne

LEMMA LeftOfSub ==
    ASSUME NEW s \in Seq(Command), NEW m \in 1..Len(s) + 1, NEW o
    PROVE  Left(SubSeq(s, m, Len(s)), o) \subseteq Left(s, o)
<1> DEFINE t == SubSeq(s, m, Len(s))
<1>1. Len(s) \in Nat /\ m \in Int /\ m >= 1
  BY LenProperties
<1>2. \A i \in m..Len(s) : s[i] \in Range(s)
  <2>1. \A i \in m..Len(s) : i \in 1..Len(s)
    BY <1>1
  <2>2. Range(s) = {s[i] : i \in 1..Len(s)}
    BY RangeEquality
  <2>. QED BY <2>1, <2>2
<1>3. t \in Seq(Range(s))
  BY <1>1, <1>2, SubSeqProperties
<1>4. Range(t) \subseteq Range(s)
  BY <1>3, RangeOfSeq
<1>. QED BY <1>4 DEF Left

\* A command keeps an option heading where it was, whether it draws on it or not.
LEMMA HeadingKept ==
    ASSUME NEW s \in Seq(Command), s # <<>>, NEW o, NEW G, NEW value,
           Heading(value, s, o, G)
    PROVE  /\ Heading(IF Head(s).option = o THEN Head(s).value ELSE value, Tail(s), o, G)
           /\ Head(s).option = o => Heading(Head(s).value, Tail(s), o, G)
           /\ Head(s).option # o => Heading(value, Tail(s), o, G)
BY LeftOfTail DEF Heading

LEMMA HeadingDone ==
    ASSUME NEW o, NEW G, NEW value, Heading(value, <<>>, o, G)
    PROVE  value \in G
BY NothingLeft DEF Heading

LEMMA HeadingOf ==
    ASSUME NEW s, NEW o, NEW G, NEW value, Left(s, o) # {}, Left(s, o) \subseteq G
    PROVE  Heading(value, s, o, G)
BY DEF Heading

-----------------------------------------------------------------------------
(* What the renderers are about to draw                                    *)

LEMMA TmuxWrites ==
    ASSUME NEW c \in {"style", "format", "status", "capture"}, NEW v \in Value
    PROVE  tmux(c, v) \in Command /\ tmux(c, v).option = c /\ tmux(c, v).value = v
BY DEF tmux, Command, Option

LEMMA ITermWrites ==
    ASSUME NEW c \in {"title", "badge"}, NEW v \in Value
    PROVE  iterm2(c, v) \in Command /\ iterm2(c, v).option = c /\ iterm2(c, v).value = v
BY DEF iterm2, Command, Option

LEMMA LeftOfThree ==
    ASSUME NEW a \in Command, NEW b \in Command, NEW c \in Command, NEW o
    PROVE  /\ <<a, b, c>> \in Seq(Command)
           /\ Left(<<a, b, c>>, o) = {x.value : x \in {x \in {a, b, c} : x.option = o}}
<1>1. Range(<<a, b, c>>) = {a, b, c}
  BY DEF Range
<1>. QED BY <1>1 DEF Left

LEMMA ResetLeft ==
    ASSUME NEW found \in Look \cup {NoLook}
    PROVE  /\ tmux_reset(found) \in Seq(Command)
           /\ Left(tmux_reset(found), "capture") = {}
           /\ \A o \in TmuxOption :
                 Left(tmux_reset(found), o) = {IF found = NoLook THEN "unset" ELSE found[o]}
<1> DEFINE restored(o) == IF found = NoLook THEN "unset" ELSE found[o]
           a == tmux("style", restored("style"))
           b == tmux("format", restored("format"))
           c == tmux("status", restored("status"))
<1>1. \A o \in TmuxOption : restored(o) \in Value
  BY DEF Look, TmuxOption, Option, Value
<1>2. /\ a \in Command /\ a.option = "style" /\ a.value = restored("style")
      /\ b \in Command /\ b.option = "format" /\ b.value = restored("format")
      /\ c \in Command /\ c.option = "status" /\ c.value = restored("status")
  BY <1>1, TmuxWrites DEF TmuxOption
<1>3. tmux_reset(found) = <<a, b, c>>
  BY DEF tmux_reset
<1> HIDE DEF a, b, c, restored
<1>4. \A o : Left(<<a, b, c>>, o) = {x.value : x \in {x \in {a, b, c} : x.option = o}}
  BY <1>2, LeftOfThree
<1>5. <<a, b, c>> \in Seq(Command)
  BY <1>2
<1>6. \A o \in TmuxOption : Left(<<a, b, c>>, o) = {restored(o)}
  BY <1>2, <1>4 DEF TmuxOption
<1>7. Left(<<a, b, c>>, "capture") = {}
  BY <1>2, <1>4
<1>. QED BY <1>3, <1>5, <1>6, <1>7 DEF restored

LEMMA UnsetLeft ==
    /\ tmux_unset \in Seq(Command) /\ Left(tmux_unset, "capture") = {}
    /\ \A o \in TmuxOption : Left(tmux_unset, o) = {"unset"}
<1>1. tmux_unset = tmux_reset(NoLook)
  BY DEF tmux_unset, tmux_reset
<1>. QED BY <1>1, ResetLeft

LEMMA ClearedLeft ==
    /\ iterm2_reset \in Seq(Command) /\ Left(iterm2_reset, "capture") = {}
    /\ \A o \in {"title", "badge"} : Left(iterm2_reset, o) = {"blank"}
<1> DEFINE a == iterm2("title", "blank")
           b == iterm2("badge", "blank")
<1>1. /\ a \in Command /\ a.option = "title" /\ a.value = "blank"
      /\ b \in Command /\ b.option = "badge" /\ b.value = "blank"
  BY ITermWrites DEF Value
<1>2. iterm2_reset = <<a, b>>
  BY DEF iterm2_reset
<1> HIDE DEF a, b
<1>3. Range(<<a, b>>) = {a, b} /\ <<a, b>> \in Seq(Command)
  BY <1>1 DEF Range
<1>4. \A o : Left(<<a, b>>, o) = {x.value : x \in {x \in {a, b} : x.option = o}}
  BY <1>3 DEF Left
<1>. QED BY <1>1, <1>2, <1>3, <1>4

\* A state that can be drawn completely is written to every option, and nothing
\* of another state is.
LEMMA TmuxRenderLeft ==
    ASSUME NEW st \in AgentState, NEW label \in Label
    PROVE  /\ tmux_render(st, label) \in Seq(Command)
           /\ Left(tmux_render(st, label), "capture") = {}
           /\ Drawable(st, label) => \A o \in TmuxOption :
                 /\ Left(tmux_render(st, label), o) # {}
                 /\ Left(tmux_render(st, label), o) \subseteq Showing(st)
           /\ Drawable(st, label) /\ st # "Idle" => Left(tmux_render(st, label), "style") = {st}
<1>1. CASE st = "Idle"
  <2>1. tmux_render(st, label) = tmux_unset
    BY <1>1 DEF tmux_render
  <2>2. "unset" \in Showing(st)
    BY DEF Showing, Stateless, Value, AgentState
  <2>. QED BY <1>1, <2>1, <2>2, UnsetLeft
<1>2. CASE st # "Idle"
  <2> DEFINE a == tmux("style", st)
             b == tmux("status", "top")
             c == tmux("format", st)
             s == border_style_for(st)
             t == border_format_for(st, label)
  <2>1. /\ a \in Command /\ a.option = "style" /\ a.value = st
        /\ b \in Command /\ b.option = "status" /\ b.value = "top"
        /\ c \in Command /\ c.option = "format" /\ c.value = st
    BY TmuxWrites DEF Value
  <2>2. tmux_render(st, label) = s \o t
    BY <1>2 DEF tmux_render
  <2>3. /\ s = (IF "color" \in Theme[st] THEN <<a>> ELSE <<>>)
        /\ t = (IF Theme[st] \cap {"label", "symbol"} # {} /\ label # "shell" THEN <<b, c>> ELSE <<>>)
    BY DEF border_style_for, border_format_for
  <2> HIDE DEF a, b, c, s, t
  <2>4. Range(<<b, c>>) = {b, c} /\ <<b, c>> \in Seq(Command) /\ <<a>> \in Seq(Command)
    BY <2>1 DEF Range
  <2>5. \A o : /\ Left(<<b, c>>, o) = {x.value : x \in {x \in {b, c} : x.option = o}}
               /\ Left(<<a>>, o) = (IF o = "style" THEN {st} ELSE {})
    BY <2>1, <2>4, LeftOfOne DEF Left
  <2>6. s \in Seq(Command) /\ t \in Seq(Command)
    BY <2>3, <2>4
  <2>7. \A o : Left(s \o t, o) = Left(s, o) \cup Left(t, o)
    BY <2>6, LeftOfTwo
  <2>8. s \o t \in Seq(Command)
    BY <2>6, ConcatProperties
  <2>9. Left(s, "capture") = {} /\ Left(t, "capture") = {}
    BY <2>1, <2>3, <2>5, NothingLeft
  <2>10. ASSUME Drawable(st, label)
         PROVE  /\ s = <<a>> /\ t = <<b, c>>
                /\ \A o \in TmuxOption : /\ Left(s \o t, o) # {}
                                         /\ Left(s \o t, o) \subseteq Showing(st)
                /\ Left(s \o t, "style") = {st}
    <3>1. label # "shell" /\ Theme[st] = Representation
      BY <1>2, <2>10 DEF Drawable, Complete
    <3>2. s = <<a>> /\ t = <<b, c>>
      BY <2>3, <3>1 DEF Representation
    <3>3. st \in Showing(st) /\ "top" \in Showing(st)
      BY <1>2 DEF Showing, Stateless, Value, AgentState
    <3>4. /\ Left(<<b, c>>, "style") = {} /\ Left(<<b, c>>, "format") = {st}
          /\ Left(<<b, c>>, "status") = {"top"}
      BY <2>1, <2>5
    <3>5. /\ Left(<<a>>, "style") = {st} /\ Left(<<a>>, "format") = {} /\ Left(<<a>>, "status") = {}
      BY <2>5
    <3>6. /\ Left(s \o t, "style") = {st} /\ Left(s \o t, "format") = {st}
          /\ Left(s \o t, "status") = {"top"}
      BY <2>7, <3>2, <3>4, <3>5
    <3>. QED BY <3>2, <3>3, <3>6 DEF TmuxOption
  <2>. QED BY <1>2, <2>2, <2>7, <2>8, <2>9, <2>10
<1>. QED BY <1>1, <1>2

LEMMA ITermRenderLeft ==
    ASSUME NEW st \in AgentState, NEW label \in Label
    PROVE  /\ iterm2_render(st) \in Seq(Command)
           /\ Left(iterm2_render(st), "capture") = {}
           /\ Drawable(st, label) => \A o \in {"title", "badge"} :
                 /\ Left(iterm2_render(st), o) # {}
                 /\ Left(iterm2_render(st), o) \subseteq Showing(st)
           /\ Drawable(st, label) /\ st # "Idle" => Left(iterm2_render(st), "title") = {st}
<1> DEFINE v == IF st = "Idle" THEN "blank" ELSE st
           a == iterm2("title", v)
           b == iterm2("badge", v)
           s == build_title(st)
           t == build_badge(st)
<1>1. v \in Value /\ v \in Showing(st) /\ (st # "Idle" => v = st)
  BY DEF Showing, Stateless, Value, AgentState
<1>2. s = <<a>>
  BY DEF build_title
<1>3. t \in {<<b>>, <<>>} /\ (Drawable(st, label) => t = <<b>>)
  <2>1. CASE st = "Idle"
    <3>1. t = <<iterm2("badge", "blank")>>
      BY <2>1 DEF build_badge
    <3>2. v = "blank"
      BY <2>1
    <3>. QED BY <3>1, <3>2
  <2>2. CASE st # "Idle"
    <3>1. t = IF "symbol" \in Theme[st] THEN <<iterm2("badge", st)>> ELSE <<>>
      BY <2>2 DEF build_badge
    <3>2. Drawable(st, label) => "symbol" \in Theme[st]
      BY <2>2 DEF Drawable, Complete, Representation
    <3>3. v = st
      BY <2>2
    <3> HIDE DEF v, t
    <3>4. t = IF "symbol" \in Theme[st] THEN <<b>> ELSE <<>>
      BY <3>1, <3>3
    <3>. QED BY <3>2, <3>4
  <2>. QED BY <2>1, <2>2
<1>4. iterm2_render(st) = s \o t
  BY DEF iterm2_render
<1> HIDE DEF v
<1>5. /\ a \in Command /\ a.option = "title" /\ a.value = v
      /\ b \in Command /\ b.option = "badge" /\ b.value = v
  BY <1>1, ITermWrites
<1> HIDE DEF a, b, s, t
<1>6. s \in Seq(Command) /\ t \in Seq(Command)
  <2>1. <<a>> \in Seq(Command) /\ <<b>> \in Seq(Command) /\ <<>> \in Seq(Command)
    BY <1>5
  <2>. QED BY <1>2, <1>3, <2>1
<1>7. \A o : Left(s \o t, o) = Left(s, o) \cup Left(t, o)
  BY <1>6, LeftOfTwo
<1>8. s \o t \in Seq(Command)
  BY <1>6, ConcatProperties
<1>9. \A o : /\ Left(s, o) = (IF o = "title" THEN {v} ELSE {})
             /\ Left(<<b>>, o) = (IF o = "badge" THEN {v} ELSE {})
             /\ Left(<<>>, o) = {}
  BY <1>2, <1>5, LeftOfOne, NothingLeft
<1>10. Left(s \o t, "capture") = {} /\ Left(s \o t, "title") = {v}
  BY <1>3, <1>7, <1>9
<1>11. Drawable(st, label) => Left(s \o t, "badge") = {v}
  BY <1>3, <1>7, <1>9
<1>. QED BY <1>1, <1>4, <1>8, <1>10, <1>11

LEMMA LeadingCommand ==
    ASSUME NEW c \in Command, NEW s \in Seq(Command)
    PROVE  /\ <<c>> \o s \in Seq(Command) /\ <<c>> \o s # <<>>
           /\ Head(<<c>> \o s) = c /\ Tail(<<c>> \o s) = s
OBVIOUS

LEMMA RenderLeft ==
    ASSUME NEW d \in Device, NEW st \in AgentState, NEW label \in Label
    PROVE  LET todo == render_all(d, st, label) IN
           /\ todo \in Seq(Command)
           /\ todo # <<>> => Left(Tail(todo), "capture") = {}
           /\ d \in Pane /\ prior[d] = NoLook => todo # <<>> /\ Head(todo).option = "capture"
           /\ d \notin Pane \/ prior[d] # NoLook => Left(todo, "capture") = {}
           /\ Drawable(st, label) => \A o \in OwnOptions(d) :
                 Left(todo, o) # {} /\ Left(todo, o) \subseteq Showing(st)
           /\ Drawable(st, label) /\ st # "Idle" => Left(todo, Mark(d)) = {st}
<1> DEFINE note == [by |-> "notification", option |-> "notify", value |-> st]
           c == tmux("capture", "unset")
           r == IF d \in Pane THEN tmux_render(st, label) ELSE iterm2_render(st)
           drawn == r \o <<note>>
           todo == render_all(d, st, label)
<1>1. note \in Command /\ note.option = "notify"
  BY DEF Command, Value
<1>2. c \in Command /\ c.option = "capture"
  BY TmuxWrites DEF Value
<1>3. /\ r \in Seq(Command) /\ Left(r, "capture") = {}
      /\ Drawable(st, label) => \A o \in OwnOptions(d) : Left(r, o) # {} /\ Left(r, o) \subseteq Showing(st)
      /\ Drawable(st, label) /\ st # "Idle" => Left(r, Mark(d)) = {st}
  BY TmuxRenderLeft, ITermRenderLeft DEF OwnOptions, Mark
<1>4. OwnOptions(d) \subseteq TmuxOption \cup {"title", "badge"}
      /\ "notify" \notin OwnOptions(d) /\ "capture" \notin OwnOptions(d)
      /\ Mark(d) \in OwnOptions(d)
  BY DEF OwnOptions, TmuxOption, Mark
<1>5. todo = (IF d \in Pane THEN capture_pane_state(d) \o r ELSE r) \o <<note>>
  BY DEF render_all
<1>6. capture_pane_state(d) = IF prior[d] = NoLook THEN <<c>> ELSE <<>>
  BY DEF capture_pane_state
<1> HIDE DEF note, c, r, todo
<1>7. <<note>> \in Seq(Command) /\ <<c>> \in Seq(Command) /\ <<>> \in Seq(Command)
  BY <1>1, <1>2
<1>8. drawn \in Seq(Command)
  BY <1>3, <1>7, ConcatProperties
<1>9. \A o : Left(drawn, o) = Left(r, o) \cup (IF o = "notify" THEN {note.value} ELSE {})
  <2>1. \A o : Left(r \o <<note>>, o) = Left(r, o) \cup Left(<<note>>, o)
    BY <1>3, <1>7, LeftOfTwo
  <2>2. \A o : Left(<<note>>, o) = IF note.option = o THEN {note.value} ELSE {}
    BY LeftOfOne
  <2>. QED BY <1>1, <2>1, <2>2
<1>10. /\ Left(drawn, "capture") = {}
       /\ \A o \in OwnOptions(d) : Left(drawn, o) = Left(r, o)
  BY <1>3, <1>4, <1>9
<1>11. CASE d \in Pane /\ prior[d] = NoLook
  <2>1. todo = <<c>> \o drawn
    BY <1>3, <1>5, <1>6, <1>7, <1>11, ConcatAssociative
  <2>2. todo \in Seq(Command) /\ todo # <<>> /\ Head(todo) = c /\ Tail(todo) = drawn
    BY <1>2, <1>8, <2>1, LeadingCommand
  <2>3. \A o \in OwnOptions(d) : Left(todo, o) = Left(drawn, o)
    <3>1. \A o : Left(todo, o) = Left(drawn, o) \cup IF c.option = o THEN {c.value} ELSE {}
      BY <2>2, LeftOfTail
    <3>. QED BY <1>2, <1>4, <3>1
  <2>. QED BY <1>2, <1>3, <1>4, <1>10, <1>11, <2>2, <2>3 DEF todo
<1>12. CASE d \notin Pane \/ prior[d] # NoLook
  <2>1. <<>> \o r = r
    BY <1>3, ConcatEmptySeq
  <2>2. todo = drawn
    BY <1>5, <1>6, <1>12, <2>1
  <2>3. todo # <<>> => Left(Tail(todo), "capture") = {}
    BY <1>8, <1>10, <2>2, LeftOfTail
  <2>. QED BY <1>3, <1>4, <1>8, <1>10, <1>12, <2>2, <2>3 DEF todo
<1>. QED BY <1>11, <1>12

LEMMA ResetAllLeft ==
    ASSUME TypeOK, NEW d \in Device
    PROVE  /\ reset_all(d) \in Seq(Command) /\ Left(reset_all(d), "capture") = {}
           /\ d \in Pane => \A o \in TmuxOption :
                 Left(reset_all(d), o) = {IF prior[d] = NoLook THEN "unset" ELSE prior[d][o]}
           /\ d \notin Pane => \A o \in {"title", "badge"} : Left(reset_all(d), o) = {"blank"}
<1>1. prior[d] \in Look \cup {NoLook}
  BY DEF TypeOK
<1>. QED BY <1>1, ResetLeft, ClearedLeft DEF reset_all

LEMMA CliLeft ==
    ASSUME NEW st \in AgentState
    PROVE  /\ Left(prototype_run(st), "capture") = {}
           /\ Left(standalone_render(st), "capture") = {}
<1>1. Left(standalone_render(st), "capture") = {}
  BY TmuxRenderLeft DEF standalone_render, Label
<1>2. \A v : Left(<<[by |-> "prototype", option |-> "style", value |-> v]>>, "capture") = {}
  BY LeftOfOne
<1>3. Left(prototype_run(st), "capture") = {}
  BY <1>2, NothingLeft DEF prototype_run
<1>. QED BY <1>1, <1>3

-----------------------------------------------------------------------------
(* What a step does to the jobs                                            *)

\* The same drawing on the same device, all the commands still to come.
Unchanged(j, k) ==
    /\ k # NoJob /\ k.kind = j.kind /\ k.target = j.target /\ k.state = j.state
    /\ k.label = j.label /\ k.todo = j.todo /\ k.ok = j.ok /\ (k.alone => j.alone)

LEMMA Sharing ==
    ASSUME NEW d, NEW e
    PROVE  Shares(d, e) <=> Shares(e, d)
BY DEF Shares

LEMMA BegunJobs ==
    ASSUME RenderersInv, NEW a \in Actor, NEW kind \in {"render", "reset"},
           NEW d \in Device, NEW st \in AgentState, NEW label \in Label,
           NEW todo \in Seq(Command), Begin(a, kind, d, st, label, todo)
    PROVE  /\ job[a] = NoJob /\ job'[a] # NoJob
           /\ job'[a].kind = kind /\ job'[a].target = d /\ job'[a].state = st
           /\ job'[a].label = label /\ job'[a].todo = todo /\ job'[a].ok
           /\ \A b \in Actor \ {a} :
                 /\ job[b] = NoJob => job'[b] = NoJob
                 /\ job[b] # NoJob =>
                       /\ Unchanged(job[b], job'[b])
                       /\ job'[b].alone \/ job'[a].alone => ~Shares(job[b].target, d)
<1> DEFINE meets(b) == job[b] # NoJob /\ Shares(job[b].target, d)
           other    == CHOOSE b \in Actor : b # a
           new      == [kind |-> kind, target |-> d, state |-> st, label |-> label,
                        todo |-> todo, ok |-> TRUE, alone |-> ~meets(other)]
<1>1. job' = [b \in Actor |-> IF b = a THEN new
                              ELSE IF meets(b) THEN [job[b] EXCEPT !.alone = FALSE] ELSE job[b]]
  BY DEF Begin
<1>2. new \in Job
  BY DEF Job
<1>3. new # NoJob
  BY <1>2, NoneAssumption
<1>4. \A b \in Actor \ {a} : b = other
  BY DEF Actor
<1>5. job'[a] = new
  BY <1>1
<1>6. ASSUME NEW b \in Actor \ {a}, job[b] # NoJob
      PROVE  /\ Unchanged(job[b], job'[b])
             /\ job'[b].alone \/ new.alone => ~Shares(job[b].target, d)
  <2>1. job[b] \in Job
    BY <1>6 DEF RenderersInv, TypeOK
  <2>2. new.alone <=> ~meets(b)
    BY <1>4
  <2>3. CASE meets(b)
    <3> DEFINE k == [job[b] EXCEPT !.alone = FALSE]
    <3>1. job'[b] = k
      BY <1>1, <2>3
    <3>2. k \in Job /\ Unchanged(job[b], k) /\ k.alone = FALSE
      <4>1. k \in Job
        BY <2>1 DEF Job
      <4>2. k # NoJob
        BY <4>1, NoneAssumption
      <4>. QED BY <2>1, <4>1, <4>2 DEF Unchanged, Job
    <3> HIDE DEF k
    <3>3. ~job'[b].alone /\ Unchanged(job[b], job'[b])
      BY <3>1, <3>2
    <3>4. ~new.alone
      BY <2>2, <2>3
    <3>. QED BY <3>3, <3>4
  <2>4. CASE ~meets(b)
    <3>1. job'[b] = job[b]
      BY <1>1, <2>4
    <3>2. ~Shares(job[b].target, d)
      BY <1>6, <2>4
    <3>3. Unchanged(job[b], job'[b])
      BY <1>6, <3>1 DEF Unchanged
    <3>. QED BY <3>2, <3>3
  <2>. QED BY <2>3, <2>4
<1>7. ASSUME NEW b \in Actor \ {a}, job[b] = NoJob
      PROVE  job'[b] = NoJob
  BY <1>1, <1>7
<1>8. /\ new.kind = kind /\ new.target = d /\ new.state = st
      /\ new.label = label /\ new.todo = todo /\ new.ok
  OBVIOUS
<1> HIDE DEF new, meets
<1>. QED BY <1>3, <1>5, <1>6, <1>7, <1>8 DEF Begin

\* The same drawing, one command or more further on.
Further(j, k) ==
    /\ k # NoJob /\ k.kind = j.kind /\ k.target = j.target /\ k.state = j.state
    /\ k.label = j.label /\ k.alone = j.alone

LEMMA AdvancedJobs ==
    ASSUME RenderersInv, NEW a \in Actor, Turn(a), Advance(a)
    PROVE  /\ job[a] \in Job /\ Further(job[a], job'[a]) /\ job'[a].ok = job[a].ok
           /\ job[a].todo \in Seq(Command) /\ job'[a].todo = Tail(job[a].todo)
           /\ \A b \in Actor \ {a} : job'[b] = job[b]
<1>1. job[a] \in Job /\ job \in [Actor -> Job \cup {NoJob}]
  BY DEF RenderersInv, TypeOK, Turn
<1>2. job[a].todo \in Seq(Command) /\ job[a].todo # <<>>
  BY <1>1 DEF Job, Turn
<1> DEFINE rest == Tail(job[a].todo)
           k == [job[a] EXCEPT !.todo = rest]
<1>3. rest \in Seq(Command)
  BY <1>2, HeadTailProperties
<1>4. job' = [job EXCEPT ![a] = k]
  BY DEF Advance
<1>5. job'[a] = k /\ \A b \in Actor \ {a} : job'[b] = job[b]
  BY <1>1, <1>4
<1> HIDE DEF rest
<1>6. k \in Job
  BY <1>1, <1>3 DEF Job
<1>7. k # NoJob
  BY <1>6, NoneAssumption
<1>8. Further(job[a], k) /\ k.ok = job[a].ok /\ k.todo = rest
  BY <1>1, <1>7 DEF Further, Job
<1> HIDE DEF k
<1>. QED BY <1>1, <1>2, <1>5, <1>8 DEF rest

-----------------------------------------------------------------------------
(* Every step keeps what is drawn where                                    *)

LEMMA InitialLooks == Init => LooksInv
<1> SUFFICES ASSUME Init PROVE LooksInv
  OBVIOUS
<1>1. users \in [Device -> [Option -> UsersValue]] /\ look = users
  BY DEF Init
<1>2. StatesInPlace
  BY <1>1, UsersAreStateless DEF StatesInPlace
<1>3. job["cli"] = NoJob /\ job["daemon"] = NoJob
  BY DEF Init, Actor
<1>4. CapturedIsUsers
  BY <1>1 DEF Init, CapturedIsUsers, NoCaptures, Same, Restored, Device
<1>5. OneStateShown
  BY DEF Init, OneStateShown
<1>. QED BY <1>2, <1>3, <1>4, <1>5
         DEF LooksInv, IntrudersDisturb, CaptureComesFirst, DaemonResets, CliResets, RenderHeads

LEMMA EngineRenderDraws ==
    ASSUME RenderersInv, LooksInv, NEW d \in Device, NEW v \in Views, EngineRender(d, v[1], v[2])
    PROVE  LooksInv'
<1> DEFINE st == v[1]
           label == v[2]
           todo == render_all(d, st, label)
           j == job'["daemon"]
           k == job["cli"]
           l == job'["cli"]
<1>1. st \in AgentState /\ label \in Label
  BY RenderersAssumption
<1>2. Begin("daemon", "render", d, st, label, todo) /\ todo \in Seq(Command)
  BY <1>1, RenderLeft DEF EngineRender
<1>3. /\ look' = look /\ prior' = prior /\ users' = users /\ view' = view
      /\ isolated' = isolated /\ disturbed' = disturbed \cup Spilled(d)
  BY DEF EngineRender
<1> HIDE DEF st, label, todo
<1>4. /\ job["daemon"] = NoJob /\ j # NoJob /\ j.kind = "render" /\ j.target = d
      /\ j.state = st /\ j.label = label /\ j.todo = todo
      /\ k = NoJob => l = NoJob
      /\ k # NoJob => Unchanged(k, l) /\ (l.alone => ~Shares(k.target, d))
  BY <1>1, <1>2, BegunJobs DEF Actor
<1> HIDE DEF j, k, l
<1>5. StatesInPlace'
  BY <1>3 DEF LooksInv, StatesInPlace
<1>6. IntrudersDisturb'
  BY <1>3, <1>4 DEF LooksInv, IntrudersDisturb, Spilled, Shares, Unchanged, j, k, l
<1>7. CapturedIsUsers'
  BY <1>3, <1>4 DEF LooksInv, CapturedIsUsers, At, j
<1>8. CaptureComesFirst'
  <2>1. l # NoJob => Left(l.todo, "capture") = {}
    BY <1>4 DEF LooksInv, CaptureComesFirst, Unchanged, k
  <2>2. /\ todo # <<>> => Left(Tail(todo), "capture") = {}
        /\ d \in Pane /\ prior[d] = NoLook => todo # <<>> /\ Head(todo).option = "capture"
        /\ d \notin Pane \/ prior[d] # NoLook => Left(todo, "capture") = {}
    BY <1>1, RenderLeft DEF todo
  <2>3. d \in Pane \ disturbed' /\ todo # <<>> /\ Head(todo).option = "capture" => Same(look[d], users[d])
    <3>1. todo # <<>> /\ Head(todo).option = "capture" => Left(todo, "capture") # {}
      BY <1>2, LeftOfTail
    <3>2. d \in Pane \ disturbed /\ prior[d] = NoLook => Same(look[d], users[d])
      BY <1>4 DEF LooksInv, CapturedIsUsers, At
    <3>. QED BY <1>3, <2>2, <3>1, <3>2
  <2>. QED BY <1>3, <1>4, <2>1, <2>2, <2>3 DEF CaptureComesFirst, j, l
<1>9. DaemonResets'
  BY <1>4 DEF DaemonResets, j
<1>10. CliResets'
  BY <1>3, <1>4, Sharing DEF LooksInv, CliResets, Unchanged, Shares, j, k, l
<1>11. RenderHeads'
  <2>1. /\ Drawable(st, label) => \A o \in OwnOptions(d) :
              Left(todo, o) # {} /\ Left(todo, o) \subseteq Showing(st)
        /\ Drawable(st, label) /\ st # "Idle" => Left(todo, Mark(d)) = {st}
    BY <1>1, RenderLeft DEF todo
  <2>. QED BY <1>3, <1>4, <2>1 DEF RenderHeads, Heading, j
<1>12. OneStateShown'
  BY <1>3, <1>4 DEF LooksInv, OneStateShown, ShownStates, j
<1>. QED BY <1>5, <1>6, <1>7, <1>8, <1>9, <1>10, <1>11, <1>12 DEF LooksInv

LEMMA EngineResetDraws ==
    ASSUME RenderersInv, LooksInv, NEW d \in Device, EngineReset(d)
    PROVE  LooksInv'
<1> DEFINE todo == reset_all(d)
           j == job'["daemon"]
           k == job["cli"]
           l == job'["cli"]
<1>1. "Idle" \in AgentState /\ "plain" \in Label
  BY DEF AgentState, Label
<1>2. /\ todo \in Seq(Command) /\ Left(todo, "capture") = {}
      /\ d \in Pane => \A o \in TmuxOption :
            Left(todo, o) = {IF prior[d] = NoLook THEN "unset" ELSE prior[d][o]}
      /\ d \notin Pane => \A o \in {"title", "badge"} : Left(todo, o) = {"blank"}
  BY ResetAllLeft DEF RenderersInv
<1>3. Begin("daemon", "reset", d, "Idle", "plain", todo)
  BY DEF EngineReset
<1>4. /\ look' = look /\ users' = users /\ view' = view /\ isolated' = isolated
      /\ \A e \in Device : prior'[e] = IF e = d THEN NoLook ELSE prior[e]
      /\ disturbed \cup Spilled(d) \subseteq disturbed'
      /\ d \in Pane /\ prior[d] = NoLook => d \in disturbed'
  BY DEF EngineReset, RenderersInv, TypeOK
<1> HIDE DEF todo
<1>5. /\ job["daemon"] = NoJob /\ j # NoJob /\ j.kind = "reset" /\ j.target = d /\ j.todo = todo
      /\ k = NoJob => l = NoJob
      /\ k # NoJob => Unchanged(k, l) /\ (l.alone => ~Shares(k.target, d))
  BY <1>1, <1>2, <1>3, BegunJobs DEF Actor
<1> HIDE DEF j, k, l
<1>6. StatesInPlace'
  BY <1>4 DEF LooksInv, StatesInPlace
<1>7. IntrudersDisturb'
  BY <1>4, <1>5 DEF LooksInv, IntrudersDisturb, Spilled, Shares, Unchanged, j, k, l
<1>8. CapturedIsUsers'
  BY <1>4, <1>5 DEF LooksInv, CapturedIsUsers, At, Device, j
<1>9. CaptureComesFirst'
  <2>1. l # NoJob => Left(l.todo, "capture") = {}
    BY <1>5 DEF LooksInv, CaptureComesFirst, Unchanged, k
  <2>2. todo # <<>> => Left(Tail(todo), "capture") = {} /\ Head(todo).option # "capture"
    BY <1>2, LeftOfTail
  <2>. QED BY <1>5, <2>1, <2>2 DEF CaptureComesFirst, j, l
<1>10. DaemonResets'
  <2>1. ASSUME d \in Pane \ disturbed', NEW o \in TmuxOption
        PROVE  Heading(look[d][o], todo, o, AsFound(users[d][o]))
    <3>1. prior[d] # NoLook /\ d \notin disturbed
      BY <1>4, <2>1
    <3>2. Same(prior[d], users[d])
      BY <2>1, <3>1 DEF LooksInv, CapturedIsUsers
    <3>3. prior[d] \in Look
      BY <3>1 DEF RenderersInv, TypeOK
    <3>4. prior[d][o] \in AsFound(users[d][o])
      BY <3>2, <3>3 DEF Same, AsFound, Look, TmuxOption, Option
    <3>. QED BY <1>2, <2>1, <3>1, <3>4, HeadingOf
  <2>2. ASSUME d \in Tty, NEW o \in OwnOptions(d)
        PROVE  Heading(look[d][o], todo, o, Stateless)
    <3>1. d \notin Pane /\ o \in {"title", "badge"}
      BY <2>2, RenderersAssumption DEF OwnOptions
    <3>2. "blank" \in Stateless
      BY DEF Stateless, Value, AgentState
    <3>. QED BY <1>2, <3>1, <3>2, HeadingOf
  <2>. QED BY <1>4, <1>5, <2>1, <2>2 DEF DaemonResets, j
<1>11. CliResets'
  BY <1>4, <1>5, Sharing DEF LooksInv, CliResets, Unchanged, Shares, j, k, l
<1>12. RenderHeads'
  BY <1>5 DEF RenderHeads, j
<1>13. OneStateShown'
  BY <1>4, <1>5 DEF LooksInv, OneStateShown, ShownStates, j
<1>. QED BY <1>6, <1>7, <1>8, <1>9, <1>10, <1>11, <1>12, <1>13 DEF LooksInv

\* Both commands of the CLI draw on a pane of their own accord, with no capture.
LEMMA CliDraws ==
    ASSUME RenderersInv, LooksInv, NEW d \in Pane, NEW kind \in {"render", "reset"},
           NEW st \in AgentState, NEW todo \in Seq(Command), Begin("cli", kind, d, st, "plain", todo),
           Left(todo, "capture") = {},
           kind = "reset" => \A o \in TmuxOption : Left(todo, o) = {"unset"},
           UNCHANGED <<isolated, look, prior, users, view>>,
           disturbed' = disturbed \cup {d} \cup Spilled(d)
    PROVE  LooksInv'
<1> DEFINE j == job'["cli"]
           k == job["daemon"]
           l == job'["daemon"]
<1>1. d \in Device /\ "plain" \in Label
  BY DEF Device, Label
<1>2. /\ job["cli"] = NoJob /\ j # NoJob /\ j.kind = kind /\ j.target = d /\ j.todo = todo
      /\ k = NoJob => l = NoJob
      /\ k # NoJob => Unchanged(k, l) /\ (j.alone => ~Shares(k.target, d))
  BY <1>1, BegunJobs DEF Actor
<1> HIDE DEF j, k, l
<1>3. StatesInPlace'
  BY DEF LooksInv, StatesInPlace
<1>4. IntrudersDisturb'
  BY <1>2 DEF LooksInv, IntrudersDisturb, Spilled, Shares, Unchanged, j, k, l
<1>5. CapturedIsUsers'
  BY <1>2 DEF LooksInv, CapturedIsUsers, At, Unchanged, k, l
<1>6. CaptureComesFirst'
  BY <1>2 DEF LooksInv, CaptureComesFirst, Unchanged, j, k, l
<1>7. DaemonResets'
  BY <1>2 DEF LooksInv, DaemonResets, Unchanged, k, l
<1>8. CliResets'
  <2>1. ASSUME kind = "reset", NEW o \in TmuxOption
        PROVE  Heading(look[d][o], todo, o, Stateless)
    <3>1. "unset" \in Stateless
      BY DEF Stateless, Value, AgentState
    <3>. QED BY <2>1, <3>1, HeadingOf
  <2>2. l # NoJob /\ j.alone => ~Shares(l.target, d)
    BY <1>2 DEF Unchanged
  <2>. QED BY <1>2, <2>1, <2>2 DEF CliResets, Shares, j, l
<1>9. RenderHeads'
  BY <1>2 DEF LooksInv, RenderHeads, Unchanged, k, l
<1>10. OneStateShown'
  BY <1>2 DEF LooksInv, OneStateShown, ShownStates, Unchanged, k, l
<1>. QED BY <1>3, <1>4, <1>5, <1>6, <1>7, <1>8, <1>9, <1>10 DEF LooksInv

LEMMA CliEventDraws ==
    ASSUME RenderersInv, LooksInv, NEW d \in Device, NEW v \in Views, CliEvent(d, v[1])
    PROVE  LooksInv'
<1> DEFINE todo == IF up THEN prototype_run(v[1]) ELSE standalone_render(v[1])
<1>1. v[1] \in AgentState /\ d \in Pane
  BY RenderersAssumption DEF CliEvent
<1>2. Left(todo, "capture") = {}
  BY <1>1, CliLeft
<1>3. todo \in Seq(Command)
  BY <1>1, CliFits, FittingAreCommands
<1>4. Begin("cli", "render", d, v[1], "plain", todo)
  BY DEF CliEvent
<1> HIDE DEF todo
<1>. QED BY <1>1, <1>2, <1>3, <1>4, CliDraws DEF CliEvent

LEMMA CliResetDraws ==
    ASSUME RenderersInv, LooksInv, NEW d \in Device, CliReset(d)
    PROVE  LooksInv'
<1>1. "Idle" \in AgentState /\ d \in Pane
  BY DEF CliReset, AgentState
<1>2. /\ tmux_reset(NoLook) \in Seq(Command) /\ Left(tmux_reset(NoLook), "capture") = {}
      /\ \A o \in TmuxOption : Left(tmux_reset(NoLook), o) = {"unset"}
  BY ResetLeft
<1>. QED BY <1>1, <1>2, CliDraws DEF CliReset

\* Going on with a drawing disturbs nobody anew.
LEMMA GoingOn ==
    ASSUME IntrudersDisturb, isolated' = isolated, disturbed \subseteq disturbed',
           \A b \in Actor : /\ job[b] = NoJob => job'[b] = NoJob
                            /\ job'[b] # NoJob => job'[b].target = job[b].target
    PROVE  IntrudersDisturb'
<1> DEFINE j == job["daemon"]
           k == job["cli"]
           j1 == job'["daemon"]
           k1 == job'["cli"]
<1>1. /\ j = NoJob => j1 = NoJob
      /\ k = NoJob => k1 = NoJob
      /\ j1 # NoJob => j1.target = j.target
      /\ k1 # NoJob => k1.target = k.target
  BY DEF Actor
<1> HIDE DEF j, k, j1, k1
<1>2. /\ k # NoJob => k.target \in Pane /\ \A e \in Device : Shares(k.target, e) => e \in disturbed
      /\ j # NoJob => \A e \in Device \ {j.target} : Shares(j.target, e) => e \in disturbed
  BY DEF IntrudersDisturb, j, k
<1>. QED BY <1>1, <1>2 DEF IntrudersDisturb, Shares, j1, k1

\* Wherever a job stands, its first command has been taken from what is left.
LEMMA CapturesTaken ==
    ASSUME RenderersInv, CaptureComesFirst, NEW a \in Actor, Turn(a), Advance(a)
    PROVE  /\ job'["cli"] # NoJob => Left(job'["cli"].todo, "capture") = {}
           /\ job'["daemon"] # NoJob /\ job'["daemon"].todo # <<>> =>
                 Left(Tail(job'["daemon"].todo), "capture") = {}
           /\ a = "daemon" /\ job'["daemon"].todo # <<>> =>
                 Head(job'["daemon"].todo).option # "capture"
<1> DEFINE todo == job[a].todo
           rest == job'[a].todo
<1>1. /\ todo \in Seq(Command) /\ todo # <<>> /\ rest = Tail(todo) /\ job[a] # NoJob
      /\ \A b \in Actor \ {a} : job'[b] = job[b]
  BY AdvancedJobs DEF Turn
<1> HIDE DEF todo, rest
<1>2. rest \in Seq(Command)
  BY <1>1, HeadTailProperties
<1>3. rest # <<>> => /\ Left(Tail(rest), "capture") \subseteq Left(rest, "capture")
                     /\ Head(rest).option = "capture" => Left(rest, "capture") # {}
  BY <1>2, LeftOfTail
<1>4. Left(rest, "capture") \subseteq Left(todo, "capture")
  BY <1>1, LeftOfTail
<1>5. CASE a = "cli"
  <2>1. Left(rest, "capture") = {}
    BY <1>1, <1>4, <1>5 DEF CaptureComesFirst, todo
  <2>2. job'["daemon"] = job["daemon"]
    BY <1>1, <1>5 DEF Actor
  <2>. QED BY <1>5, <2>1, <2>2 DEF CaptureComesFirst, rest
<1>6. CASE a = "daemon"
  <2>1. Left(rest, "capture") = {}
    BY <1>1, <1>6 DEF CaptureComesFirst, todo
  <2>2. job'["cli"] = job["cli"]
    BY <1>1, <1>6 DEF Actor
  <2>. QED BY <1>3, <1>6, <2>1, <2>2 DEF CaptureComesFirst, rest
<1>. QED BY <1>5, <1>6 DEF Actor

LEMMA CliDrawDraws ==
    ASSUME RenderersInv, LooksInv, Draw("cli")
    PROVE  LooksInv'
<1> DEFINE k == job["cli"]
           k1 == job'["cli"]
           d == k.target
           c == Current("cli")
<1>1. "cli" \in Actor /\ "daemon" \in Actor \ {"cli"} /\ Turn("cli") /\ Advance("cli")
  BY DEF Draw, Actor
<1>2. /\ k # NoJob /\ Further(k, k1) /\ k1.ok = k.ok
      /\ k.todo \in Seq(Command) /\ k1.todo = Tail(k.todo) /\ k.todo # <<>> /\ c = Head(k.todo)
      /\ job'["daemon"] = job["daemon"]
  BY <1>1, AdvancedJobs DEF Turn, Current
<1>3. c \in Fitting(d) /\ c.option \in Option /\ c.value \in Value
  BY <1>1, InvParts, TurnHas DEF Draw, Fitting, Command
<1>4. /\ d \in Pane /\ d \in Device
      /\ \A e \in Device : Shares(d, e) => e \in disturbed /\ e \in Pane
  BY <1>2 DEF LooksInv, IntrudersDisturb, Shares, Device
<1>5. c.option \in TmuxOption
  BY <1>3, <1>4 DEF Fitting, DrawnOn, Option
<1>6. look' = Drawn(d, c) /\ UNCHANGED <<isolated, prior, users, disturbed, view>>
  BY DEF Draw
<1> HIDE DEF k, k1, d, c
<1>7. \A e \in Device : /\ ~Shares(d, e) => look'[e] = look[e]
                        /\ e \notin disturbed => look'[e] = look[e]
                        /\ e \notin Pane => look'[e] = look[e]
  BY <1>4, <1>6 DEF Drawn
<1>8. /\ \A o \in Option : look'[d][o] = IF c.option = o THEN c.value ELSE look[d][o]
      /\ \A e \in Pane, o \in Option : o \notin TmuxOption => look'[e][o] = look[e][o]
  BY <1>3, <1>4, <1>5, <1>6 DEF Drawn, Shares, RenderersInv, TypeOK, Look, Device
<1>9. StatesInPlace'
  BY <1>6, <1>7, <1>8 DEF LooksInv, StatesInPlace, OwnOptions
<1>10. IntrudersDisturb'
  BY <1>2, <1>6 DEF LooksInv, IntrudersDisturb, Further, Shares, k, k1
<1>11. CapturedIsUsers'
  BY <1>2, <1>6, <1>7 DEF LooksInv, CapturedIsUsers, At, Device
<1>12. CaptureComesFirst'
  <2>1. k1 # NoJob => Left(k1.todo, "capture") = {}
    BY <1>1, CapturesTaken DEF LooksInv, k1
  <2>2. job["daemon"] # NoJob => job["daemon"].target \in Device
    BY DEF RenderersInv, TypeOK, Job, Actor
  <2>. QED BY <1>2, <1>6, <1>7, <2>1, <2>2 DEF LooksInv, CaptureComesFirst, k1
<1>13. DaemonResets'
  <2>1. job["daemon"] # NoJob => job["daemon"].target \in Device
    BY DEF RenderersInv, TypeOK, Job, Actor
  <2>2. \A e \in Tty : e \notin Pane
    BY RenderersAssumption
  <2>. QED BY <1>2, <1>6, <1>7, <2>1, <2>2 DEF LooksInv, DaemonResets
<1>14. CliResets'
  <2>1. ASSUME k.alone, k.kind = "reset", k.ok, NEW o \in TmuxOption
        PROVE  Heading(look'[d][o], k1.todo, o, Stateless)
    <3>1. Heading(look[d][o], k.todo, o, Stateless)
      BY <1>2, <2>1 DEF LooksInv, CliResets, k, d
    <3>2. look'[d][o] = IF c.option = o THEN c.value ELSE look[d][o]
      BY <1>8 DEF TmuxOption, Option
    <3>. QED BY <1>2, <3>1, <3>2, HeadingKept
  <2>2. k.alone /\ job["daemon"] # NoJob => ~Shares(job["daemon"].target, d)
    BY <1>2 DEF LooksInv, CliResets, k, d
  <2>3. k1.target = d
    BY <1>2 DEF Further, d
  <2>. QED BY <1>2, <1>6, <2>1, <2>2, <2>3 DEF CliResets, Further, Shares, k1
<1>15. RenderHeads'
  <2>1. job["daemon"] # NoJob => job["daemon"].target \in Device
    BY DEF RenderersInv, TypeOK, Job, Actor
  <2>. QED BY <1>2, <1>6, <1>7, <2>1 DEF LooksInv, RenderHeads
<1>16. OneStateShown'
  BY <1>2, <1>6, <1>7 DEF LooksInv, OneStateShown, ShownStates
<1>. QED BY <1>9, <1>10, <1>11, <1>12, <1>13, <1>14, <1>15, <1>16 DEF LooksInv

LEMMA DaemonDrawDraws ==
    ASSUME RenderersInv, LooksInv, Draw("daemon")
    PROVE  LooksInv'
<1> DEFINE j == job["daemon"]
           j1 == job'["daemon"]
           d == j.target
           c == Current("daemon")
<1>1. "daemon" \in Actor /\ "cli" \in Actor \ {"daemon"} /\ Turn("daemon") /\ Advance("daemon")
  BY DEF Draw, Actor
<1>2. /\ j # NoJob /\ Further(j, j1) /\ j1.ok = j.ok
      /\ j.todo \in Seq(Command) /\ j1.todo = Tail(j.todo) /\ j.todo # <<>> /\ c = Head(j.todo)
      /\ job'["cli"] = job["cli"]
  BY <1>1, AdvancedJobs DEF Turn, Current
<1>3. d \in Device /\ c \in Fitting(d) /\ c.option \in Option /\ c.value \in Value
  BY <1>1, InvParts, TurnHas DEF Draw, Fitting, Command
<1>4. c.option \in OwnOptions(d) /\ c.option # "capture"
  BY <1>3 DEF Fitting, DrawnOn, Option, OwnOptions, TmuxOption
<1>5. \A e \in Device : Shares(d, e) => (e = d \/ e \in disturbed) /\ OwnOptions(e) = OwnOptions(d)
  BY <1>2 DEF LooksInv, IntrudersDisturb, Shares, OwnOptions
<1>6. look' = Drawn(d, c) /\ UNCHANGED <<isolated, prior, users, disturbed, view>>
  BY DEF Draw
<1> HIDE DEF j, j1, d, c
<1>7. \A e \in Device : /\ ~Shares(d, e) => look'[e] = look[e]
                        /\ e \notin disturbed /\ e # d => look'[e] = look[e]
  BY <1>5, <1>6 DEF Drawn
<1>8. /\ \A o \in Option : look'[d][o] = IF c.option = o THEN c.value ELSE look[d][o]
      /\ \A e \in Device, o \in Option : o \notin OwnOptions(e) => look'[e][o] = look[e][o]
  BY <1>3, <1>4, <1>5, <1>6 DEF Drawn, Shares, RenderersInv, TypeOK, Look
<1>9. \A o, G : o \in Option /\ Heading(look[d][o], j.todo, o, G) => Heading(look'[d][o], j1.todo, o, G)
  BY <1>2, <1>8, HeadingKept
<1>10. StatesInPlace'
  BY <1>6, <1>8 DEF LooksInv, StatesInPlace
<1>11. IntrudersDisturb'
  BY <1>2, <1>6 DEF LooksInv, IntrudersDisturb, Further, Shares, j, j1
<1>12. CapturedIsUsers'
  BY <1>2, <1>6, <1>7 DEF LooksInv, CapturedIsUsers, At, Device, Further, j, j1, d
<1>13. CaptureComesFirst'
  <2>1. /\ job'["cli"] # NoJob => Left(job'["cli"].todo, "capture") = {}
        /\ j1.todo # <<>> => Left(Tail(j1.todo), "capture") = {} /\ Head(j1.todo).option # "capture"
    BY <1>1, <1>2, CapturesTaken DEF LooksInv, Further, j1
  <2>2. d \in Pane \ disturbed => ~(j.kind = "render" /\ prior[d] = NoLook)
    BY <1>2, <1>4 DEF LooksInv, CaptureComesFirst, j, d
  <2>3. j1.target = d /\ j1.kind = j.kind
    BY <1>2 DEF Further, d
  <2>. QED BY <1>6, <2>1, <2>2, <2>3 DEF CaptureComesFirst, j1
<1>14. j1.target = d /\ j1.kind = j.kind /\ j1.state = j.state /\ j1.label = j.label
  BY <1>2 DEF Further, d
<1>15. DaemonResets'
  <2>1. TmuxOption \subseteq Option /\ OwnOptions(d) \subseteq Option
    BY DEF TmuxOption, Option, OwnOptions
  <2>2. j.kind = "reset" =>
          /\ d \in Pane \ disturbed => \A o \in TmuxOption :
                Heading(look[d][o], j.todo, o, AsFound(users[d][o]))
          /\ d \in Tty /\ j.ok => \A o \in OwnOptions(d) : Heading(look[d][o], j.todo, o, Stateless)
    BY <1>2 DEF LooksInv, DaemonResets, j, d
  <2>3. j.kind = "reset" =>
          /\ d \in Pane \ disturbed => \A o \in TmuxOption :
                Heading(look'[d][o], j1.todo, o, AsFound(users[d][o]))
          /\ d \in Tty /\ j.ok => \A o \in OwnOptions(d) : Heading(look'[d][o], j1.todo, o, Stateless)
    BY <1>9, <2>1, <2>2
  <2>. QED BY <1>2, <1>6, <1>14, <2>3 DEF DaemonResets, j1
<1>16. CliResets'
  <2>1. job["cli"] # NoJob => job["cli"].target \in Device
    BY DEF RenderersInv, TypeOK, Job, Actor
  <2>2. j1 # NoJob
    BY <1>2 DEF Further
  <2>. QED BY <1>2, <1>6, <1>7, <1>14, <2>1, <2>2 DEF LooksInv, CliResets, Shares, j, j1, d
<1>17. RenderHeads'
  <2>1. OwnOptions(d) \subseteq Option /\ Mark(d) \in Option
    BY DEF TmuxOption, Option, OwnOptions, Mark
  <2>2. j.kind = "render" /\ d \notin disturbed /\ Drawable(j.state, j.label) =>
          /\ \A o \in OwnOptions(d) : Heading(look[d][o], j.todo, o, Showing(j.state))
          /\ j.state # "Idle" => Heading(look[d][Mark(d)], j.todo, Mark(d), {j.state})
    BY <1>2 DEF LooksInv, RenderHeads, j, d
  <2>3. j.kind = "render" /\ d \notin disturbed /\ Drawable(j.state, j.label) =>
          /\ \A o \in OwnOptions(d) : Heading(look'[d][o], j1.todo, o, Showing(j.state))
          /\ j.state # "Idle" => Heading(look'[d][Mark(d)], j1.todo, Mark(d), {j.state})
    BY <1>9, <2>1, <2>2
  <2>. QED BY <1>6, <1>14, <2>3 DEF RenderHeads, j1
<1>18. OneStateShown'
  <2>1. j1 # NoJob
    BY <1>2 DEF Further
  <2>. QED BY <1>6, <1>7, <1>14, <2>1 DEF LooksInv, OneStateShown, ShownStates, j1, d, j
<1>. QED BY <1>10, <1>11, <1>12, <1>13, <1>15, <1>16, <1>17, <1>18 DEF LooksInv

LEMMA DrawDraws ==
    ASSUME RenderersInv, LooksInv, NEW a \in Actor, Draw(a)
    PROVE  LooksInv'
BY CliDrawDraws, DaemonDrawDraws DEF Actor

\* Past a command that draws nothing every option is heading where it was.
LEMMA PassingBy ==
    ASSUME RenderersInv, LooksInv, NEW a \in Actor, Turn(a), Advance(a), Current(a).option \notin Option,
           UNCHANGED <<isolated, look, users>>, disturbed \subseteq disturbed'
    PROVE  IntrudersDisturb' /\ DaemonResets' /\ CliResets' /\ RenderHeads'
<1>1. /\ job[a] # NoJob /\ Further(job[a], job'[a]) /\ job'[a].ok = job[a].ok
      /\ job[a].todo \in Seq(Command) /\ job[a].todo # <<>> /\ job'[a].todo = Tail(job[a].todo)
      /\ \A b \in Actor \ {a} : job'[b] = job[b]
  BY AdvancedJobs DEF Turn
<1>2. \A o \in Option : \A value, G :
         Heading(value, job[a].todo, o, G) => Heading(value, job'[a].todo, o, G)
  BY <1>1, HeadingKept DEF Current
<1>3. /\ TmuxOption \subseteq Option
      /\ \A d : OwnOptions(d) \subseteq Option /\ Mark(d) \in Option
  BY DEF TmuxOption, Option, OwnOptions, Mark
<1> DEFINE j == job["daemon"]
           j1 == job'["daemon"]
           k == job["cli"]
           k1 == job'["cli"]
<1>4. /\ j = NoJob => j1 = NoJob
      /\ k = NoJob => k1 = NoJob
      /\ j # NoJob => Further(j, j1) /\ j1.ok = j.ok
      /\ k # NoJob => Further(k, k1) /\ k1.ok = k.ok
  <2>1. \A b \in Actor : /\ job[b] = NoJob => job'[b] = NoJob
                         /\ job[b] # NoJob => Further(job[b], job'[b]) /\ job'[b].ok = job[b].ok
    BY <1>1 DEF Further
  <2>. QED BY <2>1 DEF Actor
<1>5. /\ j # NoJob => \A o \in Option : \A value, G : Heading(value, j.todo, o, G) => Heading(value, j1.todo, o, G)
      /\ k # NoJob => \A o \in Option : \A value, G : Heading(value, k.todo, o, G) => Heading(value, k1.todo, o, G)
  BY <1>1, <1>2 DEF Actor
<1>6. IntrudersDisturb'
  <2>1. \A b \in Actor : /\ job[b] = NoJob => job'[b] = NoJob
                         /\ job'[b] # NoJob => job'[b].target = job[b].target
    BY <1>4 DEF Further, Actor
  <2>. QED BY <2>1, GoingOn DEF LooksInv
<1> HIDE DEF j, j1, k, k1
<1>7. DaemonResets'
  <2>1. ASSUME j # NoJob, j.kind = "reset", j.target \in Pane \ disturbed', NEW o \in TmuxOption
        PROVE  Heading(look[j.target][o], j1.todo, o, AsFound(users[j.target][o]))
    <3>1. Heading(look[j.target][o], j.todo, o, AsFound(users[j.target][o]))
      BY <2>1 DEF LooksInv, DaemonResets, j
    <3>. QED BY <1>3, <1>5, <2>1, <3>1
  <2>2. ASSUME j # NoJob, j.kind = "reset", j.target \in Tty, j.ok, NEW o \in OwnOptions(j.target)
        PROVE  Heading(look[j.target][o], j1.todo, o, Stateless)
    <3>1. Heading(look[j.target][o], j.todo, o, Stateless)
      BY <2>2 DEF LooksInv, DaemonResets, j
    <3>. QED BY <1>3, <1>5, <2>2, <3>1
  <2>. QED BY <1>4, <2>1, <2>2 DEF DaemonResets, Further, j1
<1>8. CliResets'
  <2>1. ASSUME k # NoJob, k.alone, k.kind = "reset", k.ok, NEW o \in TmuxOption
        PROVE  Heading(look[k.target][o], k1.todo, o, Stateless)
    <3>1. Heading(look[k.target][o], k.todo, o, Stateless)
      BY <2>1 DEF LooksInv, CliResets, k
    <3>. QED BY <1>3, <1>5, <2>1, <3>1
  <2>2. k # NoJob /\ k.alone /\ j # NoJob => ~Shares(j.target, k.target)
    BY DEF LooksInv, CliResets, j, k
  <2>. QED BY <1>4, <2>1, <2>2 DEF CliResets, Further, Shares, j1, k1
<1>9. RenderHeads'
  <2>1. ASSUME j # NoJob, j.kind = "render", j.target \notin disturbed', Drawable(j.state, j.label)
        PROVE  /\ \A o \in OwnOptions(j.target) : Heading(look[j.target][o], j1.todo, o, Showing(j.state))
               /\ j.state # "Idle" =>
                    Heading(look[j.target][Mark(j.target)], j1.todo, Mark(j.target), {j.state})
    <3>1. /\ \A o \in OwnOptions(j.target) : Heading(look[j.target][o], j.todo, o, Showing(j.state))
          /\ j.state # "Idle" =>
               Heading(look[j.target][Mark(j.target)], j.todo, Mark(j.target), {j.state})
      BY <2>1 DEF LooksInv, RenderHeads, j
    <3>. QED BY <1>3, <1>5, <2>1, <3>1
  <2>. QED BY <1>4, <2>1 DEF RenderHeads, Further, j1
<1>. QED BY <1>6, <1>7, <1>8, <1>9

LEMMA NotifyDraws ==
    ASSUME RenderersInv, LooksInv, NEW a \in Actor, Notify(a)
    PROVE  LooksInv'
<1>1. Turn(a) /\ Advance(a) /\ Current(a).option = "notify" /\ Current(a).option \notin Option
  BY DEF Notify, Option
<1>2. UNCHANGED <<isolated, look, prior, users, disturbed, view>>
  BY DEF Notify
<1>3. IntrudersDisturb' /\ DaemonResets' /\ CliResets' /\ RenderHeads'
  BY <1>1, <1>2, PassingBy
<1> DEFINE j == job["daemon"]
           j1 == job'["daemon"]
<1>4. /\ j = NoJob => j1 = NoJob
      /\ j # NoJob => j1 # NoJob /\ j1.target = j.target /\ j1.kind = j.kind
      /\ a # "daemon" => j1 = j
  <2>1. job[a] # NoJob /\ Further(job[a], job'[a]) /\ \A b \in Actor \ {a} : job'[b] = job[b]
    BY <1>1, AdvancedJobs DEF Turn
  <2>2. a # "daemon" => j1 = j
    BY <2>1 DEF Actor
  <2>. QED BY <2>1, <2>2 DEF Further
<1> HIDE DEF j, j1
<1>5. StatesInPlace'
  BY <1>2 DEF LooksInv, StatesInPlace
<1>6. CapturedIsUsers'
  BY <1>2, <1>4 DEF LooksInv, CapturedIsUsers, At, j, j1
<1>7. CaptureComesFirst'
  <2>1. /\ job'["cli"] # NoJob => Left(job'["cli"].todo, "capture") = {}
        /\ j1 # NoJob /\ j1.todo # <<>> => Left(Tail(j1.todo), "capture") = {}
        /\ a = "daemon" /\ j1.todo # <<>> => Head(j1.todo).option # "capture"
    BY <1>1, CapturesTaken DEF LooksInv, j1
  <2>2. a = "daemon" /\ j.target \in Pane \ disturbed => ~(j.kind = "render" /\ prior[j.target] = NoLook)
    BY <1>1 DEF LooksInv, CaptureComesFirst, Turn, Current, j
  <2>3. CASE a = "daemon"
    BY <1>2, <1>4, <2>1, <2>2, <2>3 DEF CaptureComesFirst, j1
  <2>4. CASE a # "daemon"
    BY <1>2, <1>4, <2>1, <2>4 DEF LooksInv, CaptureComesFirst, j, j1
  <2>. QED BY <2>3, <2>4
<1>8. OneStateShown'
  BY <1>2, <1>4 DEF LooksInv, OneStateShown, ShownStates, j, j1
<1>. QED BY <1>3, <1>5, <1>6, <1>7, <1>8 DEF LooksInv

LEMMA CaptureDraws ==
    ASSUME RenderersInv, LooksInv, NEW a \in Actor, NEW unread \in SUBSET Option, Capture(a, unread)
    PROVE  LooksInv'
<1> DEFINE j == job["daemon"]
           j1 == job'["daemon"]
           d == j.target
           taken == [o \in Option |-> IF o \in unread THEN "unset" ELSE trimmed(effective(look[d][o]))]
<1>1. Turn(a) /\ Advance(a) /\ Current(a).option = "capture" /\ Current(a).option \notin Option
  BY DEF Capture, Option
<1>2. a = "daemon"
  <2>1. job[a].todo \in Seq(Command) /\ job[a].todo # <<>>
    BY <1>1, AdvancedJobs DEF Turn
  <2>2. Left(job[a].todo, "capture") # {}
    BY <1>1, <2>1, LeftOfTail DEF Current
  <2>. QED BY <1>1, <2>2 DEF LooksInv, CaptureComesFirst, Turn, Actor
<1>3. /\ j # NoJob /\ j1 # NoJob /\ j1.target = d /\ j1.kind = j.kind
      /\ job'["cli"] = job["cli"]
  <2>1. job[a] # NoJob /\ Further(job[a], job'[a]) /\ \A b \in Actor \ {a} : job'[b] = job[b]
    BY <1>1, AdvancedJobs DEF Turn
  <2>2. "cli" \in Actor \ {a}
    BY <1>2 DEF Actor
  <2>. QED BY <1>2, <2>1, <2>2 DEF Further
<1>4. d \in Pane /\ d \in Device
  BY <1>1, <1>2, InvParts, TurnHas DEF Fitting, DrawnOn
<1>5. /\ UNCHANGED <<isolated, look, users, view>>
      /\ prior' = [prior EXCEPT ![d] = taken]
      /\ disturbed \subseteq disturbed' /\ (unread # {} => d \in disturbed')
  BY <1>2 DEF Capture
<1>6. taken # NoLook
  <2>1. taken \in Look
    <3>1. look[d] \in [Option -> Value] /\ "unset" \in Value
      BY <1>4 DEF RenderersInv, TypeOK, Look, Value
    <3> HIDE DEF d
    <3>. QED BY <3>1, InForceValue DEF Look
  <2>. QED BY <2>1, NoneAssumption DEF Look
<1>7. d \notin disturbed' => Same(look[d], users[d]) /\ Same(taken, users[d])
  <2>1. ASSUME d \notin disturbed'
        PROVE  Same(look[d], users[d]) /\ Same(taken, users[d])
    <3>1. Same(look[d], users[d])
      BY <1>1, <1>2, <1>3, <1>4, <1>5, <2>1 DEF LooksInv, CaptureComesFirst, Turn, Current
    <3>2. \A o \in TmuxOption : taken[o] = trimmed(effective(look[d][o]))
      BY <1>5, <2>1 DEF TmuxOption, Option
    <3>3. \A o \in TmuxOption : look[d][o] \in Value /\ users[d][o] \in Value
      BY <1>4 DEF RenderersInv, TypeOK, Look, TmuxOption, Option
    <3> HIDE DEF d, taken
    <3>4. ASSUME NEW o \in TmuxOption
          PROVE  effective(taken[o]) \in Restored(users[d][o])
      <4>1. effective(taken[o]) = trimmed(effective(look[d][o]))
        BY <3>2, <3>3, InForceValue
      <4>2. effective(look[d][o]) \in {effective(users[d][o]), trimmed(effective(users[d][o]))}
        BY <3>1 DEF Same, Restored
      <4>3. trimmed(trimmed(effective(users[d][o]))) = trimmed(effective(users[d][o]))
        BY <3>3, InForceValue
      <4>. QED BY <4>1, <4>2, <4>3 DEF Restored
    <3>. QED BY <3>1, <3>4 DEF Same
  <2>. QED BY <2>1
<1> HIDE DEF j, j1, d, taken
<1>8. \A e \in Device : prior'[e] = IF e = d THEN taken ELSE prior[e]
  BY <1>4, <1>5 DEF RenderersInv, TypeOK
<1>9. IntrudersDisturb' /\ DaemonResets' /\ CliResets' /\ RenderHeads'
  BY <1>1, <1>5, PassingBy
<1>10. StatesInPlace'
  BY <1>5 DEF LooksInv, StatesInPlace
<1>11. CapturedIsUsers'
  BY <1>3, <1>5, <1>6, <1>7, <1>8 DEF LooksInv, CapturedIsUsers, At, Device, j, j1, d
<1>12. CaptureComesFirst'
  <2>1. /\ job'["cli"] # NoJob => Left(job'["cli"].todo, "capture") = {}
        /\ j1.todo # <<>> => Left(Tail(j1.todo), "capture") = {} /\ Head(j1.todo).option # "capture"
    BY <1>1, <1>2, <1>3, CapturesTaken DEF LooksInv, j1
  <2>. QED BY <1>3, <1>4, <1>6, <1>8, <2>1 DEF CaptureComesFirst, j1
<1>13. OneStateShown'
  BY <1>3, <1>5 DEF LooksInv, OneStateShown, ShownStates, j, j1, d
<1>. QED BY <1>9, <1>10, <1>11, <1>12, <1>13 DEF LooksInv

LEMMA FailDraws ==
    ASSUME RenderersInv, LooksInv, NEW a \in Actor, Fail(a)
    PROVE  LooksInv'
<1> DEFINE todo == job[a].todo
           j == job["daemon"]
           j1 == job'["daemon"]
           k == job["cli"]
           k1 == job'["cli"]
<1>1. PICK next \in 2..Len(todo) + 1 :
         job' = [job EXCEPT ![a].todo = SubSeq(@, next, Len(@)), ![a].ok = FALSE]
  BY DEF Fail
<1>2. Turn(a) /\ Current(a).option \in Option /\ job[a] # NoJob
  BY DEF Fail, Turn
<1>3. /\ UNCHANGED <<isolated, look, prior, users, view>>
      /\ disturbed' = disturbed \cup {job[a].target}
  BY DEF Fail
<1>4. job[a] \in Job /\ job \in [Actor -> Job \cup {NoJob}]
  BY <1>2 DEF RenderersInv, TypeOK
<1>5. todo \in Seq(Command) /\ todo # <<>> /\ Len(todo) \in Nat
  BY <1>2, <1>4, LenProperties DEF Job, Turn
<1> DEFINE rest == SubSeq(todo, next, Len(todo))
           new == [job[a] EXCEPT !.todo = rest, !.ok = FALSE]
<1>6. rest \in Seq(Command)
  <2>1. \A i \in next..Len(todo) : todo[i] \in Command
    BY <1>5, ElementOfSeq
  <2>. QED BY <1>1, <1>5, <2>1, SubSeqProperties
<1>7. Left(rest, "capture") \subseteq Left(todo, "capture")
  <2>1. next \in 1..Len(todo) + 1
    BY <1>1, <1>5
  <2>. QED BY <1>5, <2>1, LeftOfSub
<1>8. job' = [job EXCEPT ![a] = new]
  BY <1>1, <1>4, <1>5
<1>9. job'[a] = new /\ \A b \in Actor \ {a} : job'[b] = job[b]
  BY <1>4, <1>8
<1> HIDE DEF rest
<1>10. new \in Job
  BY <1>4, <1>6 DEF Job
<1>11. new # NoJob
  BY <1>10, NoneAssumption
<1>12. Further(job[a], new) /\ new.todo = rest /\ new.ok = FALSE
  BY <1>4, <1>11 DEF Further, Job
<1> HIDE DEF new, todo
<1>13. /\ Further(job[a], job'[a]) /\ job'[a].todo = rest /\ job'[a].ok = FALSE
       /\ \A b \in Actor \ {a} : job'[b] = job[b]
  BY <1>9, <1>12
<1>14. Left(rest, "capture") = {}
  <2>1. Left(todo, "capture") =
          Left(Tail(todo), "capture") \cup IF Head(todo).option = "capture" THEN {Head(todo).value} ELSE {}
    BY <1>5, LeftOfTail
  <2>2. Head(todo).option # "capture"
    BY <1>2 DEF Current, Option, todo
  <2>3. a = "cli" => Left(todo, "capture") = {}
    BY <1>2 DEF LooksInv, CaptureComesFirst, todo
  <2>4. a = "daemon" => Left(Tail(todo), "capture") = {}
    BY <1>2, <1>5 DEF LooksInv, CaptureComesFirst, todo
  <2>5. Left(todo, "capture") = {}
    BY <2>1, <2>2, <2>3, <2>4 DEF Actor
  <2>. QED BY <1>7, <2>5
<1>15. StatesInPlace'
  BY <1>3 DEF LooksInv, StatesInPlace
<1>16. IntrudersDisturb'
  <2>1. \A b \in Actor : /\ job[b] = NoJob => job'[b] = NoJob
                         /\ job'[b] # NoJob => job'[b].target = job[b].target
    BY <1>2, <1>13 DEF Further
  <2>2. disturbed \subseteq disturbed'
    BY <1>3
  <2>. QED BY <1>3, <2>1, <2>2, GoingOn DEF LooksInv
<1>17. CASE a = "cli"
  <2>1. Further(k, k1) /\ k1.todo = rest /\ ~k1.ok /\ k # NoJob /\ j1 = j
    BY <1>2, <1>13, <1>17 DEF Actor
  <2> HIDE DEF j, j1, k, k1
  <2>2. CapturedIsUsers'
    BY <1>3, <2>1 DEF LooksInv, CapturedIsUsers, At, j, j1
  <2>3. CaptureComesFirst'
    BY <1>3, <1>14, <2>1 DEF LooksInv, CaptureComesFirst, j, j1, k1
  <2>4. DaemonResets' /\ RenderHeads'
    BY <1>3, <2>1 DEF LooksInv, DaemonResets, RenderHeads, j, j1
  <2>5. CliResets'
    BY <1>3, <2>1 DEF LooksInv, CliResets, Further, Shares, j, j1, k, k1
  <2>6. OneStateShown'
    BY <1>3, <2>1 DEF LooksInv, OneStateShown, ShownStates, j, j1
  <2>. QED BY <1>15, <1>16, <2>2, <2>3, <2>4, <2>5, <2>6 DEF LooksInv
<1>18. CASE a = "daemon"
  <2>1. Further(j, j1) /\ j1.todo = rest /\ ~j1.ok /\ j # NoJob /\ k1 = k /\ j1.target \in disturbed'
    BY <1>2, <1>3, <1>13, <1>18 DEF Actor, Further
  <2> HIDE DEF j, j1, k, k1
  <2>2. CapturedIsUsers'
    BY <1>3, <2>1 DEF LooksInv, CapturedIsUsers, At, Further, j, j1
  <2>3. CaptureComesFirst'
    <3>1. rest # <<>> => Left(Tail(rest), "capture") = {}
      BY <1>6, <1>14, LeftOfTail
    <3>. QED BY <2>1, <3>1 DEF LooksInv, CaptureComesFirst, j1, k, k1
  <2>4. DaemonResets' /\ RenderHeads'
    BY <2>1 DEF DaemonResets, RenderHeads, j1
  <2>5. CliResets'
    BY <1>3, <2>1 DEF LooksInv, CliResets, Further, Shares, j, j1, k, k1
  <2>6. OneStateShown'
    BY <1>3, <2>1 DEF LooksInv, OneStateShown, ShownStates, Further, j, j1
  <2>. QED BY <1>15, <1>16, <2>2, <2>3, <2>4, <2>5, <2>6 DEF LooksInv
<1>. QED BY <1>17, <1>18 DEF Actor

LEMMA ShowsOneState ==
    ASSUME StatesInPlace, NEW d \in Device, NEW st \in AgentState,
           \A o \in OwnOptions(d) : look[d][o] \in Showing(st),
           st # "Idle" => look[d][Mark(d)] = st
    PROVE  ShownStates(d) = {st} \ {"Idle"}
<1>1. Mark(d) \in Option
  BY DEF Mark, Option
<1>2. \A o \in Option : look[d][o] \in AgentState => look[d][o] \in {st} \ {"Idle"}
  BY DEF StatesInPlace, Showing, Stateless
<1>. QED BY <1>1, <1>2 DEF ShownStates

\* At the end of a drawing each option is where it was heading.
LEMMA FinishDraws ==
    ASSUME RenderersInv, LooksInv, NEW a \in Actor, Finish(a)
    PROVE  LooksInv'
<1> DEFINE j == job["daemon"]
           j1 == job'["daemon"]
           k == job["cli"]
           k1 == job'["cli"]
           d == job[a].target
<1>1. /\ UNCHANGED <<isolated, look, prior, users, disturbed>>
      /\ job[a] # NoJob /\ job[a].todo = <<>>
      /\ view' = [view EXCEPT ![d] = IF a = "daemon" /\ job[a].kind = "render"
                                     THEN [state |-> job[a].state, label |-> job[a].label] ELSE NoView]
  BY DEF Finish
<1>2. job'[a] = NoJob /\ \A b \in Actor \ {a} : job'[b] = job[b]
  BY DEF Finish, RenderersInv, TypeOK
<1>3. job[a] \in Job /\ d \in Device
  BY <1>1 DEF RenderersInv, TypeOK, Job
<1>4. \A e \in Device : view'[e] = IF e # d THEN view[e]
                                   ELSE IF a = "daemon" /\ job[a].kind = "render"
                                        THEN [state |-> job[a].state, label |-> job[a].label] ELSE NoView
  BY <1>1, <1>3 DEF RenderersInv, TypeOK
<1>5. StatesInPlace'
  BY <1>1 DEF LooksInv, StatesInPlace
<1>6. CASE a = "cli"
  <2>1. k1 = NoJob /\ j1 = j
    BY <1>2, <1>6 DEF Actor
  <2>2. \A e \in Device : view'[e] = IF e # d THEN view[e] ELSE NoView
    BY <1>4, <1>6
  <2> HIDE DEF j, j1, k, k1, d
  <2>3. IntrudersDisturb'
    BY <1>1, <2>1 DEF LooksInv, IntrudersDisturb, Shares, j, j1, k1
  <2>4. CapturedIsUsers'
    BY <1>1, <2>1 DEF LooksInv, CapturedIsUsers, At, j, j1
  <2>5. CaptureComesFirst'
    BY <1>1, <2>1 DEF LooksInv, CaptureComesFirst, j, j1, k1
  <2>6. DaemonResets' /\ RenderHeads' /\ CliResets'
    BY <1>1, <2>1 DEF LooksInv, DaemonResets, RenderHeads, CliResets, j, j1, k1
  <2>7. OneStateShown'
    BY <1>1, <2>1, <2>2 DEF LooksInv, OneStateShown, ShownStates, j, j1
  <2>. QED BY <1>5, <2>3, <2>4, <2>5, <2>6, <2>7 DEF LooksInv
<1>7. CASE a = "daemon"
  <2>1. j1 = NoJob /\ k1 = k /\ j # NoJob /\ j.todo = <<>> /\ j.target = d
    BY <1>1, <1>2, <1>7 DEF Actor
  <2>2. j.kind \in {"render", "reset"} /\ j.state \in AgentState
    BY <1>3, <1>7 DEF Job
  <2>3. view'[d] = IF j.kind = "render" THEN [state |-> j.state, label |-> j.label] ELSE NoView
    BY <1>3, <1>4, <1>7
  <2> HIDE DEF j, j1, k, k1, d
  <2>4. IntrudersDisturb'
    BY <1>1, <2>1 DEF LooksInv, IntrudersDisturb, Shares, j1, k, k1
  <2>5. CapturedIsUsers'
    <3>1. d \in Pane \ disturbed /\ prior[d] = NoLook => Same(look[d], users[d])
      <4>1. SUFFICES ASSUME d \in Pane \ disturbed, prior[d] = NoLook, NEW o \in TmuxOption
                     PROVE  effective(look[d][o]) \in Restored(users[d][o])
        BY DEF Same
      <4>2. j.kind = "reset"
        BY <2>1, <2>2, <4>1 DEF LooksInv, CaptureComesFirst, j
      <4>3. Heading(look[d][o], <<>>, o, AsFound(users[d][o]))
        BY <2>1, <4>1, <4>2 DEF LooksInv, DaemonResets, j
      <4>4. look[d][o] \in AsFound(users[d][o])
        BY <4>3, HeadingDone
      <4>. QED BY <4>4 DEF AsFound
    <3>. QED BY <1>1, <2>1, <3>1 DEF LooksInv, CapturedIsUsers, At, j, j1
  <2>6. CaptureComesFirst'
    BY <1>1, <2>1 DEF LooksInv, CaptureComesFirst, j1, k, k1
  <2>7. DaemonResets' /\ RenderHeads' /\ CliResets'
    BY <1>1, <2>1 DEF LooksInv, DaemonResets, RenderHeads, CliResets, j1, k, k1
  <2>8. ASSUME d \notin disturbed, j.kind = "render", Drawable(j.state, j.label)
        PROVE  ShownStates(d) = {j.state} \ {"Idle"}
    <3>1. /\ \A o \in OwnOptions(d) : Heading(look[d][o], <<>>, o, Showing(j.state))
          /\ j.state # "Idle" => Heading(look[d][Mark(d)], <<>>, Mark(d), {j.state})
      BY <2>1, <2>8 DEF LooksInv, RenderHeads, j
    <3>2. \A o \in OwnOptions(d) : look[d][o] \in Showing(j.state)
      BY <3>1, HeadingDone
    <3>3. j.state # "Idle" => look[d][Mark(d)] = j.state
      BY <3>1, HeadingDone
    <3>. QED BY <1>3, <2>2, <3>2, <3>3, ShowsOneState DEF LooksInv
  <2>9. OneStateShown'
    <3>1. ASSUME NEW e \in Device \ disturbed, view'[e] # NoView,
                 view'[e].state = "Idle" \/ Complete(view'[e])
          PROVE  ShownStates(e) = {view'[e].state} \ {"Idle"}
      <4>1. CASE e = d
        <5>1. j.kind = "render" /\ view'[e] = [state |-> j.state, label |-> j.label]
          BY <2>3, <3>1, <4>1
        <5>2. view'[e].state = j.state /\ Drawable(j.state, j.label)
          BY <3>1, <5>1 DEF Drawable
        <5>. QED BY <2>8, <3>1, <4>1, <5>1, <5>2
      <4>2. CASE e # d
        BY <1>4, <2>1, <3>1, <4>2 DEF LooksInv, OneStateShown, j
      <4>. QED BY <4>1, <4>2
    <3>. QED BY <1>1, <3>1 DEF OneStateShown, ShownStates
  <2>. QED BY <1>5, <2>4, <2>5, <2>6, <2>7, <2>9 DEF LooksInv
<1>. QED BY <1>6, <1>7 DEF Actor

LEMMA CrashDraws ==
    ASSUME RenderersInv, LooksInv, Crash
    PROVE  LooksInv'
<1>1. job'["daemon"] = NoJob /\ job'["cli"] = job["cli"]
  BY DEF Crash, RenderersInv, TypeOK, Actor
<1>2. /\ UNCHANGED <<isolated, look, users>> /\ disturbed \subseteq disturbed'
      /\ \A d \in Device : view'[d] = NoView /\ prior'[d] = NoLook
      /\ \A d \in Device : d \notin disturbed' => prior[d] = NoLook /\ ~At(d)
  BY DEF Crash, NoCaptures, At
<1>3. StatesInPlace'
  BY <1>2 DEF LooksInv, StatesInPlace
<1>4. IntrudersDisturb'
  BY <1>1, <1>2 DEF LooksInv, IntrudersDisturb, Shares
<1>5. CapturedIsUsers'
  BY <1>2 DEF LooksInv, CapturedIsUsers, Device
<1>6. CaptureComesFirst'
  BY <1>1 DEF LooksInv, CaptureComesFirst
<1>7. DaemonResets' /\ RenderHeads'
  BY <1>1 DEF DaemonResets, RenderHeads
<1>8. CliResets'
  BY <1>1, <1>2 DEF LooksInv, CliResets
<1>9. OneStateShown'
  BY <1>2 DEF OneStateShown
<1>. QED BY <1>3, <1>4, <1>5, <1>6, <1>7, <1>8, <1>9 DEF LooksInv

LEMMA NextDraws == RenderersInv /\ LooksInv /\ [Next]_vars => LooksInv'
<1> SUFFICES ASSUME RenderersInv, LooksInv, [Next]_vars PROVE LooksInv'
  OBVIOUS
<1>1. CASE \E d \in Device, v \in Views : EngineRender(d, v[1], v[2])
  BY <1>1, EngineRenderDraws
<1>2. CASE \E d \in Device : EngineReset(d)
  BY <1>2, EngineResetDraws
<1>3. CASE \E d \in Device, v \in Views : CliEvent(d, v[1])
  BY <1>3, CliEventDraws
<1>4. CASE \E d \in Device : CliReset(d)
  BY <1>4, CliResetDraws
<1>5. CASE \E a \in Actor : Draw(a) \/ Fail(a) \/ Notify(a) \/ Finish(a)
  BY <1>5, DrawDraws, FailDraws, NotifyDraws, FinishDraws
<1>6. CASE \E a \in Actor,
               unread \in {{}} \cup (IF "capture" \in Faults THEN {{"style"}, Option} ELSE {}) :
             Capture(a, unread)
  <2>1. PICK a \in Actor, unread \in SUBSET Option : Capture(a, unread)
    BY <1>6 DEF Option
  <2>. QED BY <2>1, CaptureDraws
<1>7. CASE Crash
  BY <1>7, CrashDraws
<1>8. CASE Restart \/ UNCHANGED vars
  <2>1. UNCHANGED <<isolated, look, prior, job, users, disturbed, view>>
    BY <1>8 DEF Restart, vars
  <2>. QED BY <2>1 DEF LooksInv, StatesInPlace, IntrudersDisturb, Shares, CapturedIsUsers, At,
                       CaptureComesFirst, DaemonResets, CliResets, RenderHeads, OneStateShown, ShownStates
<1>. QED BY <1>1, <1>2, <1>3, <1>4, <1>5, <1>6, <1>7, <1>8 DEF Next

LEMMA LooksInvariant == Spec => [](RenderersInv /\ LooksInv)
BY InitHolds, InitialLooks, NextKeeps, NextDraws, PTL DEF Spec

\* A pane that the daemon has reset, or has never drawn on, looks as its user
\* left it but for blanks around a text, whatever was rendered in between, unless
\* something disturbed it.
THEOREM LooksAreRestored == Spec => []LookIsRestored
<1>1. RenderersInv /\ LooksInv => LookIsRestored
  <2> SUFFICES ASSUME LooksInv, NEW d \in Pane \ disturbed, prior[d] = NoLook,
                      job["daemon"] # NoJob => job["daemon"].target # d
               PROVE  \A o \in TmuxOption : effective(look[d][o]) \in Restored(users[d][o])
    BY DEF LookIsRestored
  <2>1. Same(look[d], users[d])
    BY DEF LooksInv, CapturedIsUsers, At
  <2>. QED BY <2>1 DEF Same
<1>. QED BY <1>1, LooksInvariant, PTL

\* At rest an undisturbed device shows the state last rendered on it and no
\* other, whatever states were drawn before.
THEOREM OneStateAtATime == Spec => []OneStateShown
BY LooksInvariant, PTL DEF LooksInv

\* A reset that ran to its end, with nobody else drawing meanwhile, leaves
\* nothing of any state behind.
THEOREM ResetsClear == Spec => []ResetClears
<1>1. RenderersInv /\ LooksInv => ResetClears
  <2> SUFFICES ASSUME RenderersInv, LooksInv, NEW a \in Actor, job[a] # NoJob,
                      job[a].kind = "reset", job[a].todo = <<>>, job[a].ok, job[a].alone,
                      a = "daemon" => job[a].target \in Tty \/ job[a].target \notin disturbed
               PROVE  ShownStates(job[a].target) = {}
    BY DEF ResetClears
  <2> DEFINE d == job[a].target
  <2>1. d \in Device
    BY DEF RenderersInv, TypeOK, Job
  <2>2. SUFFICES \A o \in OwnOptions(d) : look[d][o] \notin AgentState
    BY <2>1 DEF LooksInv, StatesInPlace, ShownStates
  <2>3. CASE a = "cli"
    <3>1. d \in Pane /\ \A o \in TmuxOption : Heading(look[d][o], <<>>, o, Stateless)
      BY <2>3 DEF LooksInv, CliResets, IntrudersDisturb
    <3>. QED BY <3>1, HeadingDone DEF Stateless, OwnOptions
  <2>4. CASE a = "daemon" /\ d \in Tty
    <3>1. \A o \in OwnOptions(d) : Heading(look[d][o], <<>>, o, Stateless)
      BY <2>4 DEF LooksInv, DaemonResets
    <3>. QED BY <3>1, HeadingDone DEF Stateless
  <2>5. CASE a = "daemon" /\ d \notin Tty
    <3>1. d \in Pane \ disturbed
      BY <2>1, <2>5 DEF Device
    <3>2. \A o \in TmuxOption : Heading(look[d][o], <<>>, o, AsFound(users[d][o]))
      BY <2>5, <3>1 DEF LooksInv, DaemonResets
    <3>3. \A o \in TmuxOption : look[d][o] \in AsFound(users[d][o]) /\ users[d][o] \in UsersValue
      BY <2>1, <3>2, HeadingDone DEF LooksInv, StatesInPlace, TmuxOption, Option
    <3>4. \A o \in TmuxOption : effective(look[d][o]) \notin AgentState
      BY <3>3, UsersAreStateless DEF AsFound
    <3>. QED BY <3>1, <3>4 DEF OwnOptions, effective, AgentState
  <2>. QED BY <2>3, <2>4, <2>5 DEF Actor
<1>. QED BY <1>1, LooksInvariant, PTL

-----------------------------------------------------------------------------
(* What an earlier failure left behind is drawn over: the daemon's render      *)
(* heads for its state wherever it starts from.                                *)

ForItsState(l, j) ==
    Drawable(j.state, j.label) =>
        /\ \A o \in OwnOptions(j.target) : Heading(l[o], j.todo, o, Showing(j.state))
        /\ j.state # "Idle" => Heading(l[Mark(j.target)], j.todo, Mark(j.target), {j.state})

\* LooksInv says as much of an undisturbed device only.
Healing ==
    LET j == job["daemon"]
        k == job["cli"] IN
    j # NoJob /\ j.kind = "render" /\ j.ok /\ j.alone =>
        /\ k # NoJob => ~Shares(k.target, j.target)
        /\ ForItsState(look[j.target], j)

\* The daemon's render does not move, and nobody draws over it.
LEMMA HealingWaits ==
    ASSUME Healing, isolated' = isolated, job'["daemon"] = job["daemon"],
           job'["cli"] # NoJob => job["cli"] # NoJob /\ job'["cli"].target = job["cli"].target,
           /\ job["daemon"] # NoJob
           /\ job["cli"] # NoJob => ~Shares(job["cli"].target, job["daemon"].target)
           => look'[job["daemon"].target] = look[job["daemon"].target]
    PROVE  Healing'
BY DEF Healing, Shares

\* It runs its next command, which may draw on the device.
LEMMA HealingAdvances ==
    ASSUME RenderersInv, Healing, isolated' = isolated, Turn("daemon"), Advance("daemon"),
           \A o \in Option : look'[job["daemon"].target][o] =
               IF Current("daemon").option = o THEN Current("daemon").value
               ELSE look[job["daemon"].target][o]
    PROVE  Healing'
<1> DEFINE j == job["daemon"]
           j1 == job'["daemon"]
           d == j.target
<1>1. "daemon" \in Actor /\ "cli" \in Actor \ {"daemon"}
  BY DEF Actor
<1>2. /\ j # NoJob /\ Further(j, j1) /\ j1.ok = j.ok
      /\ j.todo \in Seq(Command) /\ j1.todo = Tail(j.todo) /\ j.todo # <<>>
      /\ Current("daemon") = Head(j.todo) /\ job'["cli"] = job["cli"]
  BY <1>1, AdvancedJobs DEF Turn, Current
<1> HIDE DEF j, j1, d
<1>3. \A o, G : o \in Option /\ Heading(look[d][o], j.todo, o, G) => Heading(look'[d][o], j1.todo, o, G)
  BY <1>2, HeadingKept DEF j, d
<1>4. OwnOptions(d) \subseteq Option /\ Mark(d) \in Option
  BY DEF TmuxOption, Option, OwnOptions, Mark
<1>5. j1.target = d /\ j1.state = j.state /\ j1.label = j.label
      /\ j1.kind = j.kind /\ j1.alone = j.alone
  BY <1>2 DEF Further, d
<1>6. ForItsState(look[d], j) => ForItsState(look'[d], j1)
  BY <1>3, <1>4, <1>5 DEF ForItsState, d
<1>. QED BY <1>2, <1>5, <1>6 DEF Healing, Shares, j, j1, d

LEMMA EngineRenderHeals ==
    ASSUME RenderersInv, NEW d \in Device, NEW v \in Views, EngineRender(d, v[1], v[2])
    PROVE  Healing'
<1> DEFINE todo == render_all(d, v[1], v[2])
           j == job'["daemon"]
           k == job["cli"]
           l == job'["cli"]
<1>1. v[1] \in AgentState /\ v[2] \in Label
  BY RenderersAssumption
<1>2. Begin("daemon", "render", d, v[1], v[2], todo) /\ todo \in Seq(Command)
  BY <1>1, RenderLeft DEF EngineRender
<1>3. /\ Drawable(v[1], v[2]) => \A o \in OwnOptions(d) :
            Left(todo, o) # {} /\ Left(todo, o) \subseteq Showing(v[1])
      /\ Drawable(v[1], v[2]) /\ v[1] # "Idle" => Left(todo, Mark(d)) = {v[1]}
  BY <1>1, RenderLeft
<1>4. look' = look /\ isolated' = isolated
  BY DEF EngineRender
<1> HIDE DEF todo
<1>5. /\ j # NoJob /\ j.target = d /\ j.state = v[1] /\ j.label = v[2] /\ j.todo = todo
      /\ k = NoJob => l = NoJob
      /\ k # NoJob => l.target = k.target /\ (j.alone => ~Shares(k.target, d))
  BY <1>1, <1>2, BegunJobs DEF Actor, Unchanged
<1> HIDE DEF j, k, l
<1>6. ForItsState(look[d], j)
  BY <1>3, <1>5 DEF ForItsState, Heading
<1>. QED BY <1>4, <1>5, <1>6 DEF Healing, Shares, j, l

\* A command of the CLI that starts on the same device ends the promise.
LEMMA CliHeals ==
    ASSUME RenderersInv, Healing, NEW d \in Device, NEW kind \in {"render", "reset"},
           NEW st \in AgentState, NEW todo \in Seq(Command), Begin("cli", kind, d, st, "plain", todo),
           UNCHANGED <<isolated, look>>
    PROVE  Healing'
<1> DEFINE j == job["daemon"]
           j1 == job'["daemon"]
           k1 == job'["cli"]
<1>1. "plain" \in Label
  BY DEF Label
<1>2. /\ k1.target = d /\ (j = NoJob => j1 = NoJob)
      /\ j # NoJob => Unchanged(j, j1) /\ (j1.alone => ~Shares(j.target, d))
  BY <1>1, BegunJobs DEF Actor
<1> HIDE DEF j, j1, k1
<1>3. j # NoJob /\ ForItsState(look[j.target], j) => ForItsState(look[j1.target], j1)
  BY <1>2 DEF Unchanged, ForItsState
<1>. QED BY <1>2, <1>3, Sharing DEF Healing, Unchanged, Shares, j, j1, k1

LEMMA DrawHeals ==
    ASSUME RenderersInv, LooksInv, Healing, NEW a \in Actor, Draw(a)
    PROVE  Healing'
<1>1. /\ Turn(a) /\ Advance(a) /\ isolated' = isolated
      /\ look' = Drawn(job[a].target, Current(a)) /\ Current(a).option \in Option
  BY DEF Draw
<1>2. job[a].target \in Device /\ job[a] # NoJob
  BY <1>1, InvParts, TurnHas DEF Turn
<1>3. CASE a = "cli"
  <2>1. job'["daemon"] = job["daemon"] /\ job'["cli"].target = job["cli"].target
    BY <1>1, <1>3, AdvancedJobs DEF Actor, Further
  <2>2. job["daemon"] # NoJob => job["daemon"].target \in Device
    BY DEF RenderersInv, TypeOK, Job, Actor
  <2>. QED BY <1>1, <1>2, <1>3, <2>1, <2>2, HealingWaits DEF Drawn
<1>4. CASE a = "daemon"
  <2>1. look[job[a].target] \in [Option -> Value]
    BY <1>2 DEF RenderersInv, TypeOK, Look
  <2>2. Shares(job[a].target, job[a].target)
    BY DEF Shares
  <2>3. look'[job[a].target] = [look[job[a].target] EXCEPT ![Current(a).option] = Current(a).value]
    BY <1>1, <1>2, <2>2 DEF Drawn
  <2>. QED BY <1>1, <1>4, <2>1, <2>3, HealingAdvances
<1>. QED BY <1>3, <1>4 DEF Actor

\* A capture and a notification draw nothing.
LEMMA QuietHeals ==
    ASSUME RenderersInv, Healing, NEW a \in Actor, Turn(a), Advance(a),
           Current(a).option \notin Option, UNCHANGED <<isolated, look>>
    PROVE  Healing'
<1>1. CASE a = "cli"
  <2>1. job'["daemon"] = job["daemon"] /\ job'["cli"].target = job["cli"].target
    BY <1>1, AdvancedJobs DEF Actor, Further
  <2>. QED BY <1>1, <2>1, HealingWaits DEF Turn
<1>2. CASE a = "daemon"
  BY <1>2, HealingAdvances
<1>. QED BY <1>1, <1>2 DEF Actor

\* A failure of its own ends the promise, one of the CLI's is elsewhere.
LEMMA FailHeals ==
    ASSUME RenderersInv, Healing, NEW a \in Actor, Fail(a)
    PROVE  Healing'
<1>1. /\ job[a] \in Job /\ job \in [Actor -> Job \cup {NoJob}] /\ UNCHANGED <<isolated, look>>
      /\ job[a] # NoJob
  BY DEF Fail, Turn, RenderersInv, TypeOK
<1>2. PICK todo : job' = [job EXCEPT ![a].todo = todo, ![a].ok = FALSE]
  BY DEF Fail
<1>3. /\ job'[a].ok = FALSE /\ job'[a].target = job[a].target
      /\ \A b \in Actor \ {a} : job'[b] = job[b]
  BY <1>1, <1>2 DEF Job
<1>4. CASE a = "cli"
  <2>1. job'["daemon"] = job["daemon"]
    BY <1>3, <1>4 DEF Actor
  <2>. QED BY <1>1, <1>3, <1>4, <2>1, HealingWaits
<1>5. CASE a = "daemon"
  BY <1>3, <1>5 DEF Healing
<1>. QED BY <1>4, <1>5 DEF Actor

LEMMA FinishHeals ==
    ASSUME RenderersInv, Healing, NEW a \in Actor, Finish(a)
    PROVE  Healing'
<1>1. /\ UNCHANGED <<isolated, look>> /\ job'[a] = NoJob
      /\ \A b \in Actor \ {a} : job'[b] = job[b]
  BY DEF Finish, RenderersInv, TypeOK
<1>2. CASE a = "cli"
  <2>1. job'["daemon"] = job["daemon"]
    BY <1>1, <1>2 DEF Actor
  <2>. QED BY <1>1, <1>2, <2>1, HealingWaits
<1>3. CASE a = "daemon"
  BY <1>1, <1>3 DEF Healing
<1>. QED BY <1>2, <1>3 DEF Actor

LEMMA NextHeals == RenderersInv /\ LooksInv /\ Healing /\ [Next]_vars => Healing'
<1> SUFFICES ASSUME RenderersInv, LooksInv, Healing, [Next]_vars PROVE Healing'
  OBVIOUS
<1>1. CASE \E d \in Device, v \in Views : EngineRender(d, v[1], v[2])
  BY <1>1, EngineRenderHeals
<1>2. ASSUME NEW d \in Device, EngineReset(d) PROVE Healing'
  <2>1. "Idle" \in AgentState /\ "plain" \in Label
    BY DEF AgentState, Label
  <2>2. Begin("daemon", "reset", d, "Idle", "plain", reset_all(d)) /\ reset_all(d) \in Seq(Command)
    BY <1>2, ResetAllLeft DEF EngineReset, RenderersInv
  <2>3. job'["daemon"].kind = "reset"
    BY <2>1, <2>2, BegunJobs DEF Actor
  <2>. QED BY <2>3 DEF Healing
<1>3. ASSUME NEW d \in Device, NEW v \in Views, CliEvent(d, v[1]) PROVE Healing'
  <2> DEFINE todo == IF up THEN prototype_run(v[1]) ELSE standalone_render(v[1])
  <2>1. v[1] \in AgentState /\ d \in Pane
    BY <1>3, RenderersAssumption DEF CliEvent
  <2>2. todo \in Seq(Command)
    BY <2>1, CliFits, FittingAreCommands
  <2>3. Begin("cli", "render", d, v[1], "plain", todo) /\ UNCHANGED <<isolated, look>>
    BY <1>3 DEF CliEvent
  <2> HIDE DEF todo
  <2>. QED BY <2>1, <2>2, <2>3, CliHeals
<1>4. ASSUME NEW d \in Device, CliReset(d) PROVE Healing'
  <2>1. "Idle" \in AgentState /\ tmux_reset(NoLook) \in Seq(Command)
    BY ResetLeft DEF AgentState
  <2>. QED BY <1>4, <2>1, CliHeals DEF CliReset
<1>5. CASE \E a \in Actor : Draw(a) \/ Fail(a) \/ Finish(a)
  BY <1>5, DrawHeals, FailHeals, FinishHeals
<1>6. ASSUME NEW a \in Actor, Notify(a) PROVE Healing'
  BY <1>6, QuietHeals DEF Notify, Option
<1>7. CASE \E a \in Actor,
               unread \in {{}} \cup (IF "capture" \in Faults THEN {{"style"}, Option} ELSE {}) :
             Capture(a, unread)
  BY <1>7, QuietHeals DEF Capture, Option
<1>8. CASE Crash
  <2>1. job'["daemon"] = NoJob
    BY <1>8 DEF Crash, RenderersInv, TypeOK, Actor
  <2>. QED BY <2>1 DEF Healing
<1>9. CASE Restart \/ UNCHANGED vars
  <2>1. UNCHANGED <<isolated, look, job>>
    BY <1>9 DEF Restart, vars
  <2>. QED BY <2>1 DEF Healing, ForItsState, Shares
<1>. QED BY <1>1, <1>2, <1>3, <1>4, <1>5, <1>6, <1>7, <1>8, <1>9 DEF Next

\* The daemon's next render makes good what failed before it: run to its end
\* with nobody else drawing, it leaves the device showing its state and no
\* other, whatever an earlier job, a crash or the CLI left there.
THEOREM FailuresHeal == Spec => []NextRenderHeals
<1>1. Init => Healing
  BY DEF Init, Healing, Actor
<1>2. RenderersInv /\ LooksInv /\ Healing => NextRenderHeals
  <2> DEFINE j == job["daemon"]
             d == j.target
  <2> SUFFICES ASSUME RenderersInv, LooksInv, Healing, j # NoJob, j.kind = "render",
                      j.todo = <<>>, j.ok, j.alone, Drawable(j.state, j.label)
               PROVE  ShownStates(d) = {j.state} \ {"Idle"}
    BY DEF NextRenderHeals, Drawable
  <2>1. d \in Device /\ j.state \in AgentState
    BY DEF RenderersInv, TypeOK, Job, Actor
  <2> HIDE DEF d
  <2>2. /\ \A o \in OwnOptions(d) : Heading(look[d][o], <<>>, o, Showing(j.state))
        /\ j.state # "Idle" => Heading(look[d][Mark(d)], <<>>, Mark(d), {j.state})
    BY DEF Healing, ForItsState, d
  <2>3. /\ \A o \in OwnOptions(d) : look[d][o] \in Showing(j.state)
        /\ j.state # "Idle" => look[d][Mark(d)] = j.state
    BY <2>2, HeadingDone
  <2>. QED BY <2>1, <2>3, ShowsOneState DEF LooksInv
<1>. QED BY <1>1, <1>2, NextHeals, LooksInvariant, PTL DEF Spec
=============================================================================
