---------------------------- MODULE MC_Renderers ----------------------------
(* Two panes of one tmux window and a terminal of iTerm2; a theme that gives  *)
(* Idle no colour; quiet hours over midnight that end between two instants,   *)
(* two of which are within a debounce and two just not.                       *)
EXTENDS PaneRenderers, TLC

FewViews == {<<"Idle", "plain">>, <<"Working", "plain">>, <<"Attention", "plain">>, <<"Risk", "shell">>}
TheTheme == [st \in AgentState |->
                IF st = "Idle" THEN {"label", "symbol"} ELSE Representation]
FewInstants == {25196, 25200, 25206, 25210}
Symmetry == Permutations(Pane)
=============================================================================
