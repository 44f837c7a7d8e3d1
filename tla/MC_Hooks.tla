------------------------------- MODULE MC_Hooks -------------------------------
(* Settings with a hook and other settings of the user's; two commands at once; *)
(* a session through the lifetimes of its states.                               *)
EXTENDS HookPath

TheSettings == [hooks |-> [h \in HookType |-> [none EXCEPT !["theirs"] = 1]], extra |-> TRUE]
TheConfig == [theme |-> "default", mine |-> TRUE, comments |-> TRUE]
TheCommands ==
    {<<>>, <<[level |-> "Critical", piped |-> FALSE]>>,
     <<[level |-> "Medium", piped |-> TRUE], [level |-> "Critical", piped |-> FALSE]>>}
TheMessages == {{"permission"}, {}}
FewInstants == {0, 1800, 14400, 14460}
=============================================================================
