-------------------------- MODULE MCZjctlAdapter --------------------------
(***************************************************************************)
(* ZjctlAdapter with a terminal and a plugin pane in one tab and two calls.*)
(***************************************************************************)
EXTENDS ZjctlAdapter, TLC

CONSTANTS vim, editor, work

Shell0 == [plugin |-> FALSE, n |-> 0]
Bar == [plugin |-> TRUE, n |-> 0]

MCPanes == {Shell0, Bar}
MCCommandOf == [p \in MCPanes |-> IF p.plugin THEN NoCommand ELSE vim]
MCFirstTitle == [p \in MCPanes |-> editor]
MCStarts == {[name |-> work, pane |-> Shell0, title |-> editor, client |-> 1]}

(* Panes of their own, and a binding that was never reconciled.            *)
MCSelectors == {ById(Shell0), ById(Bar), Written("focused")}

(* The terminal of a tab, which the bar does not make ambiguous, and a     *)
(* title that both have.                                                   *)
Place(selector) == [tab |-> work, focused |-> "any", selector |-> selector, commands |-> {}]
MCIntents == {Place(Written("any")), Place(ByText("title", {editor}, {editor}))}

Symmetry == Permutations(Workers)

=============================================================================
