--------------------------- MODULE MCZrpcPlugin ---------------------------
(***************************************************************************)
(* ZrpcPlugin on a small session: two terminals and a plugin pane, two     *)
(* tabs, two clients; one request of every method and of every way a       *)
(* request can be refused.                                                 *)
(***************************************************************************)
EXTENDS ZrpcPlugin

CONSTANTS vim, top, editor, shell, work, logs

Shell0 == [plugin |-> FALSE, n |-> 0]
Shell1 == [plugin |-> FALSE, n |-> 1]
Plugin0 == [plugin |-> TRUE, n |-> 0]

MCPanes == {Shell0, Shell1, Plugin0}
MCTitles == {editor, shell}
MCTabNames == {work, logs}
MCCommandOf == [p \in MCPanes |-> IF p.plugin THEN NoCommand ELSE IF p.n = 0 THEN vim ELSE top]

MCFirstTitle == [p \in MCPanes |-> IF p.plugin THEN shell ELSE editor]

(* Titles and names are interchangeable; the first client is not the one   *)
(* that loads the plugin.                                                  *)
MCStarts == {[name |-> work, pane |-> Shell0, title |-> editor, client |-> 2]}

Request(method, s) ==
  [name |-> "zjctl-rpc", source |-> "cli", body |-> "request", method |-> method,
   selector |-> s, missing |-> FALSE, all |-> FALSE, shape |-> TRUE, title |-> shell]

Editors == ByText("title", {editor}, {editor})
Anything == ByText("title", {editor, shell}, {editor, shell})

MCRequests ==
  {Request("panes.list", Written("word")),
   Request("pane.send", Written("focused")),
   Request("pane.send", ById(Shell1)),
   Request("pane.send", Editors),
   [Request("pane.send", Anything) EXCEPT !.all = TRUE],
   Request("pane.send", ByText("command", {vim}, {vim})),
   [Request("pane.send", ByType(Shell0)) EXCEPT !.missing = TRUE],
   Request("pane.send", ByPlace(1, 0)),
   Request("pane.focus", ByType(Shell0)),
   Request("pane.rename", Written("focused")),
   Request("pane.resize", ById(Shell0)),
   [Request("pane.resize", ById(Shell0)) EXCEPT !.shape = FALSE],
   Request("pane.close", Written("focused")),
   [Request("panes.list", Written("word")) EXCEPT !.body = "empty"],
   [Request("panes.list", Written("word")) EXCEPT !.name = "other"]}

=============================================================================
