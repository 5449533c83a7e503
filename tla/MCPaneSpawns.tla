--------------------------- MODULE MCPaneSpawns ---------------------------
(***************************************************************************)
(* PaneSpawns in a session of one tab and one shell.                       *)
(***************************************************************************)
EXTENDS PaneSpawns

CONSTANTS work, logs, build, fish, cargo

MCPanes == [plugin : {FALSE}, n : 0 .. 4]
Shell0 == [plugin |-> FALSE, n |-> 0]
MCCommandOf == [p \in MCPanes |-> NoCommand]   \* not used: see `made`
MCFirstTitle == [p \in MCPanes |-> Untitled]
MCStarts == {[name |-> work, pane |-> Shell0, title |-> Untitled, client |-> 1]}

Asked(where, tab, title, command, default) ==
  [where |-> where, tab |-> tab, title |-> title, command |-> command, default |-> default]

MCSpawnRequests ==
  {Asked("new_tab", logs, "any", fish, TRUE),
   Asked("new_tab", logs, "any", cargo, FALSE),
   Asked("existing_tab", logs, "any", fish, TRUE),
   Asked("existing_tab", logs, "any", cargo, FALSE),
   Asked("existing_tab", work, "any", fish, TRUE),
   Asked("existing_tab", work, build, cargo, FALSE),
   Asked("existing_tab", "any", build, cargo, FALSE)}

Host(ssh, prints, initial) == [ssh |-> ssh, prints |-> prints, initial |-> initial]

MCHosts == {Host(FALSE, TRUE, TRUE), Host(FALSE, FALSE, TRUE), Host(FALSE, FALSE, FALSE),
            Host(TRUE, FALSE, TRUE), Host(TRUE, FALSE, FALSE)}

=============================================================================
