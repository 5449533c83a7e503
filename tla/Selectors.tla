----------------------------- MODULE Selectors -----------------------------
(***************************************************************************)
(* The languages in which a caller names a pane, each read by its own      *)
(* matcher:                                                                *)
(*   - the plugin's (zjctl-proto, selector.rs), which a send, a focus, a   *)
(*     rename and a resize go through;                                     *)
(*   - the adapter's (client.rs, matches_selector), which an attach, a     *)
(*     revalidation, a capture, a wait and a close go through;             *)
(*   - the service's (terminal.rs, discover_matches_selector), which       *)
(*     discover, takeover and a send by location go through.               *)
(* The last two are copies of one language.  It agrees with the plugin's   *)
(* on a pane's id and differs on most of the rest.                         *)
(*                                                                         *)
(* A selector is the record of what was written, not a string: `form` is   *)
(* its prefix, `pane` the pane it names, `exact` the texts (titles,        *)
(* commands or tab names) the case-sensitive substring matches, `folded`   *)
(* the ones the plugin's pattern matches (a substring whatever the case,   *)
(* or a /regex/), `tab` and `index` the place tab:N:index:M names.         *)
(* An entry is one line of a listing: [pane, tab, name, title, focused].   *)
(***************************************************************************)
EXTENDS Naturals, FiniteSets

CONSTANTS
  Panes,      \* the panes a session may have: records [plugin, n]
  Titles,     \* titles a pane may have
  TabNames,   \* names a tab may have
  CommandOf   \* the command each pane was launched with, or NoCommand

NoCommand == "no_command"

ASSUME PanesAreIds == Panes \subseteq [plugin : BOOLEAN, n : Nat]

Terminals == {p \in Panes : ~p.plugin}

Forms == {"focused", "focused:true", "focused:false", "unfocused", "id", "typed",
          "bare", "title", "cmd", "command", "tab", "tab:index", "word"}

(* Selectors with the fields their form reads. *)
Written(form) == [form |-> form]
ById(p) == [form |-> "id", pane |-> p]               \* id:terminal:N, id:plugin:N
ByType(p) == [form |-> "typed", pane |-> p]          \* terminal:N, plugin:N
ByBareId(n) == [form |-> "bare", n |-> n]            \* id:N, without the type
ByText(form, exact, folded) == [form |-> form, exact |-> exact, folded |-> folded]
ByPlace(t, i) == [form |-> "tab:index", tab |-> t, index |-> i]

(***************************************************************************)
(* The plugin: PaneSelector::from_str either reads the selector or refuses *)
(* it before any pane is looked at.  `id:` needs the pane's type, `tab:`   *)
(* the place of the pane, and `command:`, `focused:true` and `unfocused`   *)
(* are unknown.                                                            *)
(***************************************************************************)
PluginReads(s) == s.form \in {"focused", "id", "typed", "title", "cmd", "tab:index"}

\* Mutant: the type of an id is not looked at.
PluginMatchesNumber(s, e) ==
  CASE s.form \in {"id", "typed"} -> e.pane.n = s.pane.n
    [] s.form = "title" -> e.title \in s.folded
    [] s.form = "cmd" -> CommandOf[e.pane] \in s.folded
    [] OTHER -> FALSE

(* resolve_selector over a table of panes, for the forms that look at one   *)
(* pane at a time; StringPattern::matches, whose failure matches nothing.   *)
PluginMatches(s, e) ==
  CASE s.form \in {"id", "typed"} -> e.pane = s.pane
    [] s.form = "title" -> e.title \in s.folded
    [] s.form = "cmd" -> CommandOf[e.pane] \in s.folded
    [] OTHER -> FALSE

(* The order of the plugin's sort_by_key: terminals before plugins, then   *)
(* by number.                                                              *)
Before(p, q) == \/ ~p.plugin /\ q.plugin
                \/ p.plugin = q.plugin /\ p.n < q.n

Rank(S, p) == Cardinality({q \in S : Before(q, p)})

(***************************************************************************)
(* The adapter and the service.  Both read any text; what they do not know *)
(* matches nothing.  A listing names every pane id:<type>:<n>, so the test *)
(* selector = target.selector is the one by id.                            *)
(***************************************************************************)
AdapterMatches(s, e) ==
  CASE s.form \in {"focused", "focused:true"} -> e.focused
    [] s.form \in {"unfocused", "focused:false"} -> ~e.focused
    [] s.form \in {"id", "typed"} -> e.pane = s.pane
    [] s.form = "title" -> e.title \in s.exact
    [] s.form = "command" -> CommandOf[e.pane] \in s.exact
    [] s.form = "tab" -> e.name \in s.exact
    [] OTHER -> FALSE

DiscoverMatches(s, e) ==
  \/ s.form \in {"id", "typed"} /\ e.pane = s.pane
  \/ s.form \in {"focused", "focused:true"} /\ e.focused
  \/ s.form \in {"unfocused", "focused:false"} /\ ~e.focused
  \/ s.form = "title" /\ e.title \in s.exact
  \/ s.form = "command" /\ CommandOf[e.pane] \in s.exact
  \/ s.form = "tab" /\ e.name \in s.exact

(* selector_to_action_pane_id: whether the selector can be given to         *)
(* `zellij action --pane-id`.  An `id:` without a type can.                 *)
NamesActionPane(s) == s.form \in {"id", "typed", "bare"}

(***************************************************************************)
(* resolve_from_candidates: the tab filter, then the selector, and the     *)
(* only entry left.                                                        *)
(***************************************************************************)
InTab(listing, tab) == {e \in listing : tab = "any" \/ e.name = tab}

Candidates(listing, tab, s) == {e \in InTab(listing, tab) : AdapterMatches(s, e)}

Unique(S) == IF Cardinality(S) = 1 THEN S ELSE {}

(***************************************************************************)
(* resolve_unique_location_target: as above in the service's language,     *)
(* except that without a selector the only terminal among several matches  *)
(* is taken.  An intent is [tab, selector, command, focused]; a part that  *)
(* was not given is "any".                                                 *)
(***************************************************************************)
MatchesIntent(i, e) ==
  /\ i.tab = "any" \/ e.name = i.tab
  /\ i.focused = "any" \/ e.focused = (i.focused = "yes")
  /\ i.selector.form = "any" \/ DiscoverMatches(i.selector, e)
  /\ i.commands = {} \/ CommandOf[e.pane] \in i.commands

\* Mutant: any match will do.
LocationFirst(listing, i) == {e \in listing : MatchesIntent(i, e)}

LocationTarget(listing, i) ==
  LET matches == {e \in listing : MatchesIntent(i, e)}
      terminals == {e \in matches : ~e.pane.plugin}
  IN IF i.selector.form = "any" /\ Cardinality(matches) > 1 /\ Cardinality(terminals) = 1
     THEN terminals
     ELSE Unique(matches)

=============================================================================
