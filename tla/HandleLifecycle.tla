-------------------------- MODULE HandleLifecycle --------------------------
(***************************************************************************)
(* What the registry of zellij_mcp promises its callers about handles,     *)
(* without files, copies or adapters: an entry has a status and at most    *)
(* one pane for its whole life, is closed only when that pane is gone, and *)
(* a handle is allocated once.  TerminalService implements this            *)
(* specification when calls run one at a time.                             *)
(***************************************************************************)
CONSTANTS Handles, Panes, NoPane

VARIABLES
  entry,   \* the status and the pane of each handle
  spent,   \* handles whose spawn or attach is over: never provisioned again
  dead     \* panes that are gone for good

lifecycleVars == <<entry, spent, dead>>

Active == {"busy", "ready"}
Open == Active \union {"stale"}

Entry(status, p) == [status |-> status, pane |-> p]

LifecycleInit ==
  /\ entry = [h \in Handles |-> Entry("absent", NoPane)]
  /\ spent = {}
  /\ dead = {}

PaneDies(p) ==
  /\ p \in Panes \ dead
  /\ dead' = dead \union {p}
  /\ UNCHANGED <<entry, spent>>

\* A spawn or attach writes the entry of a new handle.
Provision(h, p) ==
  /\ h \notin spent
  /\ entry[h].status = "absent"
  /\ entry' = [entry EXCEPT ![h] = Entry("busy", p)]
  /\ UNCHANGED <<spent, dead>>

\* The caller has its answer, or never gets one.
Conclude(hs) ==
  /\ spent' = spent \union hs
  /\ UNCHANGED <<entry, dead>>

\* Revalidation, a capture or a wait revises what is known of the pane, and
\* may bind an unresolved spawn to its pane.
Judge(h, status, p) ==
  /\ entry[h].status \in Open
  /\ entry[h].pane \in {p, NoPane}
  /\ entry' = [entry EXCEPT ![h] = Entry(status, p)]
  /\ UNCHANGED <<spent, dead>>

\* close, once the pane is known to be gone.
Retire(h) ==
  /\ entry[h].status \in Open
  /\ entry[h].pane \in dead \union {NoPane}
  /\ entry' = [entry EXCEPT ![h].status = "closed"]
  /\ UNCHANGED <<spent, dead>>

\* A line sent to a closed attached handle finds no pane and calls it stale.
Misjudge(h) ==
  /\ entry[h].status = "closed"
  /\ entry' = [entry EXCEPT ![h].status = "stale"]
  /\ UNCHANGED <<spent, dead>>

\* cleanup, or a spawn that failed after it had provisioned its handle.
Forget(hs) ==
  /\ entry' = [h \in Handles |-> IF h \in hs THEN Entry("absent", NoPane) ELSE entry[h]]
  /\ UNCHANGED <<spent, dead>>

LifecycleNext ==
  \/ \E p \in Panes : PaneDies(p)
  \/ \E hs \in SUBSET Handles : Conclude(hs) \/ Forget(hs)
  \/ \E h \in Handles :
       \/ \E p \in Panes \union {NoPane} :
            Provision(h, p) \/ \E status \in Open : Judge(h, status, p)
       \/ Retire(h) \/ Misjudge(h)

LifecycleSpec == LifecycleInit /\ [][LifecycleNext]_lifecycleVars

====
