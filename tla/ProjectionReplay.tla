-------------------------- MODULE ProjectionReplay --------------------------
(***************************************************************************)
(* The two reducers that rebuild a control view from the journal, and the  *)
(* comparison of the rebuilt view with the live ledger.  They are read for *)
(* audit and recovery; no operation of the ledger uses them.               *)
(*                                                                         *)
(* A view keeps what projection_equivalence compares: the id, agent and    *)
(* kind of the active task and whether a switch is pending.  The rebuild   *)
(* reads the first 1000 rows of a conversation; the fold here reads all    *)
(* rows, so what is said of it is about journals up to that limit.         *)
(***************************************************************************)
EXTENDS ControlLedger

View == [id : Nat, agent : Agents \cup {NoAgent}, kind : Kinds \cup {NoKind}, switch : BOOLEAN]

EmptyView == [id |-> NoTaskId, agent |-> NoAgent, kind |-> NoKind, switch |-> FALSE]

Owned(v, e, agent) == [v EXCEPT !.id = e.task, !.agent = agent, !.kind = e.kind]

\* Defect of Rebuilt: the end of a task leaves its pending switch.
RebuiltKeepingSwitch(v, e) ==
  CASE e.type = "task_began"      -> Owned(v, e, e.agent)
    [] e.type \in EndEvents       -> [EmptyView EXCEPT !.switch = v.switch]
    [] e.type = "switch_proposed" -> [v EXCEPT !.switch = TRUE]
    [] e.type = "switch_accepted" -> [Owned(v, e, e.to) EXCEPT !.switch = FALSE]
    [] e.type = "switch_declined" -> [v EXCEPT !.switch = FALSE]
    [] OTHER                      -> v

\* rebuild_control_projection, one row.  An accepted switch makes its target active
\* whether or not the row says that a task was begun; a suspension is not known.
Rebuilt(v, e) ==
  CASE e.type = "task_began"      -> Owned(v, e, e.agent)
    [] e.type \in EndEvents       -> EmptyView
    [] e.type = "switch_proposed" -> [v EXCEPT !.switch = TRUE]
    [] e.type = "switch_accepted" -> [Owned(v, e, e.to) EXCEPT !.switch = FALSE]
    [] e.type = "switch_declined" -> [v EXCEPT !.switch = FALSE]
    [] OTHER                      -> v

\* rebuild_projection_hints, one row: a suspension ends the active task, an accepted
\* switch names a task only when none is active; switches are kept as the last one.
Hinted(v, e) ==
  CASE e.type = "task_began"                      -> Owned(v, e, e.agent)
    [] e.type \in EndEvents \cup {"task_suspended"} -> EmptyView
    [] e.type = "switch_accepted" /\ v.agent = NoAgent -> [EmptyView EXCEPT !.agent = e.to]
    [] OTHER                                      -> v

\* The views after the row with number n, if there is one.
Advanced(l, views, n) ==
  LET rows == {e \in l.journal : e.seq = n}
      row == CHOOSE e \in rows : TRUE
  IN IF rows = {} THEN views
     ELSE [control |-> Rebuilt(views.control, row), hints |-> Hinted(views.hints, row)]

\* list_control_events ORDER BY seq: the rows, reduced in the order of their numbers by
\* the one reducer and by the other.
Views(l) ==
  LET upTo[n \in 0 .. l.rev] ==
        IF n = 0 THEN [control |-> EmptyView, hints |-> EmptyView]
        ELSE Advanced(l, upTo[n - 1], n)
  IN upTo

Reduced(l) == Views(l)[l.rev]

\* projection_equivalence, the active task: an absent id or kind matches any.
SameActive(l, v) ==
  /\ HasActive(l) <=> v.agent # NoAgent
  /\ HasActive(l) =>
       /\ v.agent = l.active.agent
       /\ NoTaskId \in {v.id, l.active.id} \/ v.id = l.active.id
       /\ NoKind \in {v.kind, l.active.kind} \/ v.kind = l.active.kind

\* projection_equivalence, the pending switch: both have one, or neither.
Equivalent(l, v) == SameActive(l, v) /\ (HasSwitch(l) <=> v.switch)

-----------------------------------------------------------------------------
(* Properties                                                              *)

\* Every write of the ledger so far has a row, and no switch was accepted.
Gapless(l) ==
  /\ Cardinality(l.journal) = l.rev
  /\ \A e \in l.journal : e.type # "switch_accepted"

\* rebuild_control_projection, "replay equivalence for accepted lifecycle sequences":
\* as long as every write was journaled and no switch accepted, both reducers rebuild
\* the live control state, whatever was begun, displaced, ended, expired, proposed and
\* declined in between.
GaplessReplayAgrees ==
  Gapless(ledger) => /\ Equivalent(ledger, Reduced(ledger).control)
                     /\ SameActive(ledger, Reduced(ledger).hints)
=============================================================================
