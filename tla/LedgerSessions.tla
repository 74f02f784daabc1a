--------------------------- MODULE LedgerSessions ---------------------------
(***************************************************************************)
(* The ledger operations of several database sessions on one conversation, *)
(* under READ COMMITTED.                                                   *)
(*                                                                         *)
(* update_phase, suspend_active, resume_task, drop_suspended_task,         *)
(* complete_task and resolve_switch lock the row before they read it, so   *)
(* each is one action of ControlLedger.  begin_task, the sweep, the        *)
(* summary sync, clear_pending_question and update_plan_task_status read   *)
(* the committed row without a lock; their first write takes the lock, and *)
(* what they read may be gone by then.  Such an operation is a Read        *)
(* followed by a write that uses both what it saw and the row as it is.    *)
(*                                                                         *)
(* Two things may stand between an unlocked read and another session: the  *)
(* expected_version clause of begin_task, and the turn claim.  The claim   *)
(* covers what a turn does after it has claimed, so neither the sweep,     *)
(* which hydration runs before it, nor an answer or a plan report, which   *)
(* no code ties to a turn.                                                 *)
(***************************************************************************)
EXTENDS ControlLedger

CONSTANTS
  Sessions,        \* database sessions
  Laws,            \* the ways a host runs its sessions
  PlanTasks,       \* the tasks of the orchestrator's plan
  NoLedger         \* a session that is not in an operation

Unlocked == {"begin", "summary", "prune", "question", "plan"}
UnderClaim == {"begin", "summary"}

\* A host passes expected_version to begin_task or not, claims its turns or not, and
\* runs some of the unlocked operations.
Law == [fenced : BOOLEAN, claimed : BOOLEAN, splits : SUBSET Unlocked]

ASSUME SessionAssumption == Laws \subseteq Law

VARIABLES
  law,        \* how this host runs its sessions; it never changes
  doing,      \* per session, the unlocked operation it is in, or "none"
  seen,       \* per session, the ledger its operation read, or NoLedger
  seenPlan,   \* per session, the plan its operation read
  plan,       \* the tasks of the plan whose stored status is "done"
  reported    \* the tasks whose status a caller has set to "done"

sessionVars == <<ledger, clock, collided, law, doing, seen, seenPlan, plan, reported>>

Idle(s) == doing[s] = "none"

\* The claim is taken: a session is between the read and the write of a turn's operation.
InTurn(s) == law.claimed /\ doing[s] \in UnderClaim

-----------------------------------------------------------------------------
(* The unlocked read and the writes that follow it                         *)

\* get_control_state, a plain SELECT.  clear_pending_question returns here when there
\* is no question.
Read(s) ==
  /\ Idle(s)
  /\ \E op \in law.splits :
       /\ law.claimed /\ op \in UnderClaim => \A r \in Sessions : ~InTurn(r)
       /\ op = "question" => ledger.question
       /\ doing' = [doing EXCEPT ![s] = op]
       /\ seenPlan' = [seenPlan EXCEPT ![s] = IF op = "plan" THEN plan ELSE {}]
  /\ seen' = [seen EXCEPT ![s] = ledger]
  /\ UNCHANGED <<ledger, clock, collided, law, plan, reported>>

\* Its operation is over: the session commits or rolls back.
Finished(s) ==
  /\ doing' = [doing EXCEPT ![s] = "none"]
  /\ seen' = [seen EXCEPT ![s] = NoLedger]
  /\ seenPlan' = [seenPlan EXCEPT ![s] = {}]

\* Defect of FenceHolds: the UPDATE has no expected_version clause.
FenceNeverFails(s) == TRUE

\* The UPDATE's expected_version clause, evaluated on the row as it is.  A caller
\* whose version is older than what begin_task read fails the clause too.
FenceHolds(s) == law.fenced => ledger.rev = seen[s].rev

\* begin_task with a fresh command id decides identity, payload and displacement by
\* what it saw, and replaces the active task there is.
BeginOver(saw, l, now, b, cmd) ==
  LET task == [BegunTask([saw EXCEPT !.minted = l.minted], now, b) EXCEPT !.started = now]
      event == Event("task_began", cmd, task.id, b.agent, b.kind)
  IN AppendEvent([l EXCEPT !.active = task,
                      !.agentType = b.agent,
                      !.rev = @ + 1,
                      !.minted = IF SameLogicalTask(saw.active, b) THEN @ ELSE @ + 1],
            [event EXCEPT !.other = Superseded(saw, b)])

BeginSplit(s) ==
  /\ doing[s] = "begin"
  /\ \E b \in BeginArgs :
       \/ /\ FenceHolds(s)
          /\ Commit("begin_task", BeginOver(seen[s], ledger, clock, b, NoCmd))
       \/ ~FenceHolds(s) /\ WritesNothing
  /\ UNCHANGED <<plan, reported>>

\* Defect of StaleSwitchDropped: the new revision is counted from the one it saw.
StaleSwitchDroppedAtSeenRevision(saw, l, now) ==
  IF HasSwitch(saw) /\ Old(saw.pending.at, now, SwitchTtl)
  THEN [l EXCEPT !.pending = NoSwitch, !.rev = saw.rev + 1] ELSE l

\* The sweep clears the switch there is if the one it saw is stale.
StaleSwitchDropped(saw, l, now) ==
  IF HasSwitch(saw) /\ Old(saw.pending.at, now, SwitchTtl)
  THEN [l EXCEPT !.pending = NoSwitch, !.rev = @ + 1] ELSE l

\* prune_stale_ledger_state: the deduplicated list, the stale switch and the stale
\* task are those it saw; expire_stale_suspended_tasks and complete_task lock and
\* read again.
PruneOver(saw, l, now) ==
  LET kept == {t \in saw.suspended : ~Redundant(saw.active, t)}
      deduped == IF kept = saw.suspended THEN l
                 ELSE [l EXCEPT !.suspended = kept, !.rev = @ + 1]
      swept == ExpireSuspended(StaleSwitchDropped(saw, deduped, now), now)
      stale == HasActive(saw) /\ Old(saw.active.started, now, TaskHorizon)
  IN IF stale /\ ~CompleteRefused(swept, saw.active.agent)
     THEN Complete(swept, saw.active.agent, "task_expired", NoTaskId, NoCmd)
     ELSE swept

PruneSplit(s) ==
  /\ doing[s] = "prune"
  /\ Commit("prune_stale_ledger_state", PruneOver(seen[s], ledger, clock))
  /\ UNCHANGED <<plan, reported>>

SummarySplit(s) ==
  /\ doing[s] = "summary"
  /\ \E agent \in SummaryAgents :
       LET effective == IF HasActive(seen[s]) THEN seen[s].active.agent ELSE agent
       IN Commit("sync_agent_type_summary", [ledger EXCEPT !.agentType = effective])
  /\ UNCHANGED <<plan, reported>>

\* clear_pending_question clears whatever question is there now, if one still is.
QuestionSplit(s) ==
  /\ doing[s] = "question"
  /\ Commit("clear_pending_question", [ledger EXCEPT !.question = FALSE, !.rev = @ + 1])
  /\ UNCHANGED <<plan, reported>>

\* update_plan_task_status writes back the plan it read, with one task patched.
PlanSplit(s) ==
  /\ doing[s] = "plan"
  /\ \E p \in PlanTasks :
       /\ plan' = seenPlan[s] \cup {p}
       /\ reported' = reported \cup {p}
  /\ Commit("none", [ledger EXCEPT !.rev = @ + 1])

Write(s) ==
  /\ ~Idle(s)
  /\ BeginSplit(s) \/ PruneSplit(s) \/ SummarySplit(s) \/ QuestionSplit(s) \/ PlanSplit(s)
  /\ Finished(s)
  /\ UNCHANGED law

-----------------------------------------------------------------------------
(* The operations that lock before they read                               *)

\* They belong to turns: under the claim no other turn is between a read and a write.
LockedOperation ==
  /\ \A s \in Sessions : ~InTurn(s)
  /\ \/ UpdatePhase \/ SuspendActive \/ ResumeTask \/ DropSuspendedTask
     \/ CompleteTask \/ ProposeSwitch \/ ResolveSwitch \/ SetPendingQuestion
  /\ UNCHANGED <<law, doing, seen, seenPlan, plan, reported>>

TimePasses == Tick /\ UNCHANGED <<law, doing, seen, seenPlan, plan, reported>>

SessionInit ==
  /\ Init
  /\ law \in Laws
  /\ doing = [s \in Sessions |-> "none"]
  /\ seen = [s \in Sessions |-> NoLedger]
  /\ seenPlan = [s \in Sessions |-> {}]
  /\ plan = {} /\ reported = {}

SessionNext ==
  \/ \E s \in Sessions : Read(s) \/ Write(s)
  \/ LockedOperation
  \/ TimePasses

SessionSpec == SessionInit /\ [][SessionNext]_sessionVars

-----------------------------------------------------------------------------
(* Properties                                                              *)

\* What a host has to do: claim its turns, or fence its begins and leave the summary
\* alone; and not sweep while another session writes.
KeepsApart(l) ==
  /\ l.claimed \/ (l.fenced /\ "summary" \notin l.splits)
  /\ "prune" \notin l.splits

\* What the operations keep one at a time they keep across the sessions of such a host:
\* a task has one home, and the summary column names the owner.
SessionsKeepLedger == KeepsApart(law) => OneHomePerTask /\ SummaryMatchesOwner

\* begin_task: a live task that a begin displaces is named by the begin's row, although
\* the begin read the ledger before it had the lock and sweeps run in between.
BeginNamesWhatItDisplaces ==
  [][\A e \in ledger'.journal \ ledger.journal :
       /\ e.type = "task_began"
       /\ ledger.active.id \notin {NoTaskId, ledger'.active.id}
       => e.other = ledger.active.id]_sessionVars

-----------------------------------------------------------------------------
(* What the documentation says of the operations and the code does not do  *)

\* prune_stale_ledger_state, "Expired says we stopped waiting, which is what
\* happened": the sweep ends a task only when that task is past the horizon.  Tasks
\* that update_phase made have no id, and a row cannot tell one of them from another.
ExpiredWasStale ==
  [][\A e \in ledger'.journal \ ledger.journal :
       e.type = "task_expired" /\ e.task = ledger.active.id /\ e.task # NoTaskId
       => Old(ledger.active.started, clock, TaskHorizon)]_sessionVars

\* update_plan_task_status, "full plan rewrite under lock": a task reported done is
\* done in the stored plan.
ReportedIsStored == reported \subseteq plan
=============================================================================
