--------------------------- MODULE ControlLedger ---------------------------
(***************************************************************************)
(* The control ledger of one conversation: the control keys stored in      *)
(* conversations.context (active_task, suspended_tasks, pending_switch,    *)
(* pending_question, _control_revision), the agent_type summary column and *)
(* the rows of conversation_control_events.                                *)
(*                                                                         *)
(* One action is one public operation of ledger.py run in a transaction of *)
(* its own.  An operation is written as an operator from the ledger it     *)
(* finds to the ledger it leaves, because the compound operations (accept, *)
(* handoff, prune) call the simple ones one after the other.  A            *)
(* transaction whose journal insert violates a unique key of the journal   *)
(* table is rolled back.                                                   *)
(***************************************************************************)
EXTENDS Integers, FiniteSets

CONSTANTS
  Agents, Bot0, NoAgent,     \* agent ids; the front door; "no agent"
  Kinds, NoKind,             \* task kinds; a task without a kind
  KindOwner,                 \* KindSpec.owner_agent, NoAgent if unregistered
  AgentKind,                 \* kind an agent's handoff begins
  DraftingKind, SeedKinds,   \* "drafting"; kinds carrying the user's description
  AuthoringAgents,           \* workflow_builder and workflow_editor
  Refs, NoRef,               \* pending_ref values; absent pending_ref
  RefObject,                 \* the part of a ref after its first colon
  RefConv,                   \* the part of a ref after its last colon
  HandoffRef,                \* the ref "handoff:<agent>:<conversation>"
  Cmds, NoCmd,               \* command ids a caller reuses; a freshly minted one
  BeginArgs, PhaseArgs,      \* what callers pass to begin_task and update_phase
  Proposals,                 \* the pairs <<from, to>> of proposed switches
  HandoffTargets,            \* the agents callers hand off to
  Questions,                 \* do callers ask disambiguation questions?
  SuspendReasons,            \* why callers suspend: for a drafting detour, or not
  EndReasons, Enders,        \* the end events asked for, and the agents that ask
  SummaryAgents,             \* the agent_type summaries callers ask to write
  StaleTaskIds,              \* do callers complete with ids of earlier tasks?
  TaskHorizon, SwitchTtl,    \* control_suspended_task_ttl, pending_switch_ttl
  MaxRevision, MaxClock      \* bounds of the model

Payloads == {"empty", "plain", "seed"}       \* "seed": it holds an intake_seed
GivenPayloads == Payloads \cup {"absent"}    \* "absent": the caller passes None

EndEvents == {"task_completed", "task_abandoned", "task_failed",
              "task_expired", "task_superseded"}

CallArg == [agent   : Agents,
            kind    : Kinds \cup {NoKind},
            ref     : Refs \cup {NoRef},
            payload : GivenPayloads]

ASSUME AgentAssumption ==
  /\ Bot0 \in Agents /\ NoAgent \notin Agents /\ AuthoringAgents \subseteq Agents

ASSUME KindAssumption ==
  /\ NoKind \notin Kinds /\ SeedKinds \subseteq Kinds /\ DraftingKind \in Kinds
  /\ KindOwner \in [Kinds -> Agents \cup {NoAgent}]
  /\ AgentKind \in [Agents -> Kinds]

ASSUME RefAssumption ==
  /\ NoRef \notin Refs
  /\ DOMAIN RefObject = Refs /\ DOMAIN RefConv = Refs
  /\ HandoffRef \in [Agents -> Refs]

ASSUME CallAssumption ==
  /\ NoCmd \notin Cmds
  /\ BeginArgs \subseteq CallArg /\ PhaseArgs \subseteq CallArg
  /\ EndReasons \subseteq EndEvents /\ Enders \subseteq Agents
  /\ SuspendReasons \subseteq {"detour", "other"} /\ StaleTaskIds \in BOOLEAN
  /\ SummaryAgents \subseteq Agents
  /\ Proposals \subseteq Agents \X Agents
  /\ HandoffTargets \subseteq Agents /\ Questions \in BOOLEAN

ASSUME BoundAssumption ==
  /\ TaskHorizon \in Nat /\ SwitchTtl \in Nat
  /\ MaxRevision \in Nat /\ MaxClock \in Nat

VARIABLES
  ledger,    \* the conversation row and its journal rows
  clock,     \* wall-clock time, in units of the bounds TaskHorizon and SwitchTtl
  collided   \* the operation whose rows the journal's keys just refused, or "none"

vars == <<ledger, clock, collided>>

-----------------------------------------------------------------------------
(* Tasks, switches and journal rows                                        *)

Undated == -1      \* a task without started_at
NoTaskId == 0      \* a task without task_id; minted ids are 1, 2, ...

Task == [id      : Nat,
         agent   : Agents \cup {NoAgent},
         kind    : Kinds \cup {NoKind},
         ref     : Refs \cup {NoRef},
         payload : Payloads,
         started : Nat \cup {Undated}]

NoTask == [id |-> NoTaskId, agent |-> NoAgent, kind |-> NoKind, ref |-> NoRef,
           payload |-> "empty", started |-> Undated]

\* An entry of suspended_tasks: a task that some agent owned.  "pos" is the revision
\* that wrote it: entries are appended, so the order of the list is the order of their
\* positions.
Parked == [task : {t \in Task : t.agent # NoAgent}, parkedAt : Nat,
           why : {"detour", "other"}, pos : Nat]

Switch == [from : Agents \cup {NoAgent}, to : Agents \cup {NoAgent}, at : Nat]
NoSwitch == [from |-> NoAgent, to |-> NoAgent, at |-> 0]

TaskEvents == EndEvents \cup {"task_began", "task_suspended"}
EventTypes == TaskEvents \cup {"switch_proposed", "switch_accepted", "switch_declined"}

\* "other" is superseded_task_id on task_began and suspended_task_id on
\* switch_accepted; "began" is begin_target on switch_accepted.
JournalRow == [seq   : Nat,
               type  : EventTypes,
               cmd   : Cmds \cup {NoCmd},
               task  : Nat,
               agent : Agents \cup {NoAgent},
               kind  : Kinds \cup {NoKind},
               from  : Agents \cup {NoAgent},
               to    : Agents \cup {NoAgent},
               began : BOOLEAN,
               other : Nat]

Event(type, cmd, id, agent, kind) ==
  [seq |-> 0, type |-> type, cmd |-> cmd, task |-> id, agent |-> agent, kind |-> kind,
   from |-> NoAgent, to |-> NoAgent, began |-> FALSE, other |-> NoTaskId]

Ledger == [active    : Task,
           agentType : Agents \cup {NoAgent},
           suspended : SUBSET Parked,
           pending   : Switch,
           question  : BOOLEAN,
           rev       : Nat,
           minted    : Nat,
           journal   : SUBSET JournalRow]

EmptyLedger(summary) ==
  [active |-> NoTask, agentType |-> summary, suspended |-> {}, pending |-> NoSwitch,
   question |-> FALSE, rev |-> 0, minted |-> 0, journal |-> {}]

HasActive(l) == l.active.agent # NoAgent
HasSwitch(l) == l.pending.to # NoAgent

\* append_control_event: the row's seq is the revision after the write.
AppendEvent(l, e) == [l EXCEPT !.journal = @ \cup {[e EXCEPT !.seq = l.rev]}]

\* uq_cce_tenant_conv_seq and the unique (tenant, conversation, command_id).
JournalKeysUnique(J) ==
  \A e, f \in J : e # f => /\ e.seq # f.seq
                           /\ e.cmd = f.cmd => e.cmd = NoCmd

\* find_event_by_command_id: the rows a retried command finds.
Prior(l, cmd) == {e \in l.journal : cmd # NoCmd /\ e.cmd = cmd}

-----------------------------------------------------------------------------
(* begin_task and update_phase                                             *)

\* Re-beginning the same logical task keeps its identity: same agent, same
\* kind, and a ref that names the same object or is absent on either side.
SameLogicalTask(prev, b) ==
  /\ prev.id # NoTaskId
  /\ prev.agent = b.agent
  /\ prev.kind = b.kind
  /\ \/ b.ref = NoRef
     \/ prev.ref = NoRef
     \/ RefObject[prev.ref] = RefObject[b.ref]

\* Defect of Sanitized: an absent payload is stored as it came.
SanitizedAsGiven(kind, payload) == payload

\* sanitize_control_payload: an intake_seed survives only on the drafting stream.
Sanitized(kind, payload) ==
  CASE payload = "absent" -> "empty"
    [] payload = "seed" /\ kind \notin SeedKinds -> "empty"
    [] OTHER -> payload

StrandedSeed(l) ==
  \E t \in l.suspended : t.task.kind \in SeedKinds /\ t.task.payload = "seed"

\* Defect of BegunPayload: a parked description is not looked up.
BegunPayloadOfCaller(l, b) ==
  Sanitized(b.kind, IF b.payload = "absent" /\ l.active.kind = b.kind
                    THEN l.active.payload ELSE b.payload)

BegunPayload(l, b) ==
  LET carried == IF /\ b.payload = "absent"
                    /\ l.active.agent = b.agent
                    /\ l.active.kind = b.kind
                 THEN l.active.payload
                 ELSE b.payload
  IN IF b.kind \in SeedKinds /\ StrandedSeed(l) THEN "seed" ELSE Sanitized(b.kind, carried)

BegunTask(l, now, b) ==
  [id      |-> IF SameLogicalTask(l.active, b) THEN l.active.id ELSE l.minted + 1,
   agent   |-> b.agent,
   kind    |-> b.kind,
   ref     |-> b.ref,
   payload |-> BegunPayload(l, b),
   started |-> now]

\* Defect of Superseded: the begin row does not name the task it displaces.
SupersededUnnamed(l, b) == NoTaskId

Superseded(l, b) ==
  IF SameLogicalTask(l.active, b) THEN NoTaskId ELSE l.active.id

Begin(l, now, b, cmd) ==
  LET task == BegunTask(l, now, b)
      event == Event("task_began", cmd, task.id, b.agent, b.kind)
  IN AppendEvent([l EXCEPT !.active = task,
                      !.agentType = b.agent,
                      !.rev = @ + 1,
                      !.minted = IF SameLogicalTask(l.active, b) THEN @ ELSE @ + 1],
            [event EXCEPT !.other = Superseded(l, b)])

BeginIsReplay(l, cmd) ==
  \E e \in Prior(l, cmd) :
    e.type = "task_began" /\ HasActive(l) /\ l.active.id = e.task

\* A mismatched agent replaces the task by {"agent": agent}: no id, no date.
Phase(l, b) ==
  LET base == IF l.active.agent = b.agent THEN l.active
              ELSE [NoTask EXCEPT !.agent = b.agent]
      kind == IF b.kind = NoKind THEN base.kind ELSE b.kind
  IN [l EXCEPT !.active = [base EXCEPT
                 !.kind = kind,
                 !.ref = IF b.ref = NoRef THEN @ ELSE b.ref,
                 !.payload = IF b.payload = "absent" THEN @ ELSE Sanitized(kind, b.payload)],
               !.agentType = b.agent,
               !.rev = @ + 1]

-----------------------------------------------------------------------------
(* suspend_active, resume_task, drop_suspended_task                        *)

\* Defect of SamePausedWork: one paused task per ref, two per kind.
SamePausedRef(active, t) == active.ref # NoRef /\ t.task.ref = active.ref

\* The dedupe rule of suspend_active: the same ref, the same agent when neither
\* has a ref, or the same kind.
SamePausedWork(active, t) ==
  \/ active.ref # NoRef /\ t.task.ref = active.ref
  \/ active.ref = NoRef /\ t.task.ref = NoRef /\ t.task.agent = active.agent
  \/ active.kind # NoKind /\ t.task.kind = active.kind

Park(l, now, why) ==
  [task |-> l.active, parkedAt |-> now, why |-> why, pos |-> l.rev + 1]

\* Defect of Suspend: the displacement is a telemetry line, not a row.
SuspendUnjournaled(l, now, why) ==
  IF ~HasActive(l) THEN l
  ELSE [l EXCEPT !.suspended = {t \in @ : ~SamePausedWork(l.active, t)}
                                 \cup {Park(l, now, why)},
                 !.active = NoTask, !.agentType = Bot0, !.rev = @ + 2]

Suspend(l, now, why) ==
  IF ~HasActive(l) THEN l
  ELSE AppendEvent([l EXCEPT !.suspended = {t \in @ : ~SamePausedWork(l.active, t)}
                                        \cup {Park(l, now, why)},
                        !.active = NoTask,
                        !.agentType = Bot0,
                        !.rev = @ + 2],
              Event("task_suspended", NoCmd, l.active.id, l.active.agent, l.active.kind))

\* The first entry of the list among those that match.
First(S) == {t \in S : \A u \in S : t.pos <= u.pos}

ResumeMatches(l, id, agent) ==
  {t \in l.suspended : IF id # NoTaskId THEN t.task.id = id ELSE t.task.agent = agent}

\* Defect of Resume: the resumed entry stays in the list.
ResumeKeepsEntry(l, t) ==
  [l EXCEPT !.active = t.task, !.agentType = t.task.agent, !.rev = @ + 2]

Resume(l, t) ==
  [l EXCEPT !.active = t.task,
            !.suspended = @ \ {t},
            !.agentType = t.task.agent,
            !.rev = @ + 2]

DropMatches(l, ref, agent) ==
  {t \in l.suspended : IF ref # NoRef THEN t.task.ref = ref ELSE t.task.agent = agent}

\* Defect of Drop: the list is rewritten without a new revision.
DropSameRevision(l, t) == [l EXCEPT !.suspended = @ \ {t}]

Drop(l, t) == [l EXCEPT !.suspended = @ \ {t}, !.rev = @ + 1]

-----------------------------------------------------------------------------
(* complete_task                                                           *)

\* Defect of CompleteRefused: the registry is never consulted.
CompleteNeverRefused(l, caller) == FALSE

\* KindSpec owns who may complete: the owner of the kind, or the front door.
CompleteRefused(l, caller) ==
  /\ l.active.kind # NoKind
  /\ KindOwner[l.active.kind] # NoAgent
  /\ caller \notin {KindOwner[l.active.kind], Bot0}

CompleteIsReplay(l, cmd) == \E e \in Prior(l, cmd) : e.type \in TaskEvents

\* Defect of Complete: with nothing to clear there is no write, but still a row.
CompleteSkipsEmptyClear(l, caller, type, id, cmd) ==
  AppendEvent(IF ~HasActive(l) THEN l
         ELSE [l EXCEPT !.active = NoTask, !.pending = NoSwitch, !.agentType = Bot0,
                        !.rev = @ + 1],
         Event(type, cmd, IF id # NoTaskId THEN id ELSE l.active.id, caller, l.active.kind))

\* The row names the task id the caller passed, else the active task's.
Complete(l, caller, type, id, cmd) ==
  AppendEvent([l EXCEPT !.active = NoTask,
                   !.pending = NoSwitch,
                   !.agentType = Bot0,
                   !.rev = @ + 1],
         Event(type, cmd, IF id # NoTaskId THEN id ELSE l.active.id, caller, l.active.kind))

-----------------------------------------------------------------------------
(* propose_switch, resolve_switch, accept_switch and handoff               *)

Propose(l, now, from, to, cmd) ==
  LET event == Event("switch_proposed", cmd, NoTaskId, from, NoKind)
  IN AppendEvent([l EXCEPT !.pending = [from |-> from, to |-> to, at |-> now], !.rev = @ + 1],
            [event EXCEPT !.from = from, !.to = to])

ResolveIsReplay(l, cmd) ==
  \E e \in Prior(l, cmd) : e.type \in {"switch_accepted", "switch_declined"}

\* Defect of Resolve: the resolved switch stays pending.
ResolveKeepsSwitch(l, now, accepted, begins, b, cmd) ==
  LET parked == IF accepted THEN Suspend(l, now, "other") ELSE l
      event == Event(IF accepted THEN "switch_accepted" ELSE "switch_declined", cmd,
                     l.active.id, l.pending.to, NoKind)
  IN AppendEvent([parked EXCEPT !.rev = @ + 1],
            [event EXCEPT !.from = l.pending.from, !.to = l.pending.to])

\* accept_switch begins the target's task, as b says, inside the compound: the
\* nested begin_task and the compound's own row are written at one revision.
Resolve(l, now, accepted, begins, b, cmd) ==
  LET parked == IF accepted THEN Suspend(l, now, "other") ELSE l
      cleared == [parked EXCEPT !.pending = NoSwitch,
                                !.rev = @ + 1,
                                !.agentType = IF accepted THEN l.pending.to ELSE @]
      begun == IF begins
               THEN Begin(cleared, now, [b EXCEPT !.agent = l.pending.to], NoCmd)
               ELSE cleared
      suspendedId == IF accepted THEN l.active.id ELSE NoTaskId
      event == Event(IF accepted THEN "switch_accepted" ELSE "switch_declined", cmd,
                     IF begins THEN begun.active.id ELSE suspendedId,
                     l.pending.to, IF begins THEN b.kind ELSE NoKind)
  IN AppendEvent(begun, [event EXCEPT !.from = l.pending.from, !.to = l.pending.to,
                                 !.began = begins, !.other = suspendedId])

HandoffArg(target, ref) ==
  [agent |-> target, kind |-> AgentKind[target], ref |-> ref, payload |-> "empty"]

\* handoff with a pending switch in the caller's context.
HandoffAccept(l, now, target) ==
  Resolve(l, now, TRUE, target # Bot0, HandoffArg(target, HandoffRef[target]), NoCmd)

\* handoff without one: suspend a foreign task, accept whatever switch is
\* still pending, begin the target.
HandoffTransfer(l, now, target, current) ==
  LET parked == IF current \notin {target, Bot0} THEN Suspend(l, now, "other") ELSE l
      resolved == IF HasSwitch(parked) THEN Resolve(parked, now, TRUE, FALSE, HandoffArg(target, NoRef), NoCmd)
                  ELSE parked
  IN IF target = Bot0 THEN resolved
     ELSE Begin(resolved, now, HandoffArg(target, NoRef), NoCmd)

-----------------------------------------------------------------------------
(* prune_stale_ledger_state                                                *)

Old(stamp, now, ttl) == stamp # Undated /\ now - stamp > ttl

\* While an authoring agent owns the thread: paused authoring work of the same
\* conversation and drafts parked by a detour are dropped.
Redundant(active, t) ==
  /\ active.agent \in AuthoringAgents
  /\ active.ref # NoRef
  /\ \/ /\ t.task.ref # NoRef
        /\ RefConv[t.task.ref] = RefConv[active.ref]
        /\ t.task.agent \in AuthoringAgents
     \/ t.why = "detour" /\ t.task.kind = DraftingKind

DropRedundant(l) ==
  LET kept == {t \in l.suspended : ~Redundant(l.active, t)}
  IN IF kept = l.suspended THEN l ELSE [l EXCEPT !.suspended = kept, !.rev = @ + 1]

DropStaleSwitch(l, now) ==
  IF HasSwitch(l) /\ Old(l.pending.at, now, SwitchTtl)
  THEN [l EXCEPT !.pending = NoSwitch, !.rev = @ + 1] ELSE l

\* Defects of ExpireSuspended: the rows are written and the entries stay; one
\* sweep expires only the oldest entry.
ExpireKeepsEntries(l, now) ==
  LET stale == {t \in l.suspended : Old(t.parkedAt, now, TaskHorizon)}
      turn(t) == Cardinality({u \in stale : u.pos <= t.pos})
      row(t) == [Event("task_expired", NoCmd, t.task.id, t.task.agent, t.task.kind)
                   EXCEPT !.seq = l.rev + turn(t)]
  IN [l EXCEPT !.rev = @ + Cardinality(stale), !.journal = @ \cup {row(t) : t \in stale}]

ExpireOldestOnly(l, now) ==
  LET stale == First({t \in l.suspended : Old(t.parkedAt, now, TaskHorizon)})
      row(t) == [Event("task_expired", NoCmd, t.task.id, t.task.agent, t.task.kind)
                   EXCEPT !.seq = l.rev + 1]
  IN [l EXCEPT !.suspended = @ \ stale,
               !.rev = @ + Cardinality(stale),
               !.journal = @ \cup {row(t) : t \in stale}]

\* expire_stale_suspended_tasks: oldest entry first, one row per revision.
ExpireSuspended(l, now) ==
  LET stale == {t \in l.suspended : Old(t.parkedAt, now, TaskHorizon)}
      turn(t) == Cardinality({u \in stale : u.pos <= t.pos})
      row(t) == [Event("task_expired", NoCmd, t.task.id, t.task.agent, t.task.kind)
                   EXCEPT !.seq = l.rev + turn(t)]
  IN [l EXCEPT !.suspended = @ \ stale,
               !.rev = @ + Cardinality(stale),
               !.journal = @ \cup {row(t) : t \in stale}]

\* The active task expires through complete_task, called as its own agent.
ExpireActive(l, now) ==
  IF /\ HasActive(l)
     /\ Old(l.active.started, now, TaskHorizon)
     /\ ~CompleteRefused(l, l.active.agent)
  THEN Complete(l, l.active.agent, "task_expired", NoTaskId, NoCmd)
  ELSE l

Prune(l, now) ==
  ExpireActive(ExpireSuspended(DropStaleSwitch(DropRedundant(l), now), now), now)

-----------------------------------------------------------------------------
(* Actions: one per public operation                                       *)

Ops == {"none", "begin_task", "update_phase", "suspend_active", "resume_task",
        "drop_suspended_task", "complete_task", "propose_switch", "resolve_switch",
        "accept_switch", "handoff", "set_pending_question", "clear_pending_question",
        "sync_agent_type_summary", "prune_stale_ledger_state",
        "decide_turn", "admit_at_dispatch"}

\* The transaction commits unless a unique key of the journal refuses a row.
Commit(op, new) ==
  /\ new.rev <= MaxRevision
  /\ IF JournalKeysUnique(new.journal)
     THEN ledger' = new /\ collided' = "none"
     ELSE ledger' = ledger /\ collided' = op
  /\ UNCHANGED clock

\* The operation returns early and writes nothing.
WritesNothing == collided' = "none" /\ UNCHANGED <<ledger, clock>>

BeginTask ==
  \E b \in BeginArgs, cmd \in Cmds \cup {NoCmd} :
    \/ BeginIsReplay(ledger, cmd) /\ WritesNothing
    \/ /\ ~BeginIsReplay(ledger, cmd)
       /\ Commit("begin_task", Begin(ledger, clock, b, cmd))

UpdatePhase ==
  \E b \in PhaseArgs : Commit("update_phase", Phase(ledger, b))

SuspendActive ==
  \/ ~HasActive(ledger) /\ WritesNothing
  \/ /\ HasActive(ledger)
     /\ \E why \in SuspendReasons :
          Commit("suspend_active", Suspend(ledger, clock, why))

ResumeTask ==
  \E id \in 0 .. ledger.minted, agent \in Agents :
    LET found == ResumeMatches(ledger, id, agent)
    IN \/ found = {} /\ WritesNothing
       \/ \E t \in First(found) : Commit("resume_task", Resume(ledger, t))

DropSuspendedTask ==
  \E ref \in Refs \cup {NoRef}, agent \in Agents :
    LET found == DropMatches(ledger, ref, agent)
    IN \/ found = {} /\ WritesNothing
       \/ \E t \in First(found) : Commit("drop_suspended_task", Drop(ledger, t))

\* finish_active_task passes the id of the caller's context snapshot, which may
\* name an earlier task.
CallerTaskIds == IF StaleTaskIds THEN 0 .. ledger.minted ELSE {NoTaskId, ledger.active.id}

CompleteTask ==
  \E caller \in Enders, cmd \in Cmds \cup {NoCmd} :
    \/ /\ CompleteIsReplay(ledger, cmd) \/ CompleteRefused(ledger, caller)
       /\ WritesNothing
    \/ /\ ~CompleteIsReplay(ledger, cmd) /\ ~CompleteRefused(ledger, caller)
       /\ \E type \in EndReasons, id \in CallerTaskIds :
            Commit("complete_task", Complete(ledger, caller, type, id, cmd))

\* A switch to the agent already in control is refused.
ProposeSwitch ==
  \E p \in Proposals, cmd \in Cmds \cup {NoCmd} :
    \/ p[1] = p[2] /\ WritesNothing
    \/ /\ p[1] # p[2]
       /\ Commit("propose_switch", Propose(ledger, clock, p[1], p[2], cmd))

ResolveSwitch ==
  \E accepted \in BOOLEAN, cmd \in Cmds \cup {NoCmd} :
    \/ /\ ResolveIsReplay(ledger, cmd) \/ ~HasSwitch(ledger)
       /\ WritesNothing
    \/ /\ ~ResolveIsReplay(ledger, cmd) /\ HasSwitch(ledger)
       /\ Commit("resolve_switch",
                 Resolve(ledger, clock, accepted, FALSE, HandoffArg(Bot0, NoRef), cmd))

AcceptSwitch ==
  \E b \in BeginArgs, cmd \in Cmds \cup {NoCmd} :
    \/ /\ ResolveIsReplay(ledger, cmd) \/ ~HasSwitch(ledger)
       /\ WritesNothing
    \/ /\ ~ResolveIsReplay(ledger, cmd) /\ HasSwitch(ledger)
       /\ Commit("accept_switch", Resolve(ledger, clock, TRUE, TRUE, b, cmd))

\* decide_turn calls handoff without current_agent and pending_switch; chat
\* passes both, from the turn's context, whose switch may be gone by now.
Handoff ==
  \E target \in HandoffTargets :
    \/ Commit("handoff", Begin(ledger, clock, HandoffArg(target, NoRef), NoCmd))
    \/ /\ HasSwitch(ledger)
       /\ Commit("handoff", HandoffAccept(ledger, clock, target))
    \/ /\ ~HasSwitch(ledger)
       /\ WritesNothing
    \/ \E current \in Agents :
         Commit("handoff", HandoffTransfer(ledger, clock, target, current))

SetPendingQuestion ==
  /\ Questions
  /\ Commit("set_pending_question", [ledger EXCEPT !.question = TRUE, !.rev = @ + 1])

ClearPendingQuestion ==
  \/ ~ledger.question /\ WritesNothing
  \/ /\ ledger.question
     /\ Commit("clear_pending_question",
               [ledger EXCEPT !.question = FALSE, !.rev = @ + 1])

\* Defect of SyncAgentTypeSummary: the summary is written as the caller asks.
SyncSummaryAsAsked ==
  \E agent \in SummaryAgents :
    Commit("sync_agent_type_summary", [ledger EXCEPT !.agentType = agent])

\* The summary column only; no control key, so no revision.
SyncAgentTypeSummary ==
  \E agent \in SummaryAgents :
    LET effective == IF HasActive(ledger) THEN ledger.active.agent ELSE agent
    IN Commit("sync_agent_type_summary", [ledger EXCEPT !.agentType = effective])

PruneStaleLedgerState ==
  Commit("prune_stale_ledger_state", Prune(ledger, clock))

\* assert_expected_version raises: the command's fence is not the live revision,
\* and the transaction writes nothing.
StaleCommand == ledger.rev > 0 /\ WritesNothing

Tick ==
  /\ clock < MaxClock
  /\ clock' = clock + 1
  /\ UNCHANGED <<ledger, collided>>

Init ==
  /\ ledger \in {EmptyLedger(NoAgent), EmptyLedger(Bot0)}
  /\ clock = 0
  /\ collided = "none"

Next ==
  \/ BeginTask \/ UpdatePhase
  \/ SuspendActive \/ ResumeTask \/ DropSuspendedTask
  \/ CompleteTask
  \/ ProposeSwitch \/ ResolveSwitch \/ AcceptSwitch \/ Handoff
  \/ SetPendingQuestion \/ ClearPendingQuestion
  \/ SyncAgentTypeSummary \/ PruneStaleLedgerState
  \/ StaleCommand \/ Tick

Spec == Init /\ [][Next]_vars

-----------------------------------------------------------------------------
(* Properties of every state                                               *)

LiveTasks(l) == {l.active} \cup {t.task : t \in l.suspended}
LiveIds(l) == {t.id : t \in LiveTasks(l)} \ {NoTaskId}

\* Every variable has its type.
TypeOK ==
  /\ ledger \in Ledger /\ IsFiniteSet(ledger.suspended)
  /\ clock \in Nat
  /\ collided \in Ops

\* _sync_agent_type_column: while a task is active, the agent_type column that
\* routing reads names that task's agent, whichever operation made it active.
SummaryMatchesOwner == HasActive(ledger) => ledger.agentType = ledger.active.agent

\* append_control_event, version-as-sequence: no row is ahead of the revision,
\* so the rows of the next command take numbers no row has.
RowsBelowRevision == \A e \in ledger.journal : e.seq \in 1 .. ledger.rev

\* begin_task's "one event per revision ... cannot collide": a command with a
\* fresh id never runs into the journal's keys, however the operations are
\* combined, unless it is the accept compound.
OnlyAcceptCollides == Cmds = {} => collided \in {"none", "accept_switch", "handoff"}

\* A task instance is in one place: active, or in one entry of suspended_tasks.
OneHomePerTask ==
  /\ \A t, u \in ledger.suspended : t.task.id = u.task.id /\ t # u => t.task.id = NoTaskId
  /\ ledger.active.id \notin {t.task.id : t \in ledger.suspended} \ {NoTaskId}

\* suspend_active: suspended_tasks holds at most one entry per kind and per ref,
\* whatever was resumed, dropped and suspended again in between.
OnePausedPerStream ==
  \A t, u \in ledger.suspended :
    t # u => /\ t.task.kind = u.task.kind => t.task.kind = NoKind
             /\ t.task.ref = u.task.ref => t.task.ref = NoRef

\* suspend_active, B-240: the journal says of every paused task that it stopped,
\* in the suspension that paused it last.
PausedAreJournaled ==
  \A t \in ledger.suspended :
    \E e \in ledger.journal : /\ e.type = "task_suspended"
                              /\ e.seq = t.pos + 1
                              /\ e.task = t.task.id
                              /\ e.agent = t.task.agent

\* begin_task, complete_task and the expiry sweep: a task the projection still
\* offers to the user began under its present agent, and the journal has not
\* ended it since.
LiveTaskIsOpen ==
  \A t \in LiveTasks(ledger) : t.id # NoTaskId =>
    \E b \in ledger.journal :
      /\ b.type = "task_began" /\ b.task = t.id /\ b.agent = t.agent
      /\ \A e \in ledger.journal : e.type \in EndEvents /\ e.task = t.id => e.seq < b.seq

\* resolve_switch: every accepted switch was proposed, between the same agents,
\* and one proposal is resolved once.
AcceptedWasProposed ==
  \A e \in ledger.journal : e.type = "switch_accepted" =>
    \E p \in ledger.journal :
      /\ p.type = "switch_proposed" /\ p.from = e.from /\ p.to = e.to /\ p.seq < e.seq
      /\ \A f \in ledger.journal :
           f.type \in {"switch_proposed", "switch_accepted", "switch_declined"}
             => f.seq <= p.seq \/ f.seq >= e.seq

\* prune_stale_ledger_state: one sweep leaves nothing for a second sweep at the
\* same time, although each of its four stages changes what the others see.
PruneSettles ==
  LET swept == Prune(ledger, clock)
  IN /\ Prune(swept, clock) = swept
     /\ \A t \in swept.suspended : ~Old(t.parkedAt, clock, TaskHorizon)

-----------------------------------------------------------------------------
(* Properties of every step                                                *)

NewRows == ledger'.journal \ ledger.journal

\* complete_task, "KindSpec owns who may complete": a task of an owned kind is
\* ended only by its kind's owner or the front door, the sweep included.
NoStolenCompletion ==
  [][\A e \in NewRows :
       /\ e.type \in EndEvents
       /\ HasActive(ledger) /\ ~HasActive(ledger')
       /\ ledger.active.kind # NoKind /\ ledger.active.id = e.task
       => \/ KindOwner[ledger.active.kind] = NoAgent
          \/ e.agent \in {KindOwner[ledger.active.kind], Bot0}]_vars

Resumed == ledger'.active \in {t.task : t \in ledger.suspended}
PhaseOfAnotherAgent == HasActive(ledger') /\ ledger'.active.id = NoTaskId

\* begin_task, "displacing a different live task is a supersede, and the begin
\* event has to say so": when the active task leaves the ledger, a row written by
\* the same command names it.  resume_task and update_phase are the exceptions.
LossIsJournaled ==
  [][ /\ ledger.active.id # NoTaskId
      /\ ledger.active.id \notin LiveIds(ledger')
      => \/ \E e \in NewRows : ledger.active.id \in {e.task, e.other}
         \/ Resumed
         \/ PhaseOfAnotherAgent]_vars

Control(l) == <<l.active, l.suspended, l.pending, l.question>>

\* get_control_revision, "bumped by every control-key mutation": a decision issued
\* against a revision is stale as soon as any control key differs.
RevisionCoversControl ==
  [][ /\ Control(ledger') # Control(ledger) => ledger'.rev > ledger.rev
      /\ ledger'.rev >= ledger.rev]_vars

Began == \E e \in NewRows : e.type = "task_began"

\* begin_task, conv_69c6e375: the words a draft on the suspended list holds reach the
\* next task of the drafting stream, whatever payload its caller passes.  A compound
\* may first drop the draft for a later one of its kind: it is the list that the
\* compound leaves that counts.
ParkedSeedIsInherited ==
  [][ /\ Began /\ StrandedSeed(ledger')
      /\ ledger'.active.kind \in SeedKinds
      => ledger'.active.payload = "seed"]_vars

-----------------------------------------------------------------------------
(* What the documentation says of the ledger and the code does not do      *)

\* accept_switch's docstring: one journal row, atomic with the begun task.  The
\* nested begin_task has already taken the revision's sequence number.
AcceptCommits == collided # "accept_switch"

\* prune_stale_ledger_state, "an active task past the same horizon expires".
PruneExpiresActive ==
  LET swept == Prune(ledger, clock)
  IN HasActive(swept) => ~Old(swept.active.started, clock, TaskHorizon)
=============================================================================
