------------------------- MODULE ControlLedgerProofs -------------------------
(***************************************************************************)
(* Proofs about ControlLedger for any agents, kinds, refs and bounds.      *)
(*                                                                         *)
(* Every operation is an operator on ledgers, so the invariants are        *)
(* predicates on ledgers that each operator preserves: what is well formed *)
(* first, then where tasks are.                                            *)
(***************************************************************************)
EXTENDS ControlLedger, FiniteSetTheorems, TLAPS

-----------------------------------------------------------------------------
(* Well-formed ledgers                                                     *)

Typed(l) == l \in Ledger /\ IsFiniteSet(l.suspended)

OwnerNamed(l) == HasActive(l) => l.agentType = l.active.agent

RowsBelow(l) == \A e \in l.journal : e.seq \in 1 .. l.rev

Sound(l) == Typed(l) /\ OwnerNamed(l) /\ RowsBelow(l)

LEMMA NoTaskIsTask == NoTask \in Task /\ NoTask.agent = NoAgent
  BY DEF NoTask, Task, NoTaskId, Payloads, Undated

LEMMA NoSwitchIsSwitch == NoSwitch \in Switch
  BY DEF NoSwitch, Switch

LEMMA EventIsRow ==
  ASSUME NEW type \in EventTypes, NEW cmd \in Cmds \cup {NoCmd}, NEW id \in Nat,
         NEW agent \in Agents \cup {NoAgent}, NEW kind \in Kinds \cup {NoKind}
  PROVE  Event(type, cmd, id, agent, kind) \in JournalRow
  BY DEF Event, JournalRow, NoTaskId

\* A write that adds no row.
LEMMA QuietSound ==
  ASSUME NEW l, Sound(l), NEW new \in Ledger, new.journal = l.journal,
         new.rev >= l.rev, IsFiniteSet(new.suspended), OwnerNamed(new)
  PROVE  Sound(new)
<1>1. new.rev \in Nat /\ l.rev \in Nat
  BY DEF Sound, Typed, Ledger
<1>2. RowsBelow(new)
  BY <1>1 DEF Sound, RowsBelow
<1> QED
  BY <1>2 DEF Sound, Typed

\* A write and its row: the row takes the number of the new revision.
LEMMA RowSound ==
  ASSUME NEW l, Sound(l), NEW new \in Ledger, new.journal = l.journal,
         new.rev >= l.rev, new.rev > 0, IsFiniteSet(new.suspended), OwnerNamed(new),
         NEW e \in JournalRow
  PROVE  Sound(AppendEvent(new, e))
<1>1. Sound(new)
  BY QuietSound
<1>2. [e EXCEPT !.seq = new.rev] \in JournalRow /\ [e EXCEPT !.seq = new.rev].seq = new.rev
  BY DEF Ledger, JournalRow
<1>3. new.rev \in Nat /\ new.journal \subseteq JournalRow
  BY DEF Ledger
<1>4. AppendEvent(new, e) \in Ledger
  BY <1>2, <1>3 DEF AppendEvent, Ledger
<1>5. /\ AppendEvent(new, e).suspended = new.suspended /\ AppendEvent(new, e).active = new.active
      /\ AppendEvent(new, e).agentType = new.agentType /\ AppendEvent(new, e).rev = new.rev
      /\ AppendEvent(new, e).journal = new.journal \cup {[e EXCEPT !.seq = new.rev]}
  BY DEF AppendEvent, Ledger
<1>6. Typed(AppendEvent(new, e))
  BY <1>4, <1>5 DEF Typed
<1>7. OwnerNamed(AppendEvent(new, e))
  BY <1>5 DEF OwnerNamed, HasActive
<1>8. RowsBelow(AppendEvent(new, e))
  <2> SUFFICES ASSUME NEW f \in AppendEvent(new, e).journal
               PROVE  f.seq \in 1 .. new.rev
    BY <1>5 DEF RowsBelow
  <2>1. CASE f \in new.journal
    BY <1>1, <2>1 DEF Sound, RowsBelow
  <2>2. CASE f = [e EXCEPT !.seq = new.rev]
    BY <1>2, <1>3, <2>2
  <2> QED
    BY <1>5, <2>1, <2>2
<1> QED
  BY <1>6, <1>7, <1>8 DEF Sound

-----------------------------------------------------------------------------
(* begin_task and update_phase                                             *)

LEMMA BegunTaskIsTask ==
  ASSUME NEW l, Typed(l), NEW now \in Nat, NEW b \in CallArg
  PROVE  BegunTask(l, now, b) \in Task /\ BegunTask(l, now, b).agent = b.agent
<1>1. BegunPayload(l, b) \in Payloads
  BY DEF BegunPayload, Sanitized, Payloads, GivenPayloads, CallArg, Typed, Ledger, Task
<1>2. b.agent \in Agents /\ b.kind \in Kinds \cup {NoKind} /\ b.ref \in Refs \cup {NoRef}
  BY DEF CallArg
<1>3. l.active.id \in Nat /\ l.minted + 1 \in Nat
  BY DEF Typed, Ledger, Task
<1> QED
  BY <1>1, <1>2, <1>3 DEF BegunTask, Task

LEMMA BeginSound ==
  ASSUME NEW l, Sound(l), NEW now \in Nat, NEW b \in CallArg, NEW cmd \in Cmds \cup {NoCmd}
  PROVE  Sound(Begin(l, now, b, cmd))
<1> DEFINE task == BegunTask(l, now, b)
           minted == IF SameLogicalTask(l.active, b) THEN l.minted ELSE l.minted + 1
           new == [l EXCEPT !.active = task, !.agentType = b.agent, !.rev = @ + 1,
                            !.minted = minted]
           row == [Event("task_began", cmd, task.id, b.agent, b.kind)
                     EXCEPT !.other = Superseded(l, b)]
<1>1. task \in Task /\ task.agent = b.agent /\ b.agent \in Agents /\ b.kind \in Kinds \cup {NoKind}
  BY BegunTaskIsTask DEF Sound, CallArg
<1>2. minted \in Nat
  BY DEF Sound, Typed, Ledger
<1>3. row \in JournalRow
  <2>1. Event("task_began", cmd, task.id, b.agent, b.kind) \in JournalRow
    BY <1>1, EventIsRow DEF EventTypes, TaskEvents, Task
  <2>2. Superseded(l, b) \in Nat
    BY DEF Superseded, NoTaskId, Sound, Typed, Ledger, Task
  <2> QED
    BY <2>1, <2>2 DEF JournalRow
<1>4. Begin(l, now, b, cmd) = AppendEvent(new, row)
  BY DEF Begin
<1> HIDE DEF task, minted, row
<1>5. /\ new \in Ledger /\ new.suspended = l.suspended /\ new.journal = l.journal
      /\ new.rev = l.rev + 1 /\ new.active = task /\ new.agentType = b.agent
      /\ l.rev \in Nat
  <2>1. l \in Ledger /\ l.rev \in Nat /\ l.rev + 1 \in Nat
    BY DEF Sound, Typed, Ledger
  <2>2. new \in Ledger
    BY <1>1, <1>2, <2>1 DEF Ledger
  <2> QED
    BY <1>1, <1>2, <2>1, <2>2 DEF Ledger
<1>6. OwnerNamed(new) /\ new.rev >= l.rev /\ new.rev > 0 /\ IsFiniteSet(new.suspended)
  BY <1>1, <1>5 DEF OwnerNamed, Sound, Typed
<1> HIDE DEF new
<1> QED
  BY <1>3, <1>4, <1>5, <1>6, RowSound

LEMMA PhaseSound ==
  ASSUME NEW l, Sound(l), NEW b \in CallArg
  PROVE  Sound(Phase(l, b))
<1> DEFINE base == IF l.active.agent = b.agent THEN l.active
                   ELSE [NoTask EXCEPT !.agent = b.agent]
           kind == IF b.kind = NoKind THEN base.kind ELSE b.kind
           ref == IF b.ref = NoRef THEN base.ref ELSE b.ref
           payload == IF b.payload = "absent" THEN base.payload ELSE Sanitized(kind, b.payload)
           task == [base EXCEPT !.kind = kind, !.ref = ref, !.payload = payload]
           new == [l EXCEPT !.active = task, !.agentType = b.agent, !.rev = @ + 1]
<1>1. Phase(l, b) = new
  BY DEF Phase
<1>2. l \in Ledger /\ l.rev \in Nat /\ l.rev + 1 \in Nat /\ l.active \in Task
  BY DEF Sound, Typed, Ledger
<1>3. /\ b.agent \in Agents /\ b.kind \in Kinds \cup {NoKind} /\ b.ref \in Refs \cup {NoRef}
      /\ b.payload \in GivenPayloads
  BY DEF CallArg
<1>4. base \in Task /\ base.agent = b.agent
  BY <1>2, <1>3, NoTaskIsTask DEF Task
<1>5. kind \in Kinds \cup {NoKind} /\ ref \in Refs \cup {NoRef} /\ payload \in Payloads
  BY <1>3, <1>4 DEF Task, Sanitized, GivenPayloads, Payloads
<1> HIDE DEF base, kind, ref, payload
<1>6. task \in Task /\ task.agent = b.agent
  BY <1>4, <1>5 DEF Task
<1> HIDE DEF task
<1>7. new \in Ledger
  BY <1>2, <1>3, <1>6 DEF Ledger
<1>8. /\ new.journal = l.journal /\ new.rev = l.rev + 1 /\ new.suspended = l.suspended
      /\ new.active = task /\ new.agentType = b.agent
  BY <1>2 DEF Ledger
<1>9. OwnerNamed(new) /\ new.rev >= l.rev /\ IsFiniteSet(new.suspended)
  BY <1>2, <1>6, <1>8 DEF OwnerNamed, Sound, Typed
<1> HIDE DEF new
<1> QED
  BY <1>1, <1>7, <1>8, <1>9, QuietSound

-----------------------------------------------------------------------------
(* suspend_active, resume_task, drop_suspended_task, complete_task         *)

LEMMA SuspendSound ==
  ASSUME NEW l, Sound(l), NEW now \in Nat, NEW why \in {"detour", "other"}
  PROVE  Sound(Suspend(l, now, why)) /\ ~HasActive(Suspend(l, now, why))
<1>1. CASE ~HasActive(l)
  BY <1>1 DEF Suspend
<1>2. CASE HasActive(l)
  <2> DEFINE park == Park(l, now, why)
             kept == {t \in l.suspended : ~SamePausedWork(l.active, t)}
             list == kept \cup {park}
             new == [l EXCEPT !.suspended = list, !.active = NoTask,
                              !.agentType = Bot0, !.rev = @ + 2]
             row == Event("task_suspended", NoCmd, l.active.id, l.active.agent, l.active.kind)
  <2>1. Suspend(l, now, why) = AppendEvent(new, row)
    BY <1>2 DEF Suspend
  <2>2. l \in Ledger /\ l.rev \in Nat /\ l.rev + 2 \in Nat /\ l.active \in Task
    BY DEF Sound, Typed, Ledger
  <2>3. park \in Parked
    BY <1>2, <2>2 DEF Park, Parked, HasActive
  <2>4. kept \subseteq l.suspended /\ l.suspended \subseteq Parked /\ IsFiniteSet(l.suspended)
    BY DEF Sound, Typed, Ledger
  <2>5. IsFiniteSet(list) /\ list \subseteq Parked
    BY <2>3, <2>4, FS_Subset, FS_AddElement
  <2>6. row \in JournalRow
    BY <2>2, EventIsRow DEF Task, EventTypes, TaskEvents
  <2> HIDE DEF park, kept, list, row
  <2>7. new \in Ledger
    BY <2>2, <2>5, NoTaskIsTask, AgentAssumption DEF Ledger
  <2>8. /\ new.journal = l.journal /\ new.rev = l.rev + 2 /\ new.suspended = list
        /\ new.active = NoTask
    BY <2>2 DEF Ledger
  <2>9. /\ OwnerNamed(new) /\ new.rev >= l.rev /\ new.rev > 0 /\ IsFiniteSet(new.suspended)
    BY <2>2, <2>5, <2>8, NoTaskIsTask DEF OwnerNamed, HasActive
  <2>10. AppendEvent(new, row).active = NoTask
    BY <2>7, <2>8 DEF AppendEvent, Ledger
  <2> HIDE DEF new
  <2>11. Sound(AppendEvent(new, row))
    BY <2>6, <2>7, <2>8, <2>9, RowSound
  <2> QED
    BY <2>1, <2>10, <2>11, NoTaskIsTask DEF HasActive
<1> QED
  BY <1>1, <1>2

LEMMA ResumeSound ==
  ASSUME NEW l, Sound(l), NEW t \in l.suspended
  PROVE  Sound(Resume(l, t))
<1> DEFINE new == Resume(l, t)
<1>1. l \in Ledger /\ l.rev \in Nat /\ l.rev + 2 \in Nat /\ t \in Parked /\ t.task \in Task
  BY DEF Sound, Typed, Ledger, Parked
<1>2. t.task.agent \in Agents \cup {NoAgent}
  BY <1>1 DEF Task
<1>3. IsFiniteSet(l.suspended \ {t}) /\ l.suspended \ {t} \subseteq Parked
  BY FS_Subset DEF Sound, Typed, Ledger
<1>4. new \in Ledger
  BY <1>1, <1>2, <1>3 DEF Resume, Ledger
<1>5. /\ new.journal = l.journal /\ new.rev = l.rev + 2 /\ new.suspended = l.suspended \ {t}
      /\ new.active = t.task /\ new.agentType = t.task.agent
  BY <1>1 DEF Resume, Ledger
<1>6. OwnerNamed(new) /\ new.rev >= l.rev /\ IsFiniteSet(new.suspended)
  BY <1>1, <1>3, <1>5 DEF OwnerNamed
<1> QED
  BY <1>4, <1>5, <1>6, QuietSound

LEMMA DropSound ==
  ASSUME NEW l, Sound(l), NEW t \in l.suspended
  PROVE  Sound(Drop(l, t))
<1> DEFINE new == Drop(l, t)
<1>1. l \in Ledger /\ l.rev \in Nat /\ l.rev + 1 \in Nat
  BY DEF Sound, Typed, Ledger
<1>2. IsFiniteSet(l.suspended \ {t}) /\ l.suspended \ {t} \subseteq Parked
  BY FS_Subset DEF Sound, Typed, Ledger
<1>3. new \in Ledger
  BY <1>1, <1>2 DEF Drop, Ledger
<1>4. /\ new.journal = l.journal /\ new.rev = l.rev + 1 /\ new.suspended = l.suspended \ {t}
      /\ new.active = l.active /\ new.agentType = l.agentType
  BY <1>1 DEF Drop, Ledger
<1>5. OwnerNamed(new) /\ new.rev >= l.rev /\ IsFiniteSet(new.suspended)
  BY <1>1, <1>2, <1>4 DEF OwnerNamed, HasActive, Sound
<1> QED
  BY <1>3, <1>4, <1>5, QuietSound

LEMMA CompleteSound ==
  ASSUME NEW l, Sound(l), NEW caller \in Agents \cup {NoAgent}, NEW type \in EndEvents,
         NEW id \in Nat, NEW cmd \in Cmds \cup {NoCmd}
  PROVE  Sound(Complete(l, caller, type, id, cmd))
<1> DEFINE new == [l EXCEPT !.active = NoTask, !.pending = NoSwitch, !.agentType = Bot0,
                            !.rev = @ + 1]
           row == Event(type, cmd, IF id # NoTaskId THEN id ELSE l.active.id, caller,
                        l.active.kind)
<1>1. Complete(l, caller, type, id, cmd) = AppendEvent(new, row)
  BY DEF Complete
<1>2. l \in Ledger /\ l.rev \in Nat /\ l.rev + 1 \in Nat /\ l.active \in Task
  BY DEF Sound, Typed, Ledger
<1>3. row \in JournalRow
  <2>1. (IF id # NoTaskId THEN id ELSE l.active.id) \in Nat /\ l.active.kind \in Kinds \cup {NoKind}
    BY <1>2 DEF Task
  <2> QED
    BY <2>1, EventIsRow DEF EventTypes, TaskEvents
<1> HIDE DEF row
<1>4. new \in Ledger
  BY <1>2, NoTaskIsTask, NoSwitchIsSwitch, AgentAssumption DEF Ledger
<1>5. /\ new.journal = l.journal /\ new.rev = l.rev + 1 /\ new.suspended = l.suspended
      /\ new.active = NoTask
  BY <1>2 DEF Ledger
<1>6. OwnerNamed(new) /\ new.rev >= l.rev /\ new.rev > 0 /\ IsFiniteSet(new.suspended)
  BY <1>2, <1>5, NoTaskIsTask DEF OwnerNamed, HasActive, Sound, Typed
<1> HIDE DEF new
<1> QED
  BY <1>1, <1>3, <1>4, <1>5, <1>6, RowSound

-----------------------------------------------------------------------------
(* propose_switch, resolve_switch, accept_switch and handoff               *)

LEMMA ProposeSound ==
  ASSUME NEW l, Sound(l), NEW now \in Nat, NEW from \in Agents, NEW to \in Agents,
         NEW cmd \in Cmds \cup {NoCmd}
  PROVE  Sound(Propose(l, now, from, to, cmd))
<1> DEFINE switch == [from |-> from, to |-> to, at |-> now]
           new == [l EXCEPT !.pending = switch, !.rev = @ + 1]
           event == Event("switch_proposed", cmd, NoTaskId, from, NoKind)
           row == [event EXCEPT !.from = from, !.to = to]
<1>1. Propose(l, now, from, to, cmd) = AppendEvent(new, row)
  BY DEF Propose
<1>2. l \in Ledger /\ l.rev \in Nat /\ l.rev + 1 \in Nat
  BY DEF Sound, Typed, Ledger
<1>3. switch \in Switch
  BY DEF Switch
<1>4. row \in JournalRow
  <2>1. event \in JournalRow
    BY EventIsRow DEF EventTypes, NoTaskId
  <2> HIDE DEF event
  <2> QED
    BY <2>1 DEF JournalRow
<1> HIDE DEF row, switch
<1>5. new \in Ledger
  BY <1>2, <1>3 DEF Ledger
<1>6. /\ new.journal = l.journal /\ new.rev = l.rev + 1 /\ new.suspended = l.suspended
      /\ new.active = l.active /\ new.agentType = l.agentType
  BY <1>2 DEF Ledger
<1>7. OwnerNamed(new) /\ new.rev >= l.rev /\ new.rev > 0 /\ IsFiniteSet(new.suspended)
  BY <1>2, <1>6 DEF OwnerNamed, HasActive, Sound, Typed
<1> HIDE DEF new
<1> QED
  BY <1>1, <1>4, <1>5, <1>6, <1>7, RowSound

LEMMA ResolveSound ==
  ASSUME NEW l, Sound(l), HasSwitch(l), NEW now \in Nat, NEW accepted \in BOOLEAN,
         NEW begins \in BOOLEAN, NEW b \in CallArg, NEW cmd \in Cmds \cup {NoCmd}
  PROVE  Sound(Resolve(l, now, accepted, begins, b, cmd))
<1> DEFINE parked == IF accepted THEN Suspend(l, now, "other") ELSE l
           agentType == IF accepted THEN l.pending.to ELSE parked.agentType
           cleared == [parked EXCEPT !.pending = NoSwitch, !.rev = @ + 1,
                                     !.agentType = IF accepted THEN l.pending.to ELSE @]
           arg == [b EXCEPT !.agent = l.pending.to]
           begun == IF begins THEN Begin(cleared, now, arg, NoCmd) ELSE cleared
           suspendedId == IF accepted THEN l.active.id ELSE NoTaskId
           event == Event(IF accepted THEN "switch_accepted" ELSE "switch_declined", cmd,
                          IF begins THEN begun.active.id ELSE suspendedId,
                          l.pending.to, IF begins THEN b.kind ELSE NoKind)
           row == [event EXCEPT !.from = l.pending.from, !.to = l.pending.to,
                                !.began = begins, !.other = suspendedId]
<1>1. Resolve(l, now, accepted, begins, b, cmd) = AppendEvent(begun, row)
  BY DEF Resolve
<1>2. /\ l.pending.to \in Agents /\ l.pending.from \in Agents \cup {NoAgent}
      /\ l.active.id \in Nat
  BY DEF HasSwitch, Sound, Typed, Ledger, Switch, Task
<1>3. Sound(parked) /\ (accepted => ~HasActive(parked))
  BY SuspendSound
<1>4. arg \in CallArg
  BY <1>2 DEF CallArg
<1> HIDE DEF parked, arg
<1>5. parked \in Ledger /\ parked.rev \in Nat /\ parked.rev + 1 \in Nat
  BY <1>3 DEF Sound, Typed, Ledger
<1>6. agentType \in Agents \cup {NoAgent}
  BY <1>2, <1>5 DEF Ledger
<1>7. cleared \in Ledger
  BY <1>5, <1>6, NoSwitchIsSwitch DEF Ledger
<1>8. /\ cleared.journal = parked.journal /\ cleared.rev = parked.rev + 1
      /\ cleared.suspended = parked.suspended /\ cleared.active = parked.active
      /\ cleared.agentType = agentType
  BY <1>5 DEF Ledger
<1>9. Sound(cleared) /\ cleared.rev > 0
  <2>1. OwnerNamed(cleared)
    BY <1>3, <1>8 DEF OwnerNamed, HasActive, Sound
  <2>2. cleared.rev >= parked.rev /\ cleared.rev > 0 /\ IsFiniteSet(cleared.suspended)
    BY <1>3, <1>5, <1>8 DEF Sound, Typed
  <2> HIDE DEF cleared
  <2> QED
    BY <1>3, <1>7, <1>8, <2>1, <2>2, QuietSound
<1> HIDE DEF cleared
<1>10. Sound(begun) /\ begun.rev > 0
  <2>1. Sound(Begin(cleared, now, arg, NoCmd))
    BY <1>4, <1>9, BeginSound
  <2>2. Begin(cleared, now, arg, NoCmd).rev = cleared.rev + 1
    BY <1>7 DEF Begin, AppendEvent, Ledger
  <2>3. cleared.rev \in Nat
    BY <1>7 DEF Ledger
  <2> QED
    BY <1>9, <2>1, <2>2, <2>3
<1> HIDE DEF begun
<1>11. begun \in Ledger /\ begun.active.id \in Nat /\ IsFiniteSet(begun.suspended)
       /\ OwnerNamed(begun) /\ begun.rev \in Nat
  BY <1>10 DEF Sound, Typed, Ledger, Task
<1>12. row \in JournalRow
  <2>1. suspendedId \in Nat
    BY <1>2 DEF NoTaskId
  <2>2. event \in JournalRow
    <3>1. (IF begins THEN b.kind ELSE NoKind) \in Kinds \cup {NoKind}
      BY DEF CallArg
    <3> QED
      BY <1>2, <1>11, <2>1, <3>1, EventIsRow DEF EventTypes
  <2> HIDE DEF event, suspendedId
  <2> QED
    BY <1>2, <2>1, <2>2 DEF JournalRow
<1> HIDE DEF row
<1> QED
  BY <1>1, <1>10, <1>11, <1>12, RowSound

LEMMA HandoffArgs ==
  ASSUME NEW target \in Agents, NEW ref \in Refs \cup {NoRef}
  PROVE  HandoffArg(target, ref) \in CallArg
  BY KindAssumption DEF HandoffArg, CallArg, GivenPayloads, Payloads

LEMMA HandoffAcceptSound ==
  ASSUME NEW l, Sound(l), HasSwitch(l), NEW now \in Nat, NEW target \in Agents
  PROVE  Sound(HandoffAccept(l, now, target))
<1>1. HandoffRef[target] \in Refs \cup {NoRef}
  BY RefAssumption
<1> QED
  BY <1>1, HandoffArgs, ResolveSound DEF HandoffAccept

LEMMA HandoffTransferSound ==
  ASSUME NEW l, Sound(l), NEW now \in Nat, NEW target \in Agents, NEW current \in Agents
  PROVE  Sound(HandoffTransfer(l, now, target, current))
<1> DEFINE parked == IF current \notin {target, Bot0} THEN Suspend(l, now, "other") ELSE l
           resolved == IF HasSwitch(parked)
                       THEN Resolve(parked, now, TRUE, FALSE, HandoffArg(target, NoRef), NoCmd)
                       ELSE parked
<1>1. HandoffArg(target, NoRef) \in CallArg
  BY HandoffArgs
<1>2. Sound(parked)
  BY SuspendSound
<1> HIDE DEF parked
<1>3. Sound(resolved)
  BY <1>1, <1>2, ResolveSound
<1>4. HandoffTransfer(l, now, target, current)
        = IF target = Bot0 THEN resolved
          ELSE Begin(resolved, now, HandoffArg(target, NoRef), NoCmd)
  BY DEF HandoffTransfer, parked
<1> HIDE DEF resolved
<1> QED
  BY <1>1, <1>3, <1>4, BeginSound

-----------------------------------------------------------------------------
(* prune_stale_ledger_state                                                *)

LEMMA DropRedundantSound ==
  ASSUME NEW l, Sound(l)
  PROVE  Sound(DropRedundant(l))
<1> DEFINE kept == {t \in l.suspended : ~Redundant(l.active, t)}
           new == [l EXCEPT !.suspended = kept, !.rev = @ + 1]
<1>1. l \in Ledger /\ l.rev \in Nat /\ l.rev + 1 \in Nat
  BY DEF Sound, Typed, Ledger
<1>2. kept \subseteq Parked /\ IsFiniteSet(kept)
  <2>1. kept \subseteq l.suspended /\ IsFiniteSet(l.suspended) /\ l.suspended \subseteq Parked
    BY DEF Sound, Typed, Ledger
  <2> HIDE DEF kept
  <2> QED
    BY <2>1, FS_Subset
<1>3. DropRedundant(l) = IF kept = l.suspended THEN l ELSE new
  BY DEF DropRedundant
<1> HIDE DEF kept
<1>4. new \in Ledger
  BY <1>1, <1>2 DEF Ledger
<1>5. /\ new.journal = l.journal /\ new.rev = l.rev + 1 /\ new.suspended = kept
      /\ new.active = l.active /\ new.agentType = l.agentType
  BY <1>1 DEF Ledger
<1>6. OwnerNamed(new) /\ new.rev >= l.rev /\ IsFiniteSet(new.suspended)
  BY <1>1, <1>2, <1>5 DEF OwnerNamed, HasActive, Sound
<1> HIDE DEF new
<1>7. Sound(new)
  BY <1>4, <1>5, <1>6, QuietSound
<1> QED
  BY <1>3, <1>7

LEMMA DropStaleSwitchSound ==
  ASSUME NEW l, Sound(l), NEW now \in Nat
  PROVE  Sound(DropStaleSwitch(l, now))
<1> DEFINE new == [l EXCEPT !.pending = NoSwitch, !.rev = @ + 1]
<1>1. l \in Ledger /\ l.rev \in Nat /\ l.rev + 1 \in Nat
  BY DEF Sound, Typed, Ledger
<1>2. new \in Ledger
  BY <1>1, NoSwitchIsSwitch DEF Ledger
<1>3. /\ new.journal = l.journal /\ new.rev = l.rev + 1 /\ new.suspended = l.suspended
      /\ new.active = l.active /\ new.agentType = l.agentType
  BY <1>1 DEF Ledger
<1>4. OwnerNamed(new) /\ new.rev >= l.rev /\ IsFiniteSet(new.suspended)
  BY <1>1, <1>3 DEF OwnerNamed, HasActive, Sound, Typed
<1>5. DropStaleSwitch(l, now) = new \/ DropStaleSwitch(l, now) = l
  BY DEF DropStaleSwitch
<1> HIDE DEF new
<1>6. Sound(new)
  BY <1>2, <1>3, <1>4, QuietSound
<1> QED
  BY <1>5, <1>6

LEMMA ExpireSuspendedSound ==
  ASSUME NEW l, Sound(l), NEW now \in Nat
  PROVE  Sound(ExpireSuspended(l, now))
<1> DEFINE stale == {t \in l.suspended : Old(t.parkedAt, now, TaskHorizon)}
           turn(t) == Cardinality({u \in stale : u.pos <= t.pos})
           row(t) == [Event("task_expired", NoCmd, t.task.id, t.task.agent, t.task.kind)
                        EXCEPT !.seq = l.rev + turn(t)]
           rows == {row(t) : t \in stale}
           left == l.suspended \ stale
           rev == l.rev + Cardinality(stale)
           new == [l EXCEPT !.suspended = left, !.rev = rev, !.journal = @ \cup rows]
<1>1. ExpireSuspended(l, now) = new
  BY DEF ExpireSuspended
<1>2. /\ l \in Ledger /\ l.rev \in Nat /\ IsFiniteSet(l.suspended)
      /\ l.suspended \subseteq Parked /\ l.journal \subseteq JournalRow
  BY DEF Sound, Typed, Ledger
<1>3. stale \subseteq l.suspended /\ left \subseteq l.suspended
  OBVIOUS
<1>4. IsFiniteSet(stale) /\ IsFiniteSet(left) /\ Cardinality(stale) \in Nat
  BY <1>2, <1>3, FS_Subset, FS_CardinalityType
<1> HIDE DEF stale
<1>5. ASSUME NEW t \in stale
      PROVE  turn(t) \in 1 .. Cardinality(stale)
  <2> DEFINE upto == {u \in stale : u.pos <= t.pos}
  <2>1. t.pos \in Nat
    BY <1>2, <1>3 DEF Parked
  <2>2. upto \subseteq stale /\ t \in upto
    BY <2>1
  <2> HIDE DEF upto
  <2>3. /\ IsFiniteSet(upto) /\ Cardinality(upto) \in Nat
        /\ Cardinality(upto) <= Cardinality(stale)
    BY <1>4, <2>2, FS_Subset, FS_CardinalityType
  <2>4. Cardinality(upto) # 0
    BY <2>2, <2>3, FS_EmptySet
  <2> QED
    BY <1>4, <2>3, <2>4 DEF upto
<1>6. ASSUME NEW t \in stale
      PROVE  row(t) \in JournalRow /\ row(t).seq \in 1 .. rev
  <2> DEFINE event == Event("task_expired", NoCmd, t.task.id, t.task.agent, t.task.kind)
  <2>1. event \in JournalRow
    BY <1>2, <1>3, EventIsRow DEF Parked, Task, EventTypes, TaskEvents, EndEvents
  <2>2. turn(t) \in 1 .. Cardinality(stale)
    BY <1>5
  <2> HIDE DEF event, turn
  <2>3. l.rev + turn(t) \in Nat /\ l.rev + turn(t) \in 1 .. rev
    BY <1>2, <1>4, <2>2
  <2>4. /\ [event EXCEPT !.seq = l.rev + turn(t)] \in JournalRow
        /\ [event EXCEPT !.seq = l.rev + turn(t)].seq = l.rev + turn(t)
    BY <2>1, <2>3 DEF JournalRow
  <2> QED
    BY <2>3, <2>4 DEF event
<1>7. rows \subseteq JournalRow /\ \A e \in rows : e.seq \in 1 .. rev
  BY <1>6
<1>8. rev \in Nat /\ rev >= l.rev
  BY <1>2, <1>4
<1> HIDE DEF rows, left, rev
<1>9. new \in Ledger
  BY <1>2, <1>3, <1>7, <1>8 DEF Ledger
<1>10. /\ new.journal = l.journal \cup rows /\ new.rev = rev /\ new.suspended = left
       /\ new.active = l.active /\ new.agentType = l.agentType
  BY <1>2 DEF Ledger
<1> HIDE DEF new
<1>11. Typed(new) /\ OwnerNamed(new)
  BY <1>4, <1>9, <1>10 DEF Sound, Typed, OwnerNamed, HasActive
<1>12. RowsBelow(new)
  <2> SUFFICES ASSUME NEW e \in l.journal \cup rows PROVE e.seq \in 1 .. rev
    BY <1>10 DEF RowsBelow
  <2>1. CASE e \in l.journal
    BY <1>2, <1>8, <2>1 DEF Sound, RowsBelow
  <2> QED
    BY <1>7, <2>1
<1> QED
  BY <1>1, <1>11, <1>12 DEF Sound

LEMMA PruneSound ==
  ASSUME NEW l, Sound(l), NEW now \in Nat
  PROVE  Sound(Prune(l, now))
<1> DEFINE swept == ExpireSuspended(DropStaleSwitch(DropRedundant(l), now), now)
<1>1. Sound(swept)
  BY DropRedundantSound, DropStaleSwitchSound, ExpireSuspendedSound
<1> HIDE DEF swept
<1>2. Sound(ExpireActive(swept, now))
  <2>1. swept.active.agent \in Agents \cup {NoAgent}
    BY <1>1 DEF Sound, Typed, Ledger, Task
  <2>2. Sound(Complete(swept, swept.active.agent, "task_expired", NoTaskId, NoCmd))
    BY <1>1, <2>1, CompleteSound DEF EndEvents, NoTaskId
  <2> QED
    BY <1>1, <2>2 DEF ExpireActive
<1> QED
  BY <1>2 DEF Prune, swept

-----------------------------------------------------------------------------
(* set_pending_question, clear_pending_question, sync_agent_type_summary   *)

LEMMA AskSound ==
  ASSUME NEW l, Sound(l), NEW asked \in BOOLEAN
  PROVE  Sound([l EXCEPT !.question = asked, !.rev = @ + 1])
<1> DEFINE new == [l EXCEPT !.question = asked, !.rev = @ + 1]
<1>1. l \in Ledger /\ l.rev \in Nat /\ l.rev + 1 \in Nat
  BY DEF Sound, Typed, Ledger
<1>2. new \in Ledger
  BY <1>1 DEF Ledger
<1>3. /\ new.journal = l.journal /\ new.rev = l.rev + 1 /\ new.suspended = l.suspended
      /\ new.active = l.active /\ new.agentType = l.agentType
  BY <1>1 DEF Ledger
<1>4. OwnerNamed(new) /\ new.rev >= l.rev /\ IsFiniteSet(new.suspended)
  BY <1>1, <1>3 DEF OwnerNamed, HasActive, Sound, Typed
<1> HIDE DEF new
<1> QED
  BY <1>2, <1>3, <1>4, QuietSound DEF new

LEMMA SummarySound ==
  ASSUME NEW l, Sound(l), NEW agent \in Agents
  PROVE  Sound([l EXCEPT !.agentType = IF HasActive(l) THEN l.active.agent ELSE agent])
<1> DEFINE effective == IF HasActive(l) THEN l.active.agent ELSE agent
           new == [l EXCEPT !.agentType = effective]
<1>1. l \in Ledger /\ l.rev \in Nat /\ effective \in Agents \cup {NoAgent}
  BY DEF Sound, Typed, Ledger, Task
<1>2. new \in Ledger
  BY <1>1 DEF Ledger
<1>3. /\ new.journal = l.journal /\ new.rev = l.rev /\ new.suspended = l.suspended
      /\ new.active = l.active /\ new.agentType = effective
  BY <1>1 DEF Ledger
<1>4. OwnerNamed(new) /\ new.rev >= l.rev /\ IsFiniteSet(new.suspended)
  BY <1>1, <1>3 DEF OwnerNamed, HasActive, Sound, Typed
<1> HIDE DEF new
<1> QED
  BY <1>2, <1>3, <1>4, QuietSound DEF new

-----------------------------------------------------------------------------
(* The specification                                                       *)

SoundState == Sound(ledger) /\ clock \in Nat /\ collided \in Ops

LEMMA CommitKeeps ==
  ASSUME SoundState, NEW op \in Ops, NEW new, Sound(new), Commit(op, new)
  PROVE  SoundState'
<1>1. Sound(ledger)' <=> Sound(ledger')
  BY DEF Sound, Typed, OwnerNamed, HasActive, RowsBelow
<1> QED
  BY <1>1 DEF SoundState, Commit, Ops

LEMMA IdleKeeps == SoundState /\ WritesNothing => SoundState'
  BY DEF SoundState, WritesNothing, Ops

LEMMA InitSound == Init => SoundState
<1> SUFFICES ASSUME Init PROVE SoundState
  OBVIOUS
<1>1. PICK agent \in {NoAgent, Bot0} : ledger = EmptyLedger(agent)
  BY DEF Init
<1>2. IsFiniteSet({})
  BY FS_EmptySet
<1>3. ledger \in Ledger
  BY <1>1, NoTaskIsTask, NoSwitchIsSwitch, AgentAssumption DEF EmptyLedger, Ledger
<1>4. ledger.suspended = {} /\ ledger.active = NoTask /\ ledger.journal = {}
  BY <1>1 DEF EmptyLedger
<1> QED
  BY <1>2, <1>3, <1>4, NoTaskIsTask
  DEF Init, SoundState, Sound, Typed, OwnerNamed, HasActive, RowsBelow, Ops

LEMMA NextSound ==
  ASSUME SoundState, Next
  PROVE  SoundState'
<1>1. Sound(ledger) /\ clock \in Nat /\ Typed(ledger) /\ ledger.minted \in Nat
      /\ ledger.suspended \subseteq Parked /\ ledger.active.id \in Nat
  BY DEF SoundState, Sound, Typed, Ledger, Task
<1>2. /\ BeginArgs \subseteq CallArg /\ PhaseArgs \subseteq CallArg
      /\ EndReasons \subseteq EndEvents /\ Enders \subseteq Agents
      /\ SuspendReasons \subseteq {"detour", "other"} /\ SummaryAgents \subseteq Agents
      /\ Proposals \subseteq Agents \X Agents /\ HandoffTargets \subseteq Agents
      /\ Bot0 \in Agents
  BY CallAssumption, AgentAssumption
<1> USE DEF Ops
<1>3. CASE BeginTask
  BY <1>1, <1>2, <1>3, BeginSound, CommitKeeps, IdleKeeps DEF BeginTask
<1>4. CASE UpdatePhase
  BY <1>1, <1>2, <1>4, PhaseSound, CommitKeeps DEF UpdatePhase
<1>5. CASE SuspendActive
  BY <1>1, <1>2, <1>5, SuspendSound, CommitKeeps, IdleKeeps DEF SuspendActive
<1>6. CASE ResumeTask
  <2>1. PICK id \in 0 .. ledger.minted, agent \in Agents :
          LET found == ResumeMatches(ledger, id, agent)
          IN \/ found = {} /\ WritesNothing
             \/ \E t \in First(found) : Commit("resume_task", Resume(ledger, t))
    BY <1>6 DEF ResumeTask
  <2>2. CASE WritesNothing
    BY <2>2, IdleKeeps
  <2>3. CASE ~WritesNothing
    <3>1. PICK t \in First(ResumeMatches(ledger, id, agent)) :
            Commit("resume_task", Resume(ledger, t))
      BY <2>1, <2>3
    <3>2. t \in ledger.suspended
      BY DEF First, ResumeMatches
    <3> QED
      BY <1>1, <3>1, <3>2, ResumeSound, CommitKeeps
  <2> QED
    BY <2>2, <2>3
<1>7. CASE DropSuspendedTask
  <2>1. PICK ref \in Refs \cup {NoRef}, agent \in Agents :
          LET found == DropMatches(ledger, ref, agent)
          IN \/ found = {} /\ WritesNothing
             \/ \E t \in First(found) : Commit("drop_suspended_task", Drop(ledger, t))
    BY <1>7 DEF DropSuspendedTask
  <2>2. CASE WritesNothing
    BY <2>2, IdleKeeps
  <2>3. CASE ~WritesNothing
    <3>1. PICK t \in First(DropMatches(ledger, ref, agent)) :
            Commit("drop_suspended_task", Drop(ledger, t))
      BY <2>1, <2>3
    <3>2. t \in ledger.suspended
      BY DEF First, DropMatches
    <3> QED
      BY <1>1, <3>1, <3>2, DropSound, CommitKeeps
  <2> QED
    BY <2>2, <2>3
<1>8. CASE CompleteTask
  <2>1. CallerTaskIds \subseteq Nat
    BY <1>1 DEF CallerTaskIds, NoTaskId
  <2>2. \A caller \in Enders, type \in EndReasons, id \in CallerTaskIds, cmd \in Cmds \cup {NoCmd} :
          Sound(Complete(ledger, caller, type, id, cmd))
    BY <1>1, <1>2, <2>1, CompleteSound
  <2> QED
    BY <1>8, <2>2, CommitKeeps, IdleKeeps DEF CompleteTask
<1>9. CASE ProposeSwitch
  <2>1. \A p \in Proposals, cmd \in Cmds \cup {NoCmd} :
          Sound(Propose(ledger, clock, p[1], p[2], cmd))
    BY <1>1, <1>2, ProposeSound
  <2> QED
    BY <1>9, <2>1, CommitKeeps, IdleKeeps DEF ProposeSwitch
<1>10. CASE ResolveSwitch
  <2>1. HandoffArg(Bot0, NoRef) \in CallArg
    BY <1>2, HandoffArgs
  <2>2. HasSwitch(ledger) => \A accepted \in BOOLEAN, cmd \in Cmds \cup {NoCmd} :
          Sound(Resolve(ledger, clock, accepted, FALSE, HandoffArg(Bot0, NoRef), cmd))
    BY <1>1, <2>1, ResolveSound
  <2> QED
    BY <1>10, <2>2, CommitKeeps, IdleKeeps DEF ResolveSwitch
<1>11. CASE AcceptSwitch
  <2>1. HasSwitch(ledger) => \A b \in BeginArgs, cmd \in Cmds \cup {NoCmd} :
          Sound(Resolve(ledger, clock, TRUE, TRUE, b, cmd))
    BY <1>1, <1>2, ResolveSound
  <2> QED
    BY <1>11, <2>1, CommitKeeps, IdleKeeps DEF AcceptSwitch
<1>12. CASE Handoff
  <2>1. PICK target \in HandoffTargets :
          \/ Commit("handoff", Begin(ledger, clock, HandoffArg(target, NoRef), NoCmd))
          \/ HasSwitch(ledger) /\ Commit("handoff", HandoffAccept(ledger, clock, target))
          \/ WritesNothing
          \/ \E current \in Agents :
               Commit("handoff", HandoffTransfer(ledger, clock, target, current))
    BY <1>12 DEF Handoff
  <2>2. target \in Agents /\ HandoffArg(target, NoRef) \in CallArg
    BY <1>2, HandoffArgs
  <2>3. Sound(Begin(ledger, clock, HandoffArg(target, NoRef), NoCmd))
    BY <1>1, <2>2, BeginSound
  <2>4. HasSwitch(ledger) => Sound(HandoffAccept(ledger, clock, target))
    BY <1>1, <2>2, HandoffAcceptSound
  <2>5. \A current \in Agents : Sound(HandoffTransfer(ledger, clock, target, current))
    BY <1>1, <2>2, HandoffTransferSound
  <2> QED
    BY <2>1, <2>3, <2>4, <2>5, CommitKeeps, IdleKeeps
<1>13. CASE SetPendingQuestion \/ ClearPendingQuestion
  BY <1>1, <1>13, AskSound, CommitKeeps, IdleKeeps DEF SetPendingQuestion, ClearPendingQuestion
<1>14. CASE SyncAgentTypeSummary
  BY <1>1, <1>2, <1>14, SummarySound, CommitKeeps DEF SyncAgentTypeSummary
<1>15. CASE PruneStaleLedgerState
  BY <1>1, <1>15, PruneSound, CommitKeeps DEF PruneStaleLedgerState
<1>16. CASE StaleCommand
  BY <1>16, IdleKeeps DEF StaleCommand
<1>17. CASE Tick
  BY <1>17 DEF Tick, SoundState, Sound, Typed, OwnerNamed, HasActive, RowsBelow
<1> QED
  BY <1>3, <1>4, <1>5, <1>6, <1>7, <1>8, <1>9, <1>10, <1>11, <1>12, <1>13, <1>14,
     <1>15, <1>16, <1>17 DEF Next

LEMMA SoundAlways == Spec => []SoundState
<1>1. SoundState /\ UNCHANGED vars => SoundState'
  BY DEF SoundState, Sound, Typed, OwnerNamed, HasActive, RowsBelow, vars
<1> QED
  BY <1>1, InitSound, NextSound, PTL DEF Spec

\* Type correctness of the ledger: no operation, however combined, leaves a control
\* key, the summary column or a journal row outside its type.
THEOREM Typing == Spec => []TypeOK
<1>1. SoundState => TypeOK
  BY DEF SoundState, Sound, Typed, TypeOK
<1> QED
  BY <1>1, SoundAlways, PTL

\* _sync_agent_type_column: the column that routing reads names the active task's
\* agent after every operation, the compounds and the sweep included.
THEOREM SummaryIsOwner == Spec => []SummaryMatchesOwner
<1>1. SoundState => SummaryMatchesOwner
  BY DEF SoundState, Sound, OwnerNamed, SummaryMatchesOwner
<1> QED
  BY <1>1, SoundAlways, PTL

\* append_control_event: no journal row is ahead of the revision.
THEOREM RowsStayBelow == Spec => []RowsBelowRevision
<1>1. SoundState => RowsBelowRevision
  BY DEF SoundState, Sound, RowsBelow, RowsBelowRevision
<1> QED
  BY <1>1, SoundAlways, PTL

-----------------------------------------------------------------------------
(* Where a task is: active, or in one entry of suspended_tasks, which the  *)
(* journal has a row for.  The three invariants hold together.  Only       *)
(* suspend_active adds an entry and only resume_task takes one out of the  *)
(* list to make it active; every other operation shrinks the list, keeps   *)
(* the rows and makes active at most a task whose id it has just minted.   *)

IdsMinted(l) ==
  /\ l.active.id <= l.minted
  /\ \A t \in l.suspended : t.task.id <= l.minted

OneHome(l) ==
  /\ \A t, u \in l.suspended : t.task.id = u.task.id /\ t # u => t.task.id = NoTaskId
  /\ l.active.id \notin {t.task.id : t \in l.suspended} \ {NoTaskId}

OneStream(l) ==
  \A t, u \in l.suspended :
    t # u => /\ t.task.kind = u.task.kind => t.task.kind = NoKind
             /\ t.task.ref = u.task.ref => t.task.ref = NoRef

RowOf(l, t) ==
  \E e \in l.journal : /\ e.type = "task_suspended" /\ e.seq = t.pos + 1
                       /\ e.task = t.task.id /\ e.agent = t.task.agent

Journaled(l) == \A t \in l.suspended : RowOf(l, t)

Homes(l) == IdsMinted(l) /\ OneHome(l) /\ OneStream(l) /\ Journaled(l)

\* A write that parks nothing: it leaves some of the list and all of the rows, and
\* what it makes active has the old id, none, or a fresh one.
Shrinks(l, new) ==
  /\ new.suspended \subseteq l.suspended /\ l.journal \subseteq new.journal
  /\ new.minted \in Nat /\ l.minted <= new.minted
  /\ new.active.id \in {l.active.id, NoTaskId} \cup (l.minted + 1) .. new.minted

LEMMA LedgerNumbers ==
  ASSUME NEW l \in Ledger
  PROVE  /\ l.minted \in Nat /\ l.rev \in Nat /\ l.active.id \in Nat /\ l.active \in Task
         /\ \A t \in l.suspended : t.task.id \in Nat /\ t.pos \in Nat
  BY DEF Ledger, Parked, Task

LEMMA ShrinkKeepsHomes ==
  ASSUME NEW l \in Ledger, Homes(l), NEW new, Shrinks(l, new)
  PROVE  Homes(new)
<1> USE LedgerNumbers DEF NoTaskId
<1>1. IdsMinted(new)
  BY DEF Homes, IdsMinted, Shrinks
<1>2. OneHome(new)
  <2>1. new.active.id \notin {t.task.id : t \in new.suspended} \ {0}
    <3> SUFFICES ASSUME NEW t \in new.suspended, new.active.id = t.task.id, t.task.id # 0
                 PROVE  FALSE
      OBVIOUS
    <3>1. t \in l.suspended /\ t.task.id <= l.minted /\ t.task.id # l.active.id
      BY DEF Homes, IdsMinted, OneHome, Shrinks
    <3> QED
      BY <3>1 DEF Shrinks
  <2> QED
    BY <2>1 DEF Homes, OneHome, Shrinks
<1>3. OneStream(new)
  BY DEF Homes, OneStream, Shrinks
<1>4. Journaled(new)
  BY DEF Homes, Journaled, RowOf, Shrinks
<1> QED
  BY <1>1, <1>2, <1>3, <1>4 DEF Homes

-----------------------------------------------------------------------------
(* The operations that park nothing                                        *)

LEMMA BeginShrinks ==
  ASSUME NEW l \in Ledger, NEW now, NEW b, NEW cmd
  PROVE  Shrinks(l, Begin(l, now, b, cmd))
<1> DEFINE task == BegunTask(l, now, b)
           minted == IF SameLogicalTask(l.active, b) THEN l.minted ELSE l.minted + 1
           row == [Event("task_began", cmd, task.id, b.agent, b.kind)
                     EXCEPT !.other = Superseded(l, b)]
           new == [l EXCEPT !.active = task, !.agentType = b.agent, !.rev = @ + 1,
                            !.minted = minted]
<1>1. Begin(l, now, b, cmd) = AppendEvent(new, row)
  BY DEF Begin
<1>2. task.id = IF SameLogicalTask(l.active, b) THEN l.active.id ELSE l.minted + 1
  BY DEF BegunTask
<1> HIDE DEF task, row
<1>3. /\ AppendEvent(new, row).suspended = l.suspended
      /\ AppendEvent(new, row).minted = minted
      /\ AppendEvent(new, row).active = task
      /\ l.journal \subseteq AppendEvent(new, row).journal
  BY DEF AppendEvent, Ledger
<1> HIDE DEF new
<1> QED
  BY <1>1, <1>2, <1>3, LedgerNumbers DEF Shrinks

LEMMA PhaseShrinks ==
  ASSUME NEW l \in Ledger, NEW b
  PROVE  Shrinks(l, Phase(l, b))
<1> DEFINE base == IF l.active.agent = b.agent THEN l.active
                   ELSE [NoTask EXCEPT !.agent = b.agent]
           kind == IF b.kind = NoKind THEN base.kind ELSE b.kind
           ref == IF b.ref = NoRef THEN base.ref ELSE b.ref
           payload == IF b.payload = "absent" THEN base.payload ELSE Sanitized(kind, b.payload)
           task == [base EXCEPT !.kind = kind, !.ref = ref, !.payload = payload]
           new == [l EXCEPT !.active = task, !.agentType = b.agent, !.rev = @ + 1]
<1>1. Phase(l, b) = new
  BY DEF Phase
<1>2. base.id \in {l.active.id, NoTaskId}
  BY DEF NoTask
<1>3. task.id = base.id
  BY DEF NoTask, Ledger, Task
<1> HIDE DEF task
<1>4. /\ new.suspended = l.suspended /\ new.minted = l.minted /\ new.active = task
      /\ new.journal = l.journal
  BY DEF Ledger
<1> HIDE DEF new
<1> QED
  BY <1>1, <1>2, <1>3, <1>4, LedgerNumbers DEF Shrinks

LEMMA CompleteShrinks ==
  ASSUME NEW l \in Ledger, NEW caller, NEW type, NEW id, NEW cmd
  PROVE  Shrinks(l, Complete(l, caller, type, id, cmd))
<1> DEFINE new == [l EXCEPT !.active = NoTask, !.pending = NoSwitch, !.agentType = Bot0,
                            !.rev = @ + 1]
           row == Event(type, cmd, IF id # NoTaskId THEN id ELSE l.active.id, caller,
                        l.active.kind)
<1>1. Complete(l, caller, type, id, cmd) = AppendEvent(new, row)
  BY DEF Complete
<1> HIDE DEF row
<1>2. /\ AppendEvent(new, row).suspended = l.suspended
      /\ AppendEvent(new, row).minted = l.minted
      /\ AppendEvent(new, row).active = NoTask
      /\ l.journal \subseteq AppendEvent(new, row).journal
  BY DEF AppendEvent, Ledger
<1> HIDE DEF new
<1> QED
  BY <1>1, <1>2, LedgerNumbers DEF Shrinks, NoTask

LEMMA ProposeShrinks ==
  ASSUME NEW l \in Ledger, NEW now, NEW from, NEW to, NEW cmd
  PROVE  Shrinks(l, Propose(l, now, from, to, cmd))
<1> DEFINE switch == [from |-> from, to |-> to, at |-> now]
           new == [l EXCEPT !.pending = switch, !.rev = @ + 1]
           row == [Event("switch_proposed", cmd, NoTaskId, from, NoKind)
                     EXCEPT !.from = from, !.to = to]
<1>1. Propose(l, now, from, to, cmd) = AppendEvent(new, row)
  BY DEF Propose
<1> HIDE DEF row, switch
<1>2. /\ AppendEvent(new, row).suspended = l.suspended
      /\ AppendEvent(new, row).minted = l.minted
      /\ AppendEvent(new, row).active = l.active
      /\ l.journal \subseteq AppendEvent(new, row).journal
  BY DEF AppendEvent, Ledger
<1> HIDE DEF new
<1> QED
  BY <1>1, <1>2, LedgerNumbers DEF Shrinks

\* A write of the list, the switch, the question, the summary or the revision.
LEMMA QuietShrinks ==
  ASSUME NEW l \in Ledger, NEW new, new.active = l.active, new.minted = l.minted,
         new.suspended \subseteq l.suspended, l.journal \subseteq new.journal
  PROVE  Shrinks(l, new)
  BY LedgerNumbers DEF Shrinks

LEMMA PruneStagesShrink ==
  ASSUME NEW l \in Ledger, NEW now
  PROVE  /\ Shrinks(l, DropRedundant(l))
         /\ Shrinks(l, DropStaleSwitch(l, now))
         /\ Shrinks(l, ExpireSuspended(l, now))
         /\ Shrinks(l, ExpireActive(l, now))
<1>0. Shrinks(l, l)
  BY QuietShrinks
<1>1. Shrinks(l, DropRedundant(l))
  <2> DEFINE kept == {t \in l.suspended : ~Redundant(l.active, t)}
             new == [l EXCEPT !.suspended = kept, !.rev = @ + 1]
  <2>1. kept \subseteq l.suspended
    OBVIOUS
  <2>2. DropRedundant(l) = IF kept = l.suspended THEN l ELSE new
    BY DEF DropRedundant
  <2> HIDE DEF kept
  <2>3. /\ new.active = l.active /\ new.minted = l.minted /\ new.suspended = kept
        /\ new.journal = l.journal
    BY DEF Ledger
  <2> HIDE DEF new
  <2>4. Shrinks(l, new)
    BY <2>1, <2>3, QuietShrinks
  <2> QED
    BY <1>0, <2>2, <2>4
<1>2. Shrinks(l, DropStaleSwitch(l, now))
  <2> DEFINE new == [l EXCEPT !.pending = NoSwitch, !.rev = @ + 1]
  <2>1. DropStaleSwitch(l, now) = new \/ DropStaleSwitch(l, now) = l
    BY DEF DropStaleSwitch
  <2>2. /\ new.active = l.active /\ new.minted = l.minted /\ new.suspended = l.suspended
        /\ new.journal = l.journal
    BY DEF Ledger
  <2> HIDE DEF new
  <2>3. Shrinks(l, new)
    BY <2>2, QuietShrinks
  <2> QED
    BY <1>0, <2>1, <2>3
<1>3. Shrinks(l, ExpireSuspended(l, now))
  <2> DEFINE stale == {t \in l.suspended : Old(t.parkedAt, now, TaskHorizon)}
             turn(t) == Cardinality({u \in stale : u.pos <= t.pos})
             row(t) == [Event("task_expired", NoCmd, t.task.id, t.task.agent, t.task.kind)
                          EXCEPT !.seq = l.rev + turn(t)]
             rows == {row(t) : t \in stale}
             left == l.suspended \ stale
             rev == l.rev + Cardinality(stale)
             new == [l EXCEPT !.suspended = left, !.rev = rev, !.journal = @ \cup rows]
  <2>1. ExpireSuspended(l, now) = new
    BY DEF ExpireSuspended
  <2>2. left \subseteq l.suspended
    OBVIOUS
  <2> HIDE DEF rows, left, rev
  <2>3. /\ new.active = l.active /\ new.minted = l.minted /\ new.suspended = left
        /\ new.journal = l.journal \cup rows
    BY DEF Ledger
  <2> HIDE DEF new
  <2> QED
    BY <2>1, <2>2, <2>3, QuietShrinks
<1>4. Shrinks(l, ExpireActive(l, now))
  BY <1>0, CompleteShrinks DEF ExpireActive
<1> QED
  BY <1>1, <1>2, <1>3, <1>4

LEMMA DropShrinks ==
  ASSUME NEW l \in Ledger, NEW t
  PROVE  Shrinks(l, Drop(l, t))
<1>1. /\ Drop(l, t).active = l.active /\ Drop(l, t).minted = l.minted
      /\ Drop(l, t).suspended = l.suspended \ {t} /\ Drop(l, t).journal = l.journal
  BY DEF Drop, Ledger
<1> QED
  BY <1>1, QuietShrinks

LEMMA RowShrinks ==
  ASSUME NEW l \in Ledger, NEW e
  PROVE  Shrinks(l, AppendEvent(l, e))
<1>1. /\ AppendEvent(l, e).active = l.active /\ AppendEvent(l, e).minted = l.minted
      /\ AppendEvent(l, e).suspended = l.suspended
      /\ l.journal \subseteq AppendEvent(l, e).journal
  BY DEF AppendEvent, Ledger
<1> QED
  BY <1>1, QuietShrinks

-----------------------------------------------------------------------------
(* The operations that move a task                                         *)

\* suspend_active takes out every entry of the same kind or ref before it appends.
LEMMA SuspendHomes ==
  ASSUME NEW l \in Ledger, Homes(l), NEW now, NEW why
  PROVE  Homes(Suspend(l, now, why))
<1>1. CASE ~HasActive(l)
  BY <1>1 DEF Suspend
<1>2. CASE HasActive(l)
  <2> DEFINE park == Park(l, now, why)
             kept == {t \in l.suspended : ~SamePausedWork(l.active, t)}
             list == kept \cup {park}
             new == [l EXCEPT !.suspended = list, !.active = NoTask,
                              !.agentType = Bot0, !.rev = @ + 2]
             event == Event("task_suspended", NoCmd, l.active.id, l.active.agent, l.active.kind)
             row == [event EXCEPT !.seq = l.rev + 2]
             after == AppendEvent(new, event)
  <2>1. Suspend(l, now, why) = after
    BY <1>2 DEF Suspend
  <2>2. /\ park.task = l.active /\ park.pos = l.rev + 1
    BY DEF Park
  <2>3. /\ row.type = "task_suspended" /\ row.seq = l.rev + 2
        /\ row.task = l.active.id /\ row.agent = l.active.agent
    BY DEF Event
  <2>4. /\ kept \subseteq l.suspended
        /\ \A t \in kept : /\ t.task.kind = l.active.kind => t.task.kind = NoKind
                           /\ t.task.ref = l.active.ref => t.task.ref = NoRef
    BY DEF SamePausedWork
  <2> HIDE DEF park, kept
  <2>5. /\ after.suspended = kept \cup {park} /\ after.active = NoTask
        /\ after.minted = l.minted /\ after.journal = l.journal \cup {row}
    BY DEF AppendEvent, Ledger
  <2> HIDE DEF row, after
  <2> USE LedgerNumbers DEF NoTaskId
  <2>6. IdsMinted(after)
    BY <2>2, <2>4, <2>5 DEF Homes, IdsMinted, NoTask
  <2>7. OneHome(after)
    BY <2>2, <2>4, <2>5 DEF Homes, OneHome, NoTask
  <2>8. OneStream(after)
    BY <2>2, <2>4, <2>5 DEF Homes, OneStream
  <2>9. Journaled(after)
    <3> SUFFICES ASSUME NEW t \in kept \cup {park} PROVE RowOf(after, t)
      BY <2>5 DEF Journaled
    <3>1. CASE t \in kept
      BY <2>4, <2>5, <3>1 DEF Homes, Journaled, RowOf
    <3>2. CASE t = park
      BY <2>2, <2>3, <2>5, <3>2 DEF RowOf
    <3> QED
      BY <3>1, <3>2
  <2> QED
    BY <2>1, <2>6, <2>7, <2>8, <2>9 DEF Homes
<1> QED
  BY <1>1, <1>2

\* resume_task takes the entry out of the list it makes active from.
LEMMA ResumeHomes ==
  ASSUME NEW l \in Ledger, Homes(l), NEW t \in l.suspended
  PROVE  Homes(Resume(l, t))
<1> DEFINE new == Resume(l, t)
<1>1. /\ new.suspended = l.suspended \ {t} /\ new.active = t.task
      /\ new.minted = l.minted /\ new.journal = l.journal
  BY DEF Resume, Ledger
<1> HIDE DEF new
<1>2. IdsMinted(new)
  BY <1>1 DEF Homes, IdsMinted
<1>3. OneHome(new)
  BY <1>1 DEF Homes, OneHome
<1>4. OneStream(new)
  BY <1>1 DEF Homes, OneStream
<1>5. Journaled(new)
  BY <1>1 DEF Homes, Journaled, RowOf
<1> QED
  BY <1>2, <1>3, <1>4, <1>5 DEF Homes, new

-----------------------------------------------------------------------------
(* The compounds                                                           *)

Housed(l) == Sound(l) /\ Homes(l)

LEMMA HousedShrinks ==
  ASSUME NEW l, Housed(l), NEW new, Sound(new), Shrinks(l, new)
  PROVE  Housed(new)
  BY ShrinkKeepsHomes DEF Housed, Sound, Typed

LEMMA BeginHoused ==
  ASSUME NEW l, Housed(l), NEW now \in Nat, NEW b \in CallArg, NEW cmd \in Cmds \cup {NoCmd}
  PROVE  Housed(Begin(l, now, b, cmd))
<1>1. l \in Ledger
  BY DEF Housed, Sound, Typed
<1> QED
  BY <1>1, BeginSound, BeginShrinks, HousedShrinks DEF Housed

LEMMA SuspendHoused ==
  ASSUME NEW l, Housed(l), NEW now \in Nat, NEW why \in {"detour", "other"}
  PROVE  Housed(Suspend(l, now, why))
  BY SuspendSound, SuspendHomes DEF Housed, Sound, Typed

\* resolve_switch and accept_switch: park, clear, begin, and one row for the whole.
LEMMA ResolveHoused ==
  ASSUME NEW l, Housed(l), HasSwitch(l), NEW now \in Nat, NEW accepted \in BOOLEAN,
         NEW begins \in BOOLEAN, NEW b \in CallArg, NEW cmd \in Cmds \cup {NoCmd}
  PROVE  Housed(Resolve(l, now, accepted, begins, b, cmd))
<1> DEFINE parked == IF accepted THEN Suspend(l, now, "other") ELSE l
           cleared == [parked EXCEPT !.pending = NoSwitch, !.rev = @ + 1,
                                     !.agentType = IF accepted THEN l.pending.to ELSE @]
           arg == [b EXCEPT !.agent = l.pending.to]
           begun == IF begins THEN Begin(cleared, now, arg, NoCmd) ELSE cleared
           suspendedId == IF accepted THEN l.active.id ELSE NoTaskId
           event == Event(IF accepted THEN "switch_accepted" ELSE "switch_declined", cmd,
                          IF begins THEN begun.active.id ELSE suspendedId,
                          l.pending.to, IF begins THEN b.kind ELSE NoKind)
           row == [event EXCEPT !.from = l.pending.from, !.to = l.pending.to,
                                !.began = begins, !.other = suspendedId]
<1>1. Resolve(l, now, accepted, begins, b, cmd) = AppendEvent(begun, row)
  BY DEF Resolve
<1>2. Housed(parked) /\ (accepted => ~HasActive(parked))
  BY SuspendHoused, SuspendSound DEF Housed
<1>3. l.pending.to \in Agents
  BY DEF HasSwitch, Housed, Sound, Typed, Ledger, Switch
<1> HIDE DEF parked, row
<1>4. parked \in Ledger /\ parked.rev \in Nat /\ parked.rev + 1 \in Nat
  BY <1>2 DEF Housed, Sound, Typed, Ledger
<1>5. /\ cleared.active = parked.active /\ cleared.minted = parked.minted
      /\ cleared.suspended = parked.suspended /\ cleared.journal = parked.journal
      /\ cleared.rev = parked.rev + 1
      /\ cleared.agentType = IF accepted THEN l.pending.to ELSE parked.agentType
  BY <1>4 DEF Ledger
<1>6. cleared \in Ledger
  <2>1. (IF accepted THEN l.pending.to ELSE parked.agentType) \in Agents \cup {NoAgent}
    BY <1>3, <1>4 DEF Ledger
  <2> QED
    BY <1>4, <2>1, NoSwitchIsSwitch DEF Ledger
<1> HIDE DEF cleared
<1>7. Sound(cleared)
  <2>1. OwnerNamed(cleared)
    BY <1>2, <1>5 DEF OwnerNamed, HasActive, Housed, Sound
  <2> QED
    BY <1>2, <1>4, <1>5, <1>6, <2>1, QuietSound DEF Housed, Sound, Typed
<1>8. Housed(cleared)
  BY <1>2, <1>4, <1>5, <1>7, QuietShrinks, HousedShrinks
<1>9. arg \in CallArg
  BY <1>3 DEF CallArg
<1> HIDE DEF arg
<1>10. Housed(begun)
  BY <1>8, <1>9, BeginHoused
<1> HIDE DEF begun
<1>11. begun \in Ledger /\ Sound(AppendEvent(begun, row))
  BY <1>1, <1>10, ResolveSound DEF Housed, Sound, Typed
<1> QED
  BY <1>1, <1>10, <1>11, RowShrinks, HousedShrinks

LEMMA HandoffHoused ==
  ASSUME NEW l, Housed(l), NEW now \in Nat, NEW target \in Agents, NEW current \in Agents
  PROVE  /\ HasSwitch(l) => Housed(HandoffAccept(l, now, target))
         /\ Housed(HandoffTransfer(l, now, target, current))
<1>1. HandoffRef[target] \in Refs \cup {NoRef}
  BY RefAssumption
<1>2. HasSwitch(l) => Housed(HandoffAccept(l, now, target))
  BY <1>1, HandoffArgs, ResolveHoused DEF HandoffAccept
<1>3. Housed(HandoffTransfer(l, now, target, current))
  <2> DEFINE parked == IF current \notin {target, Bot0} THEN Suspend(l, now, "other") ELSE l
             resolved == IF HasSwitch(parked)
                         THEN Resolve(parked, now, TRUE, FALSE, HandoffArg(target, NoRef), NoCmd)
                         ELSE parked
  <2>1. HandoffArg(target, NoRef) \in CallArg
    BY HandoffArgs
  <2>2. Housed(parked)
    BY SuspendHoused
  <2> HIDE DEF parked
  <2>3. Housed(resolved)
    BY <2>1, <2>2, ResolveHoused
  <2>4. HandoffTransfer(l, now, target, current)
          = IF target = Bot0 THEN resolved
            ELSE Begin(resolved, now, HandoffArg(target, NoRef), NoCmd)
    BY DEF HandoffTransfer, parked
  <2> HIDE DEF resolved
  <2> QED
    BY <2>1, <2>3, <2>4, BeginHoused
<1> QED
  BY <1>2, <1>3

\* The sweep: each of its stages shrinks what the one before it left.
LEMMA PruneHoused ==
  ASSUME NEW l, Housed(l), NEW now \in Nat
  PROVE  Housed(Prune(l, now))
<1> DEFINE lean == DropRedundant(l)
           settled == DropStaleSwitch(lean, now)
           swept == ExpireSuspended(settled, now)
<1>1. Housed(lean)
  BY DropRedundantSound, PruneStagesShrink, HousedShrinks DEF Housed, Sound, Typed
<1> HIDE DEF lean
<1>2. Housed(settled)
  BY <1>1, DropStaleSwitchSound, PruneStagesShrink, HousedShrinks DEF Housed, Sound, Typed
<1> HIDE DEF settled
<1>3. Housed(swept)
  BY <1>2, ExpireSuspendedSound, PruneStagesShrink, HousedShrinks DEF Housed, Sound, Typed
<1>4. Prune(l, now) = ExpireActive(swept, now)
  BY DEF Prune, swept, settled, lean
<1>5. Sound(ExpireActive(swept, now))
  BY <1>4, PruneSound DEF Housed
<1> HIDE DEF swept
<1> QED
  BY <1>3, <1>4, <1>5, PruneStagesShrink, HousedShrinks DEF Housed, Sound, Typed

-----------------------------------------------------------------------------
(* The specification                                                       *)

LEMMA CommitHoused ==
  ASSUME Housed(ledger), NEW op, NEW new, Housed(new), Commit(op, new)
  PROVE  Housed(ledger')
  BY DEF Commit

LEMMA IdleHoused == Housed(ledger) /\ WritesNothing => Housed(ledger')
  BY DEF WritesNothing

LEMMA InitHoused == Init => Housed(ledger)
<1> SUFFICES ASSUME Init PROVE Housed(ledger)
  OBVIOUS
<1>1. PICK agent \in {NoAgent, Bot0} : ledger = EmptyLedger(agent)
  BY DEF Init
<1>2. ledger.suspended = {} /\ ledger.active = NoTask /\ ledger.minted = 0
  BY <1>1 DEF EmptyLedger
<1>3. Homes(ledger)
  BY <1>2 DEF Homes, IdsMinted, OneHome, OneStream, Journaled, NoTask, NoTaskId
<1> QED
  BY <1>3, InitSound DEF Housed, SoundState

LEMMA NextHoused ==
  ASSUME SoundState, Housed(ledger), Next
  PROVE  Housed(ledger')
<1>1. Sound(ledger) /\ clock \in Nat /\ ledger \in Ledger /\ ledger.minted \in Nat
      /\ ledger.active.id \in Nat
  BY DEF SoundState, Sound, Typed, Ledger, Task
<1>2. /\ BeginArgs \subseteq CallArg /\ PhaseArgs \subseteq CallArg
      /\ EndReasons \subseteq EndEvents /\ Enders \subseteq Agents
      /\ SuspendReasons \subseteq {"detour", "other"} /\ SummaryAgents \subseteq Agents
      /\ Proposals \subseteq Agents \X Agents /\ HandoffTargets \subseteq Agents
      /\ Bot0 \in Agents
  BY CallAssumption, AgentAssumption
<1>3. SoundState'
  BY NextSound
<1>4. ASSUME NEW new, Shrinks(ledger, new), NEW op, Commit(op, new)
      PROVE  Housed(ledger')
  <2>1. Homes(new)
    BY <1>1, <1>4, ShrinkKeepsHomes DEF Housed
  <2>2. Homes(ledger')
    BY <1>4, <2>1 DEF Commit, Housed
  <2>3. Sound(ledger)' <=> Sound(ledger')
    BY DEF Sound, Typed, OwnerNamed, HasActive, RowsBelow
  <2> QED
    BY <1>3, <2>2, <2>3 DEF Housed, SoundState
<1>5. CASE BeginTask
  BY <1>1, <1>4, <1>5, BeginShrinks, IdleHoused DEF BeginTask
<1>6. CASE UpdatePhase
  BY <1>1, <1>4, <1>6, PhaseShrinks DEF UpdatePhase
<1>7. CASE SuspendActive
  BY <1>1, <1>2, <1>7, SuspendHoused, CommitHoused, IdleHoused DEF SuspendActive
<1>8. CASE ResumeTask
  <2>1. PICK id \in 0 .. ledger.minted, agent \in Agents :
          LET found == ResumeMatches(ledger, id, agent)
          IN \/ found = {} /\ WritesNothing
             \/ \E t \in First(found) : Commit("resume_task", Resume(ledger, t))
    BY <1>8 DEF ResumeTask
  <2>2. CASE WritesNothing
    BY <2>2, IdleHoused
  <2>3. CASE ~WritesNothing
    <3>1. PICK t \in First(ResumeMatches(ledger, id, agent)) :
            Commit("resume_task", Resume(ledger, t))
      BY <2>1, <2>3
    <3>2. t \in ledger.suspended
      BY DEF First, ResumeMatches
    <3>3. Housed(Resume(ledger, t))
      BY <1>1, <3>2, ResumeSound, ResumeHomes DEF Housed
    <3> QED
      BY <3>1, <3>3, CommitHoused
  <2> QED
    BY <2>2, <2>3
<1>9. CASE DropSuspendedTask
  <2>1. \/ WritesNothing
        \/ \E t \in ledger.suspended : Commit("drop_suspended_task", Drop(ledger, t))
    BY <1>9 DEF DropSuspendedTask, First, DropMatches
  <2> QED
    BY <1>1, <1>4, <2>1, DropShrinks, IdleHoused
<1>10. CASE CompleteTask
  BY <1>1, <1>4, <1>10, CompleteShrinks, IdleHoused DEF CompleteTask
<1>11. CASE ProposeSwitch
  BY <1>1, <1>4, <1>11, ProposeShrinks, IdleHoused DEF ProposeSwitch
<1>12. CASE ResolveSwitch
  <2>1. HandoffArg(Bot0, NoRef) \in CallArg
    BY <1>2, HandoffArgs
  <2>2. HasSwitch(ledger) => \A accepted \in BOOLEAN, cmd \in Cmds \cup {NoCmd} :
          Housed(Resolve(ledger, clock, accepted, FALSE, HandoffArg(Bot0, NoRef), cmd))
    BY <1>1, <2>1, ResolveHoused
  <2> QED
    BY <1>12, <2>2, CommitHoused, IdleHoused DEF ResolveSwitch
<1>13. CASE AcceptSwitch
  <2>1. HasSwitch(ledger) => \A b \in BeginArgs, cmd \in Cmds \cup {NoCmd} :
          Housed(Resolve(ledger, clock, TRUE, TRUE, b, cmd))
    BY <1>1, <1>2, ResolveHoused
  <2> QED
    BY <1>13, <2>1, CommitHoused, IdleHoused DEF AcceptSwitch
<1>14. CASE Handoff
  <2>1. PICK target \in HandoffTargets :
          \/ Commit("handoff", Begin(ledger, clock, HandoffArg(target, NoRef), NoCmd))
          \/ HasSwitch(ledger) /\ Commit("handoff", HandoffAccept(ledger, clock, target))
          \/ WritesNothing
          \/ \E current \in Agents :
               Commit("handoff", HandoffTransfer(ledger, clock, target, current))
    BY <1>14 DEF Handoff
  <2>2. target \in Agents /\ HandoffArg(target, NoRef) \in CallArg
    BY <1>2, HandoffArgs
  <2>3. Housed(Begin(ledger, clock, HandoffArg(target, NoRef), NoCmd))
    BY <1>1, <2>2, BeginHoused
  <2>4. HasSwitch(ledger) => Housed(HandoffAccept(ledger, clock, target))
    BY <1>1, <1>2, <2>2, HandoffHoused
  <2>5. \A current \in Agents : Housed(HandoffTransfer(ledger, clock, target, current))
    BY <1>1, <2>2, HandoffHoused
  <2> QED
    BY <2>1, <2>3, <2>4, <2>5, CommitHoused, IdleHoused
<1>15. CASE SetPendingQuestion \/ ClearPendingQuestion
  <2>1. ASSUME NEW asked \in BOOLEAN
        PROVE  Shrinks(ledger, [ledger EXCEPT !.question = asked, !.rev = @ + 1])
    <3> DEFINE new == [ledger EXCEPT !.question = asked, !.rev = @ + 1]
    <3>1. /\ new.active = ledger.active /\ new.minted = ledger.minted
          /\ new.suspended = ledger.suspended /\ new.journal = ledger.journal
      BY <1>1 DEF Ledger
    <3> HIDE DEF new
    <3> QED
      BY <1>1, <3>1, QuietShrinks DEF new
  <2> QED
    BY <1>4, <1>15, <2>1, IdleHoused DEF SetPendingQuestion, ClearPendingQuestion
<1>16. CASE SyncAgentTypeSummary
  <2>1. ASSUME NEW effective
        PROVE  Shrinks(ledger, [ledger EXCEPT !.agentType = effective])
    <3> DEFINE new == [ledger EXCEPT !.agentType = effective]
    <3>1. /\ new.active = ledger.active /\ new.minted = ledger.minted
          /\ new.suspended = ledger.suspended /\ new.journal = ledger.journal
      BY <1>1 DEF Ledger
    <3> HIDE DEF new
    <3> QED
      BY <1>1, <3>1, QuietShrinks DEF new
  <2> QED
    BY <1>4, <1>16, <2>1 DEF SyncAgentTypeSummary
<1>17. CASE PruneStaleLedgerState
  BY <1>1, <1>17, PruneHoused, CommitHoused DEF PruneStaleLedgerState
<1>18. CASE StaleCommand \/ Tick
  BY <1>18, IdleHoused DEF StaleCommand, Tick
<1> QED
  BY <1>5, <1>6, <1>7, <1>8, <1>9, <1>10, <1>11, <1>12, <1>13, <1>14, <1>15, <1>16,
     <1>17, <1>18 DEF Next

HousedState == SoundState /\ Homes(ledger)

LEMMA HousedAlways == Spec => []HousedState
<1>1. Init => HousedState
  BY InitSound, InitHoused DEF HousedState, Housed
<1>2. HousedState /\ [Next]_vars => HousedState'
  <2> SUFFICES ASSUME HousedState, [Next]_vars PROVE HousedState'
    OBVIOUS
  <2>1. Homes(ledger)' <=> Homes(ledger')
    BY DEF Homes, IdsMinted, OneHome, OneStream, Journaled, RowOf
  <2>2. CASE Next
    <3>1. Housed(ledger')
      BY <2>2, NextHoused DEF HousedState, Housed, SoundState
    <3> QED
      BY <2>1, <2>2, <3>1, NextSound DEF HousedState, Housed
  <2>3. CASE UNCHANGED vars
    BY <2>1, <2>3 DEF HousedState, SoundState, Sound, Typed, OwnerNamed, HasActive,
                      RowsBelow, vars
  <2> QED
    BY <2>2, <2>3
<1> QED
  BY <1>1, <1>2, PTL DEF Spec

\* suspend_active, resume_task and the compounds built of them: a task instance is
\* active or in one entry of suspended_tasks, and never in both, whatever is begun,
\* parked, resumed and switched in whatever order.
THEOREM TasksHaveOneHome == Spec => []OneHomePerTask
<1>1. HousedState => OneHomePerTask
  BY DEF HousedState, Homes, OneHome, OneHomePerTask
<1> QED
  BY <1>1, HousedAlways, PTL

\* suspend_active's dedupe rule: suspended_tasks holds one entry per kind and per ref.
THEOREM StreamsPauseOnce == Spec => []OnePausedPerStream
<1>1. HousedState => OnePausedPerStream
  BY DEF HousedState, Homes, OneStream, OnePausedPerStream
<1> QED
  BY <1>1, HousedAlways, PTL

\* suspend_active, B-240: the journal has the row of every suspension that still stands.
THEOREM PauseIsJournaled == Spec => []PausedAreJournaled
<1>1. HousedState => PausedAreJournaled
  BY DEF HousedState, Homes, Journaled, RowOf, PausedAreJournaled
<1> QED
  BY <1>1, HousedAlways, PTL
=============================================================================
