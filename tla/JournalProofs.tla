---------------------------- MODULE JournalProofs ----------------------------
(***************************************************************************)
(* What the revision and the journal say of the ledger, after any steps.   *)
(*                                                                         *)
(* The revision fences every decision: a control key differs only at a     *)
(* higher revision.  The journal: each operation takes its numbers above   *)
(* the revision it finds, so that rows collide only in the accept          *)
(* compound, ends of tasks and resolutions of switches come after what     *)
(* they end and resolve, and no work disappears without a row.             *)
(***************************************************************************)
EXTENDS ControlLedgerProofs

-----------------------------------------------------------------------------
(* Fenced writes                                                           *)

Fenced(l, new) ==
  /\ new.rev \in Nat /\ new.rev >= l.rev
  /\ Control(new) # Control(l) => new.rev > l.rev

LEMMA RevisionIsNumber ==
  ASSUME NEW l, Sound(l)
  PROVE  l \in Ledger /\ l.rev \in Nat
  BY DEF Sound, Typed, Ledger

LEMMA StillFenced ==
  ASSUME NEW l, Sound(l)
  PROVE  Fenced(l, l)
  BY RevisionIsNumber DEF Fenced

LEMMA FencedJoins ==
  ASSUME NEW l, NEW mid, NEW new, l.rev \in Nat, Fenced(l, mid), Fenced(mid, new)
  PROVE  Fenced(l, new)
  BY DEF Fenced

\* A row changes neither the revision nor a control key.
LEMMA RowAppended ==
  ASSUME NEW l \in Ledger, NEW e
  PROVE  /\ AppendEvent(l, e).rev = l.rev /\ Control(AppendEvent(l, e)) = Control(l)
  BY DEF AppendEvent, Control, Ledger

-----------------------------------------------------------------------------
(* The operations                                                          *)

LEMMA BeginFenced ==
  ASSUME NEW l, Sound(l), NEW now, NEW b, NEW cmd
  PROVE  Fenced(l, Begin(l, now, b, cmd))
<1>1. Begin(l, now, b, cmd).rev = l.rev + 1
  BY RevisionIsNumber DEF Begin, AppendEvent, Ledger
<1> QED
  BY <1>1, RevisionIsNumber DEF Fenced

LEMMA PhaseFenced ==
  ASSUME NEW l, Sound(l), NEW b
  PROVE  Fenced(l, Phase(l, b))
<1>1. Phase(l, b).rev = l.rev + 1
  BY RevisionIsNumber DEF Phase, Ledger
<1> QED
  BY <1>1, RevisionIsNumber DEF Fenced

LEMMA SuspendFenced ==
  ASSUME NEW l, Sound(l), NEW now, NEW why
  PROVE  Fenced(l, Suspend(l, now, why))
<1>1. HasActive(l) => Suspend(l, now, why).rev = l.rev + 2
  BY RevisionIsNumber DEF Suspend, AppendEvent, Ledger
<1>2. ~HasActive(l) => Suspend(l, now, why) = l
  BY DEF Suspend
<1> QED
  BY <1>1, <1>2, RevisionIsNumber DEF Fenced

LEMMA ResumeFenced ==
  ASSUME NEW l, Sound(l), NEW t
  PROVE  Fenced(l, Resume(l, t)) /\ Fenced(l, Drop(l, t))
<1>1. Resume(l, t).rev = l.rev + 2 /\ Drop(l, t).rev = l.rev + 1
  BY RevisionIsNumber DEF Resume, Drop, Ledger
<1> QED
  BY <1>1, RevisionIsNumber DEF Fenced

LEMMA CompleteFenced ==
  ASSUME NEW l, Sound(l), NEW caller, NEW type, NEW id, NEW cmd
  PROVE  Fenced(l, Complete(l, caller, type, id, cmd))
<1>1. Complete(l, caller, type, id, cmd).rev = l.rev + 1
  BY RevisionIsNumber DEF Complete, AppendEvent, Ledger
<1> QED
  BY <1>1, RevisionIsNumber DEF Fenced

LEMMA ProposeFenced ==
  ASSUME NEW l, Sound(l), NEW now, NEW from, NEW to, NEW cmd
  PROVE  Fenced(l, Propose(l, now, from, to, cmd))
<1>1. Propose(l, now, from, to, cmd).rev = l.rev + 1
  BY RevisionIsNumber DEF Propose, AppendEvent, Ledger
<1> QED
  BY <1>1, RevisionIsNumber DEF Fenced

\* The compound takes one revision for itself, beside those of its parts.
LEMMA ResolveFenced ==
  ASSUME NEW l, Sound(l), NEW now \in Nat, NEW accepted \in BOOLEAN, NEW begins \in BOOLEAN,
         NEW b, NEW cmd
  PROVE  Fenced(l, Resolve(l, now, accepted, begins, b, cmd))
<1> DEFINE parked == IF accepted THEN Suspend(l, now, "other") ELSE l
           agentType == IF accepted THEN l.pending.to ELSE parked.agentType
           cleared == [parked EXCEPT !.pending = NoSwitch, !.rev = @ + 1,
                                     !.agentType = IF accepted THEN l.pending.to ELSE @]
           arg == [b EXCEPT !.agent = l.pending.to]
           begun == IF begins THEN Begin(cleared, now, arg, NoCmd) ELSE cleared
           suspendedId == IF accepted THEN l.active.id ELSE NoTaskId
           event == Event(IF accepted THEN "switch_accepted" ELSE "switch_declined", cmd,
                          IF begins THEN begun.active.id ELSE suspendedId,
                          l.pending.to, IF begins THEN b.kind ELSE NoKind)
           row == [event EXCEPT !.from = l.pending.from, !.to = l.pending.to,
                                !.began = begins, !.other = suspendedId]
<1>1. Resolve(l, now, accepted, begins, b, cmd) = AppendEvent(begun, row)
  BY DEF Resolve
<1>2. Fenced(l, parked) /\ parked \in Ledger
  BY SuspendFenced, SuspendSound, RevisionIsNumber DEF Fenced
<1> HIDE DEF parked, arg, row
<1>3. parked.rev \in Nat /\ cleared.rev = parked.rev + 1
  BY <1>2 DEF Ledger
<1>4. Begin(cleared, now, arg, NoCmd).rev = cleared.rev + 1
  BY <1>2, <1>3 DEF Begin, AppendEvent, Ledger
<1> HIDE DEF cleared
<1>5. AppendEvent(begun, row).rev = begun.rev
  <2>1. begins => AppendEvent(begun, row).rev = begun.rev
    BY <1>2 DEF Begin, AppendEvent, Ledger, cleared
  <2>2. ~begins => AppendEvent(begun, row).rev = begun.rev
    BY <1>2 DEF AppendEvent, Ledger, cleared
  <2> QED
    BY <2>1, <2>2
<1>6. begun.rev \in Nat /\ begun.rev > parked.rev
  BY <1>3, <1>4
<1> HIDE DEF begun
<1> QED
  BY <1>1, <1>2, <1>3, <1>5, <1>6, RevisionIsNumber DEF Fenced

LEMMA HandoffFenced ==
  ASSUME NEW l, Sound(l), NEW now \in Nat, NEW target \in Agents, NEW current \in Agents
  PROVE  /\ Fenced(l, HandoffAccept(l, now, target))
         /\ Fenced(l, HandoffTransfer(l, now, target, current))
<1>1. Fenced(l, HandoffAccept(l, now, target))
  BY ResolveFenced DEF HandoffAccept
<1>2. Fenced(l, HandoffTransfer(l, now, target, current))
  <2> DEFINE parked == IF current \notin {target, Bot0} THEN Suspend(l, now, "other") ELSE l
             resolved == IF HasSwitch(parked)
                         THEN Resolve(parked, now, TRUE, FALSE, HandoffArg(target, NoRef), NoCmd)
                         ELSE parked
  <2>1. HandoffArg(target, NoRef) \in CallArg
    BY HandoffArgs
  <2>2. Sound(parked) /\ Fenced(l, parked)
    BY SuspendSound, SuspendFenced, StillFenced
  <2> HIDE DEF parked
  <2>3. Sound(resolved)
    BY <2>1, <2>2, ResolveSound
  <2>4. Fenced(parked, resolved)
    BY <2>2, ResolveFenced, StillFenced
  <2>5. HandoffTransfer(l, now, target, current)
          = IF target = Bot0 THEN resolved
            ELSE Begin(resolved, now, HandoffArg(target, NoRef), NoCmd)
    BY DEF HandoffTransfer, parked
  <2> HIDE DEF resolved
  <2>6. Fenced(l, resolved)
    BY <2>2, <2>4, FencedJoins, RevisionIsNumber
  <2>7. Fenced(l, Begin(resolved, now, HandoffArg(target, NoRef), NoCmd))
    BY <2>3, <2>6, BeginFenced, FencedJoins, RevisionIsNumber
  <2> QED
    BY <2>5, <2>6, <2>7
<1> QED
  BY <1>1, <1>2

LEMMA ExpireSuspendedFenced ==
  ASSUME NEW l, Sound(l), NEW now
  PROVE  Fenced(l, ExpireSuspended(l, now))
<1> DEFINE stale == {t \in l.suspended : Old(t.parkedAt, now, TaskHorizon)}
           turn(t) == Cardinality({u \in stale : u.pos <= t.pos})
           row(t) == [Event("task_expired", NoCmd, t.task.id, t.task.agent, t.task.kind)
                        EXCEPT !.seq = l.rev + turn(t)]
           rows == {row(t) : t \in stale}
           left == l.suspended \ stale
           rev == l.rev + Cardinality(stale)
           new == [l EXCEPT !.suspended = left, !.rev = rev, !.journal = @ \cup rows]
<1>1. ExpireSuspended(l, now) = new
  BY DEF ExpireSuspended
<1>2. stale \subseteq l.suspended /\ IsFiniteSet(l.suspended)
  BY DEF Sound, Typed
<1> HIDE DEF stale
<1>3. Cardinality(stale) \in Nat /\ (Cardinality(stale) = 0 => stale = {})
  BY <1>2, FS_Subset, FS_CardinalityType, FS_EmptySet
<1>4. stale = {} => left = l.suspended
  OBVIOUS
<1> HIDE DEF rows, left
<1>5. /\ new.rev = rev /\ new.suspended = left /\ new.active = l.active
      /\ new.pending = l.pending /\ new.question = l.question
  BY RevisionIsNumber DEF Ledger
<1> HIDE DEF new
<1> QED
  BY <1>1, <1>3, <1>4, <1>5, RevisionIsNumber DEF Fenced, Control

\* The sweep writes a revision for each stage that finds something to drop.
LEMMA PruneFenced ==
  ASSUME NEW l, Sound(l), NEW now \in Nat
  PROVE  Fenced(l, Prune(l, now))
<1> DEFINE lean == DropRedundant(l)
           settled == DropStaleSwitch(lean, now)
           swept == ExpireSuspended(settled, now)
<1>1. Prune(l, now) = ExpireActive(swept, now)
  BY DEF Prune
<1>2. Sound(lean) /\ Fenced(l, lean)
  <2>1. lean = l \/ lean.rev = l.rev + 1
    BY RevisionIsNumber DEF DropRedundant, Ledger
  <2> HIDE DEF lean
  <2>2. Fenced(l, lean)
    BY <2>1, RevisionIsNumber DEF Fenced
  <2> QED
    BY <2>2, DropRedundantSound DEF lean
<1> HIDE DEF lean
<1>3. Sound(settled) /\ Fenced(lean, settled)
  <2>1. settled = lean \/ settled.rev = lean.rev + 1
    BY <1>2, RevisionIsNumber DEF DropStaleSwitch, Ledger
  <2> HIDE DEF settled
  <2>2. Fenced(lean, settled)
    BY <1>2, <2>1, RevisionIsNumber DEF Fenced
  <2> QED
    BY <1>2, <2>2, DropStaleSwitchSound DEF settled
<1> HIDE DEF settled
<1>4. Sound(swept) /\ Fenced(settled, swept)
  BY <1>3, ExpireSuspendedSound, ExpireSuspendedFenced
<1> HIDE DEF swept
<1>5. Fenced(swept, ExpireActive(swept, now))
  BY <1>4, CompleteFenced, RevisionIsNumber DEF ExpireActive, Fenced
<1>6. Fenced(l, settled)
  BY <1>2, <1>3, FencedJoins, RevisionIsNumber
<1>7. Fenced(l, swept)
  BY <1>4, <1>6, FencedJoins, RevisionIsNumber
<1> QED
  BY <1>1, <1>5, <1>7, FencedJoins, RevisionIsNumber

-----------------------------------------------------------------------------
(* The specification                                                       *)

LEMMA CommitFenced ==
  ASSUME Sound(ledger), NEW op, NEW new, Fenced(ledger, new), Commit(op, new)
  PROVE  Fenced(ledger, ledger')
  BY RevisionIsNumber DEF Commit, Fenced

LEMMA IdleFenced ==
  ASSUME Sound(ledger), WritesNothing
  PROVE  Fenced(ledger, ledger')
  BY RevisionIsNumber DEF WritesNothing, Fenced

LEMMA NextFenced ==
  ASSUME SoundState, Next
  PROVE  Fenced(ledger, ledger')
<1>1. Sound(ledger) /\ clock \in Nat /\ ledger \in Ledger /\ ledger.rev \in Nat
  BY RevisionIsNumber DEF SoundState
<1>2. HandoffTargets \subseteq Agents
  BY CallAssumption
<1>3. CASE BeginTask
  BY <1>1, <1>3, BeginFenced, CommitFenced, IdleFenced DEF BeginTask
<1>4. CASE UpdatePhase
  BY <1>1, <1>4, PhaseFenced, CommitFenced DEF UpdatePhase
<1>5. CASE SuspendActive
  BY <1>1, <1>5, SuspendFenced, CommitFenced, IdleFenced DEF SuspendActive
<1>6. CASE ResumeTask
  <2>1. WritesNothing \/ \E t : Commit("resume_task", Resume(ledger, t))
    BY <1>6 DEF ResumeTask
  <2> QED
    BY <1>1, <2>1, ResumeFenced, CommitFenced, IdleFenced
<1>7. CASE DropSuspendedTask
  <2>1. WritesNothing \/ \E t : Commit("drop_suspended_task", Drop(ledger, t))
    BY <1>7 DEF DropSuspendedTask
  <2> QED
    BY <1>1, <2>1, ResumeFenced, CommitFenced, IdleFenced
<1>8. CASE CompleteTask
  BY <1>1, <1>8, CompleteFenced, CommitFenced, IdleFenced DEF CompleteTask
<1>9. CASE ProposeSwitch
  BY <1>1, <1>9, ProposeFenced, CommitFenced, IdleFenced DEF ProposeSwitch
<1>10. CASE ResolveSwitch
  BY <1>1, <1>10, ResolveFenced, CommitFenced, IdleFenced DEF ResolveSwitch
<1>11. CASE AcceptSwitch
  BY <1>1, <1>11, ResolveFenced, CommitFenced, IdleFenced DEF AcceptSwitch
<1>12. CASE Handoff
  <2>1. PICK target \in HandoffTargets :
          \/ Commit("handoff", Begin(ledger, clock, HandoffArg(target, NoRef), NoCmd))
          \/ HasSwitch(ledger) /\ Commit("handoff", HandoffAccept(ledger, clock, target))
          \/ WritesNothing
          \/ \E current \in Agents :
               Commit("handoff", HandoffTransfer(ledger, clock, target, current))
    BY <1>12 DEF Handoff
  <2>2. Fenced(ledger, HandoffAccept(ledger, clock, target))
    BY <1>1, <1>2, HandoffFenced, AgentAssumption
  <2>3. \A current \in Agents : Fenced(ledger, HandoffTransfer(ledger, clock, target, current))
    BY <1>1, <1>2, HandoffFenced
  <2> QED
    BY <1>1, <2>1, <2>2, <2>3, BeginFenced, CommitFenced, IdleFenced
<1>13. CASE SetPendingQuestion \/ ClearPendingQuestion
  <2>1. ASSUME NEW asked
        PROVE  Fenced(ledger, [ledger EXCEPT !.question = asked, !.rev = @ + 1])
    <3> DEFINE new == [ledger EXCEPT !.question = asked, !.rev = @ + 1]
    <3>1. new.rev = ledger.rev + 1
      BY <1>1 DEF Ledger
    <3> HIDE DEF new
    <3> QED
      BY <1>1, <3>1 DEF Fenced, new
  <2> QED
    BY <1>1, <1>13, <2>1, CommitFenced, IdleFenced DEF SetPendingQuestion, ClearPendingQuestion
<1>14. CASE SyncAgentTypeSummary
  <2>1. ASSUME NEW effective
        PROVE  Fenced(ledger, [ledger EXCEPT !.agentType = effective])
    <3> DEFINE new == [ledger EXCEPT !.agentType = effective]
    <3>1. new.rev = ledger.rev /\ Control(new) = Control(ledger)
      BY <1>1 DEF Control, Ledger
    <3> HIDE DEF new
    <3> QED
      BY <1>1, <3>1 DEF Fenced, new
  <2> QED
    BY <1>1, <1>14, <2>1, CommitFenced DEF SyncAgentTypeSummary
<1>15. CASE PruneStaleLedgerState
  BY <1>1, <1>15, PruneFenced, CommitFenced DEF PruneStaleLedgerState
<1>16. CASE StaleCommand \/ Tick
  BY <1>1, <1>16, IdleFenced DEF StaleCommand, Tick, Fenced
<1> QED
  BY <1>3, <1>4, <1>5, <1>6, <1>7, <1>8, <1>9, <1>10, <1>11, <1>12, <1>13, <1>14,
     <1>15, <1>16 DEF Next

\* get_control_revision, "bumped by every control-key mutation": a decision issued
\* against a revision is stale as soon as any control key differs, whichever operation,
\* compound or sweep made the difference.
THEOREM RevisionIsFence == Spec => RevisionCoversControl
<1>1. SoundState /\ [Next]_vars
      => [/\ Control(ledger') # Control(ledger) => ledger'.rev > ledger.rev
          /\ ledger'.rev >= ledger.rev]_vars
  <2> SUFFICES ASSUME SoundState, Next
               PROVE  /\ Control(ledger') # Control(ledger) => ledger'.rev > ledger.rev
                      /\ ledger'.rev >= ledger.rev
    OBVIOUS
  <2>1. Fenced(ledger, ledger')
    BY NextFenced
  <2> QED
    BY <2>1 DEF Fenced
<1> QED
  BY <1>1, SoundAlways, PTL DEF Spec, RevisionCoversControl

-----------------------------------------------------------------------------
(* What each operation writes                                              *)

\* One row, at the revision after the write.
Wrote(l, new, row) ==
  /\ row \in JournalRow /\ row.seq = new.rev
  /\ new.rev \in Nat /\ new.rev > l.rev
  /\ new.journal = l.journal \cup {row}

LEMMA AppendWrites ==
  ASSUME NEW l \in Ledger, NEW new \in Ledger, new.journal = l.journal, new.rev > l.rev,
         NEW e \in JournalRow
  PROVE  LET after == AppendEvent(new, e) IN
         /\ after.active = new.active /\ after.suspended = new.suspended
         /\ after.pending = new.pending /\ after.rev = new.rev /\ after.minted = new.minted
         /\ \E row : /\ Wrote(l, after, row)
                     /\ row.type = e.type /\ row.cmd = e.cmd /\ row.task = e.task
                     /\ row.agent = e.agent /\ row.from = e.from /\ row.to = e.to
                     /\ row.other = e.other /\ row.kind = e.kind
<1> DEFINE row == [e EXCEPT !.seq = new.rev]
           after == AppendEvent(new, e)
<1>1. new.rev \in Nat
  BY DEF Ledger
<1>2. /\ row \in JournalRow /\ row.seq = new.rev
      /\ row.type = e.type /\ row.cmd = e.cmd /\ row.task = e.task /\ row.agent = e.agent
      /\ row.from = e.from /\ row.to = e.to /\ row.other = e.other /\ row.kind = e.kind
  BY <1>1 DEF JournalRow
<1>3. /\ after.active = new.active /\ after.suspended = new.suspended
      /\ after.pending = new.pending /\ after.rev = new.rev /\ after.minted = new.minted
      /\ after.journal = new.journal \cup {row}
  BY DEF AppendEvent, Ledger
<1> HIDE DEF row, after
<1>4. Wrote(l, after, row)
  BY <1>1, <1>2, <1>3 DEF Wrote
<1> QED
  BY <1>2, <1>3, <1>4 DEF after

LEMMA BeginWrites ==
  ASSUME NEW l, Sound(l), NEW now \in Nat, NEW b \in CallArg, NEW cmd \in Cmds \cup {NoCmd}
  PROVE  LET new == Begin(l, now, b, cmd) IN
         /\ new.active = BegunTask(l, now, b) /\ new.suspended = l.suspended
         /\ new.pending = l.pending /\ new.rev = l.rev + 1
         /\ \E row : /\ Wrote(l, new, row)
                     /\ row.type = "task_began" /\ row.cmd = cmd
                     /\ row.task = new.active.id /\ row.agent = new.active.agent
                     /\ row.kind = new.active.kind /\ row.other = Superseded(l, b)
<1> DEFINE task == BegunTask(l, now, b)
           minted == IF SameLogicalTask(l.active, b) THEN l.minted ELSE l.minted + 1
           new == [l EXCEPT !.active = task, !.agentType = b.agent, !.rev = @ + 1,
                            !.minted = minted]
           event == Event("task_began", cmd, task.id, b.agent, b.kind)
           row == [event EXCEPT !.other = Superseded(l, b)]
<1>1. /\ task \in Task /\ task.agent = b.agent /\ task.kind = b.kind
      /\ b.agent \in Agents /\ b.kind \in Kinds \cup {NoKind}
  BY BegunTaskIsTask DEF Sound, CallArg, BegunTask
<1>2. minted \in Nat /\ Superseded(l, b) \in Nat
  BY DEF Superseded, NoTaskId, Sound, Typed, Ledger, Task
<1>3. /\ row \in JournalRow /\ row.type = "task_began" /\ row.cmd = cmd
      /\ row.task = task.id /\ row.agent = b.agent /\ row.kind = b.kind
      /\ row.other = Superseded(l, b)
  <2>1. event \in JournalRow
    BY <1>1, EventIsRow DEF EventTypes, TaskEvents, Task
  <2>2. /\ event.type = "task_began" /\ event.cmd = cmd /\ event.task = task.id
        /\ event.agent = b.agent /\ event.kind = b.kind
    BY DEF Event
  <2> HIDE DEF event
  <2> QED
    BY <1>2, <2>1, <2>2 DEF JournalRow
<1>4. Begin(l, now, b, cmd) = AppendEvent(new, row)
  BY DEF Begin
<1> HIDE DEF task, minted, row
<1>5. l \in Ledger /\ l.rev \in Nat /\ l.rev + 1 \in Nat
  BY DEF Sound, Typed, Ledger
<1>6. new \in Ledger
  BY <1>1, <1>2, <1>5 DEF Ledger
<1>7. /\ new.suspended = l.suspended /\ new.journal = l.journal /\ new.pending = l.pending
      /\ new.rev = l.rev + 1 /\ new.active = task
  BY <1>5 DEF Ledger
<1> HIDE DEF new
<1>8. new.rev > l.rev
  BY <1>5, <1>7
<1> QED
  BY <1>1, <1>3, <1>4, <1>5, <1>6, <1>7, <1>8, AppendWrites DEF task

LEMMA SuspendWrites ==
  ASSUME NEW l, Sound(l), HasActive(l), NEW now \in Nat, NEW why \in {"detour", "other"}
  PROVE  LET new == Suspend(l, now, why) IN
         /\ new.active = NoTask /\ new.pending = l.pending /\ new.minted = l.minted
         /\ new.suspended = {t \in l.suspended : ~SamePausedWork(l.active, t)}
                              \cup {Park(l, now, why)}
         /\ \E row : /\ Wrote(l, new, row)
                     /\ row.type = "task_suspended" /\ row.cmd = NoCmd
                     /\ row.task = l.active.id /\ row.agent = l.active.agent
<1> DEFINE park == Park(l, now, why)
           kept == {t \in l.suspended : ~SamePausedWork(l.active, t)}
           list == kept \cup {park}
           new == [l EXCEPT !.suspended = list, !.active = NoTask,
                            !.agentType = Bot0, !.rev = @ + 2]
           row == Event("task_suspended", NoCmd, l.active.id, l.active.agent, l.active.kind)
<1>1. Suspend(l, now, why) = AppendEvent(new, row)
  BY DEF Suspend
<1>2. l \in Ledger /\ l.rev \in Nat /\ l.rev + 2 \in Nat /\ l.active \in Task
  BY DEF Sound, Typed, Ledger
<1>3. park \in Parked
  BY <1>2 DEF Park, Parked, HasActive
<1>4. list \subseteq Parked
  BY <1>3 DEF Sound, Typed, Ledger
<1>5. /\ row \in JournalRow /\ row.type = "task_suspended" /\ row.cmd = NoCmd
      /\ row.task = l.active.id /\ row.agent = l.active.agent
  <2>1. row \in JournalRow
    BY <1>2, EventIsRow DEF Task, EventTypes, TaskEvents
  <2> QED
    BY <2>1 DEF Event
<1> HIDE DEF park, kept, list, row
<1>6. new \in Ledger
  BY <1>2, <1>4, NoTaskIsTask, AgentAssumption DEF Ledger
<1>7. /\ new.journal = l.journal /\ new.rev > l.rev /\ new.suspended = list
      /\ new.active = NoTask /\ new.pending = l.pending /\ new.minted = l.minted
  BY <1>2 DEF Ledger
<1> HIDE DEF new
<1> QED
  BY <1>1, <1>2, <1>5, <1>6, <1>7, AppendWrites DEF list, kept, park

LEMMA CompleteWrites ==
  ASSUME NEW l, Sound(l), NEW caller \in Agents \cup {NoAgent}, NEW type \in EndEvents,
         NEW id \in Nat, NEW cmd \in Cmds \cup {NoCmd}
  PROVE  LET new == Complete(l, caller, type, id, cmd) IN
         /\ new.active = NoTask /\ new.pending = NoSwitch /\ new.minted = l.minted
         /\ new.suspended = l.suspended /\ new.rev = l.rev + 1
         /\ \E row : /\ Wrote(l, new, row)
                     /\ row.type = type /\ row.cmd = cmd /\ row.agent = caller
                     /\ row.task = IF id # NoTaskId THEN id ELSE l.active.id
<1> DEFINE new == [l EXCEPT !.active = NoTask, !.pending = NoSwitch, !.agentType = Bot0,
                            !.rev = @ + 1]
           ended == IF id # NoTaskId THEN id ELSE l.active.id
           row == Event(type, cmd, ended, caller, l.active.kind)
<1>1. Complete(l, caller, type, id, cmd) = AppendEvent(new, row)
  BY DEF Complete
<1>2. l \in Ledger /\ l.rev \in Nat /\ l.rev + 1 \in Nat /\ l.active \in Task
  BY DEF Sound, Typed, Ledger
<1>3. ended \in Nat
  BY <1>2 DEF Task
<1> HIDE DEF ended
<1>4. row \in JournalRow
  BY <1>2, <1>3, EventIsRow DEF EventTypes, TaskEvents, Task
<1>5. /\ row.type = type /\ row.cmd = cmd /\ row.agent = caller /\ row.task = ended
  BY DEF Event
<1> HIDE DEF row
<1>6. new \in Ledger
  BY <1>2, NoTaskIsTask, NoSwitchIsSwitch, AgentAssumption DEF Ledger
<1>7. /\ new.journal = l.journal /\ new.rev = l.rev + 1 /\ new.rev > l.rev
      /\ new.active = NoTask /\ new.pending = NoSwitch /\ new.minted = l.minted
      /\ new.suspended = l.suspended
  BY <1>2 DEF Ledger
<1> HIDE DEF new
<1> QED
  BY <1>1, <1>2, <1>4, <1>5, <1>6, <1>7, AppendWrites DEF ended

LEMMA ProposeWrites ==
  ASSUME NEW l, Sound(l), NEW now \in Nat, NEW from \in Agents, NEW to \in Agents,
         NEW cmd \in Cmds \cup {NoCmd}
  PROVE  LET new == Propose(l, now, from, to, cmd) IN
         /\ new.active = l.active /\ new.suspended = l.suspended /\ new.minted = l.minted
         /\ new.pending.from = from /\ new.pending.to = to /\ new.rev = l.rev + 1
         /\ \E row : /\ Wrote(l, new, row)
                     /\ row.type = "switch_proposed" /\ row.cmd = cmd
                     /\ row.from = from /\ row.to = to
<1> DEFINE switch == [from |-> from, to |-> to, at |-> now]
           new == [l EXCEPT !.pending = switch, !.rev = @ + 1]
           event == Event("switch_proposed", cmd, NoTaskId, from, NoKind)
           row == [event EXCEPT !.from = from, !.to = to]
<1>1. Propose(l, now, from, to, cmd) = AppendEvent(new, row)
  BY DEF Propose
<1>2. l \in Ledger /\ l.rev \in Nat /\ l.rev + 1 \in Nat
  BY DEF Sound, Typed, Ledger
<1>3. switch \in Switch /\ switch.from = from /\ switch.to = to
  BY DEF Switch
<1>4. /\ row \in JournalRow /\ row.type = "switch_proposed" /\ row.cmd = cmd
      /\ row.from = from /\ row.to = to
  <2>1. event \in JournalRow
    BY EventIsRow DEF EventTypes, NoTaskId
  <2>2. event.type = "switch_proposed" /\ event.cmd = cmd
    BY DEF Event
  <2> HIDE DEF event
  <2> QED
    BY <2>1, <2>2 DEF JournalRow
<1> HIDE DEF row, switch
<1>5. new \in Ledger
  BY <1>2, <1>3 DEF Ledger
<1>6. /\ new.journal = l.journal /\ new.rev = l.rev + 1 /\ new.rev > l.rev
      /\ new.active = l.active /\ new.pending = switch /\ new.minted = l.minted
      /\ new.suspended = l.suspended
  BY <1>2 DEF Ledger
<1> HIDE DEF new
<1> QED
  BY <1>1, <1>2, <1>3, <1>4, <1>5, <1>6, AppendWrites

\* The compound: what it parks, clears, begins, and its own row beside them.
ClearedFrom(cleared, parked) ==
  /\ cleared.active = parked.active /\ cleared.suspended = parked.suspended
  /\ cleared.journal = parked.journal /\ cleared.minted = parked.minted
  /\ cleared.pending = NoSwitch /\ cleared.rev = parked.rev + 1

Closes(begun, new, row) ==
  /\ new.active = begun.active /\ new.suspended = begun.suspended
  /\ new.pending = begun.pending /\ new.minted = begun.minted
  /\ new.rev = begun.rev /\ row.seq = begun.rev
  /\ new.journal = begun.journal \cup {row}

Compound(l, now, accepted, begins, b, cmd, new) ==
  LET parked == IF accepted THEN Suspend(l, now, "other") ELSE l
  IN \E cleared, arg, row :
       /\ Sound(parked) /\ Sound(cleared) /\ ClearedFrom(cleared, parked)
       /\ Housed(l) => Housed(parked) /\ Housed(cleared)
       /\ arg \in CallArg /\ arg.agent = l.pending.to
       /\ arg.kind = b.kind /\ arg.payload = b.payload
       /\ Closes(IF begins THEN Begin(cleared, now, arg, NoCmd) ELSE cleared, new, row)
       /\ row.type = (IF accepted THEN "switch_accepted" ELSE "switch_declined")
       /\ row.cmd = cmd /\ row.from = l.pending.from /\ row.to = l.pending.to

LEMMA ResolveStages ==
  ASSUME NEW l, Sound(l), HasSwitch(l), NEW now \in Nat, NEW accepted \in BOOLEAN,
         NEW begins \in BOOLEAN, NEW b \in CallArg, NEW cmd \in Cmds \cup {NoCmd}
  PROVE  Compound(l, now, accepted, begins, b, cmd,
                  Resolve(l, now, accepted, begins, b, cmd))
<1> DEFINE parked == IF accepted THEN Suspend(l, now, "other") ELSE l
           cleared == [parked EXCEPT !.pending = NoSwitch, !.rev = @ + 1,
                                     !.agentType = IF accepted THEN l.pending.to ELSE @]
           arg == [b EXCEPT !.agent = l.pending.to]
           begun == IF begins THEN Begin(cleared, now, arg, NoCmd) ELSE cleared
           suspendedId == IF accepted THEN l.active.id ELSE NoTaskId
           event == Event(IF accepted THEN "switch_accepted" ELSE "switch_declined", cmd,
                          IF begins THEN begun.active.id ELSE suspendedId,
                          l.pending.to, IF begins THEN b.kind ELSE NoKind)
           named == [event EXCEPT !.from = l.pending.from, !.to = l.pending.to,
                                  !.began = begins, !.other = suspendedId]
           row == [named EXCEPT !.seq = begun.rev]
<1>1. Resolve(l, now, accepted, begins, b, cmd) = AppendEvent(begun, named)
  BY DEF Resolve
<1>2. /\ Sound(parked) /\ (Housed(l) => Housed(parked))
      /\ accepted => ~HasActive(parked)
  BY SuspendHoused, SuspendSound
<1>3. l.pending.to \in Agents
  BY DEF HasSwitch, Sound, Typed, Ledger, Switch
<1>4. arg \in CallArg /\ arg.agent = l.pending.to /\ arg.kind = b.kind /\ arg.payload = b.payload
  BY <1>3 DEF CallArg
<1>5. /\ row.type = (IF accepted THEN "switch_accepted" ELSE "switch_declined")
      /\ row.cmd = cmd /\ row.from = l.pending.from /\ row.to = l.pending.to
      /\ row.seq = begun.rev
  BY DEF Event
<1> HIDE DEF parked, named, arg
<1>6. parked \in Ledger /\ parked.rev \in Nat /\ parked.rev + 1 \in Nat
  BY <1>2 DEF Sound, Typed, Ledger
<1>7. /\ ClearedFrom(cleared, parked)
      /\ cleared.agentType = IF accepted THEN l.pending.to ELSE parked.agentType
  BY <1>6 DEF Ledger, ClearedFrom
<1>8. cleared \in Ledger
  <2>1. (IF accepted THEN l.pending.to ELSE parked.agentType) \in Agents \cup {NoAgent}
    BY <1>3, <1>6 DEF Ledger
  <2> QED
    BY <1>6, <2>1, NoSwitchIsSwitch DEF Ledger
<1> HIDE DEF cleared
<1>9. Sound(cleared)
  <2>1. OwnerNamed(cleared)
    BY <1>2, <1>7 DEF OwnerNamed, HasActive, Sound, ClearedFrom
  <2> QED
    BY <1>2, <1>6, <1>7, <1>8, <2>1, QuietSound DEF Sound, Typed, ClearedFrom
<1>10. Housed(l) => Housed(cleared)
  BY <1>2, <1>6, <1>7, <1>9, QuietShrinks, HousedShrinks DEF ClearedFrom
<1>11. begun \in Ledger
  BY <1>4, <1>9, BeginSound DEF Sound, Typed
<1> DEFINE new == AppendEvent(begun, named)
<1> HIDE DEF begun
<1>12. Closes(begun, new, row)
  BY <1>5, <1>11 DEF Closes, AppendEvent, Ledger
<1> HIDE DEF row, new
<1> QED
  BY <1>1, <1>2, <1>4, <1>5, <1>7, <1>9, <1>10, <1>12 DEF Compound, new, begun, parked

\* The sweep's rows: one per entry it takes out, numbered above the revision.
Expired(l, new, now, rows) ==
  LET stale == {t \in l.suspended : Old(t.parkedAt, now, TaskHorizon)} IN
  /\ new.active = l.active /\ new.pending = l.pending /\ new.minted = l.minted
  /\ new.suspended = l.suspended \ stale /\ new.rev \in Nat /\ new.rev >= l.rev
  /\ new.journal = l.journal \cup rows
  /\ \A e \in rows : /\ e.type = "task_expired" /\ e.cmd = NoCmd
                     /\ e.seq \in (l.rev + 1) .. new.rev
                     /\ \E t \in stale : e.task = t.task.id /\ e.agent = t.task.agent

LEMMA ExpireWrites ==
  ASSUME NEW l, Sound(l), NEW now \in Nat
  PROVE  \E rows : Expired(l, ExpireSuspended(l, now), now, rows)
<1> DEFINE stale == {t \in l.suspended : Old(t.parkedAt, now, TaskHorizon)}
           turn(t) == Cardinality({u \in stale : u.pos <= t.pos})
           row(t) == [Event("task_expired", NoCmd, t.task.id, t.task.agent, t.task.kind)
                        EXCEPT !.seq = l.rev + turn(t)]
           rows == {row(t) : t \in stale}
           left == l.suspended \ stale
           rev == l.rev + Cardinality(stale)
           new == [l EXCEPT !.suspended = left, !.rev = rev, !.journal = @ \cup rows]
<1>1. ExpireSuspended(l, now) = new
  BY DEF ExpireSuspended
<1>2. /\ l \in Ledger /\ l.rev \in Nat /\ IsFiniteSet(l.suspended)
      /\ l.suspended \subseteq Parked
  BY DEF Sound, Typed, Ledger
<1>3. stale \subseteq l.suspended
  OBVIOUS
<1>4. IsFiniteSet(stale) /\ Cardinality(stale) \in Nat
  BY <1>2, <1>3, FS_Subset, FS_CardinalityType
<1>5. ASSUME NEW t \in stale
      PROVE  /\ row(t).type = "task_expired" /\ row(t).cmd = NoCmd
             /\ row(t).seq = l.rev + turn(t)
             /\ row(t).task = t.task.id /\ row(t).agent = t.task.agent
  BY DEF Event
<1> HIDE DEF stale
<1>6. ASSUME NEW t \in stale
      PROVE  turn(t) \in 1 .. Cardinality(stale)
  <2> DEFINE upto == {u \in stale : u.pos <= t.pos}
  <2>1. t.pos \in Nat
    BY <1>2, <1>3 DEF Parked
  <2>2. upto \subseteq stale /\ t \in upto
    BY <2>1
  <2> HIDE DEF upto
  <2>3. /\ IsFiniteSet(upto) /\ Cardinality(upto) \in Nat
        /\ Cardinality(upto) <= Cardinality(stale)
    BY <1>4, <2>2, FS_Subset, FS_CardinalityType
  <2>4. Cardinality(upto) # 0
    BY <2>2, <2>3, FS_EmptySet
  <2> QED
    BY <1>4, <2>3, <2>4 DEF upto
<1> HIDE DEF turn, row
<1>7. \A e \in rows : /\ e.type = "task_expired" /\ e.cmd = NoCmd
                      /\ e.seq \in (l.rev + 1) .. rev
                      /\ \E t \in stale : e.task = t.task.id /\ e.agent = t.task.agent
  <2> SUFFICES ASSUME NEW t \in stale
               PROVE  /\ row(t).type = "task_expired" /\ row(t).cmd = NoCmd
                      /\ row(t).seq \in (l.rev + 1) .. rev
                      /\ row(t).task = t.task.id /\ row(t).agent = t.task.agent
    OBVIOUS
  <2>1. turn(t) \in 1 .. Cardinality(stale)
    BY <1>6
  <2> QED
    BY <1>2, <1>4, <1>5, <2>1
<1> HIDE DEF rows, left
<1>8. /\ new.active = l.active /\ new.pending = l.pending /\ new.minted = l.minted
      /\ new.suspended = left /\ new.rev = rev /\ new.journal = l.journal \cup rows
  BY <1>2 DEF Ledger
<1>9. rev \in Nat /\ rev >= l.rev
  BY <1>2, <1>4
<1> HIDE DEF new, rev
<1> QED
  BY <1>1, <1>7, <1>8, <1>9 DEF Expired, stale, left

\* The writes without a row.
Quiet(l, new) ==
  /\ new.active = l.active /\ new.minted = l.minted /\ new.journal = l.journal
  /\ new.suspended \subseteq l.suspended /\ new.pending \in {l.pending, NoSwitch}
  /\ new.rev \in Nat /\ new.rev >= l.rev

LEMMA QuietWrites ==
  ASSUME NEW l, Sound(l), NEW now, NEW t
  PROVE  Quiet(l, Drop(l, t)) /\ Quiet(l, DropRedundant(l)) /\ Quiet(l, DropStaleSwitch(l, now))
<1>1. l \in Ledger /\ l.rev \in Nat
  BY RevisionIsNumber
<1>2. Quiet(l, Drop(l, t))
  BY <1>1 DEF Drop, Quiet, Ledger
<1>3. Quiet(l, DropRedundant(l))
  <2> DEFINE kept == {u \in l.suspended : ~Redundant(l.active, u)}
             new == [l EXCEPT !.suspended = kept, !.rev = @ + 1]
  <2>1. kept \subseteq l.suspended
    OBVIOUS
  <2>2. DropRedundant(l) = IF kept = l.suspended THEN l ELSE new
    BY DEF DropRedundant
  <2> HIDE DEF kept
  <2>3. Quiet(l, new) /\ Quiet(l, l)
    BY <1>1, <2>1 DEF Quiet, Ledger
  <2> QED
    BY <2>2, <2>3
<1>4. Quiet(l, DropStaleSwitch(l, now))
  BY <1>1 DEF DropStaleSwitch, Quiet, Ledger
<1> QED
  BY <1>2, <1>3, <1>4

LEMMA PhaseWrites ==
  ASSUME NEW l, Sound(l), NEW b
  PROVE  LET new == Phase(l, b) IN
         /\ new.suspended = l.suspended /\ new.pending = l.pending
         /\ new.journal = l.journal /\ new.minted = l.minted /\ new.rev = l.rev + 1
         /\ new.active.agent = b.agent
         /\ l.active.agent = b.agent =>
              new.active.id = l.active.id /\ new.active.started = l.active.started
         /\ l.active.agent # b.agent =>
              new.active.id = NoTaskId /\ new.active.started = Undated
<1> DEFINE base == IF l.active.agent = b.agent THEN l.active
                   ELSE [NoTask EXCEPT !.agent = b.agent]
           kind == IF b.kind = NoKind THEN base.kind ELSE b.kind
           ref == IF b.ref = NoRef THEN base.ref ELSE b.ref
           payload == IF b.payload = "absent" THEN base.payload ELSE Sanitized(kind, b.payload)
           task == [base EXCEPT !.kind = kind, !.ref = ref, !.payload = payload]
           new == [l EXCEPT !.active = task, !.agentType = b.agent, !.rev = @ + 1]
<1>1. Phase(l, b) = new
  BY DEF Phase
<1>2. l \in Ledger /\ l.rev \in Nat /\ l.active \in Task
  BY DEF Sound, Typed, Ledger
<1>3. /\ base.agent = b.agent
      /\ l.active.agent = b.agent => base = l.active
      /\ l.active.agent # b.agent => base.id = NoTaskId /\ base.started = Undated
  BY DEF NoTask
<1> HIDE DEF kind, ref, payload
<1>4. task.agent = base.agent /\ task.id = base.id /\ task.started = base.started
  BY <1>2 DEF Task, NoTask
<1> HIDE DEF task, base
<1>5. /\ new.suspended = l.suspended /\ new.pending = l.pending
      /\ new.journal = l.journal /\ new.minted = l.minted /\ new.rev = l.rev + 1
      /\ new.active = task
  BY <1>2 DEF Ledger
<1> HIDE DEF new
<1> QED
  BY <1>1, <1>3, <1>4, <1>5

LEMMA ResumeWrites ==
  ASSUME NEW l, Sound(l), NEW t
  PROVE  LET new == Resume(l, t) IN
         /\ new.suspended = l.suspended \ {t} /\ new.pending = l.pending
         /\ new.journal = l.journal /\ new.minted = l.minted /\ new.rev = l.rev + 2
         /\ new.active = t.task
  BY RevisionIsNumber DEF Resume, Ledger

-----------------------------------------------------------------------------
(* What a step of the specification does                                   *)

Begins(l, now, new) ==
  \E b \in CallArg, cmd \in Cmds \cup {NoCmd} : new = Begin(l, now, b, cmd)

Completes(l, new) ==
  \E caller \in Agents, type \in EndEvents, id \in Nat, cmd \in Cmds \cup {NoCmd} :
    /\ ~CompleteRefused(l, caller)
    /\ ~StaleTaskIds => id \in {NoTaskId, l.active.id}
    /\ new = Complete(l, caller, type, id, cmd)

Proposes(l, now, new) ==
  \E from \in Agents, to \in Agents, cmd \in Cmds \cup {NoCmd} :
    new = Propose(l, now, from, to, cmd)

Resolves(l, now, begins, new) ==
  \E accepted \in BOOLEAN, b \in CallArg, cmd \in Cmds \cup {NoCmd} :
    /\ HasSwitch(l) /\ (begins => accepted)
    /\ new = Resolve(l, now, accepted, begins, b, cmd)

Transfers(l, now, new) ==
  \E target \in Agents :
    \/ HasSwitch(l) /\ new = HandoffAccept(l, now, target)
    \/ \E current \in Agents : new = HandoffTransfer(l, now, target, current)

\* Everything a transaction of the operation op may write.
Result(op, l, now, new) ==
  \/ op \in {"begin_task", "handoff"} /\ Begins(l, now, new)
  \/ op = "update_phase" /\ \E b \in CallArg : new = Phase(l, b)
  \/ /\ op = "suspend_active" /\ HasActive(l)
     /\ \E why \in {"detour", "other"} : new = Suspend(l, now, why)
  \/ op = "resume_task" /\ \E t \in l.suspended : new = Resume(l, t)
  \/ op = "drop_suspended_task" /\ \E t \in l.suspended : new = Drop(l, t)
  \/ op = "complete_task" /\ Completes(l, new)
  \/ op = "propose_switch" /\ Proposes(l, now, new)
  \/ op = "resolve_switch" /\ Resolves(l, now, FALSE, new)
  \/ op = "accept_switch" /\ Resolves(l, now, TRUE, new)
  \/ op = "handoff" /\ Transfers(l, now, new)
  \/ /\ op \in {"set_pending_question", "clear_pending_question", "sync_agent_type_summary"}
     /\ Quiet(l, new) /\ Sound(new)
  \/ op = "prune_stale_ledger_state" /\ new = Prune(l, now)

Writes(op) == \E new : Result(op, ledger, clock, new) /\ Commit(op, new)
Rests == UNCHANGED ledger /\ collided' \in {"none", collided}

LEMMA NextWrites ==
  ASSUME SoundState, Next
  PROVE  Rests \/ \E op : Writes(op)
<1>1. Sound(ledger) /\ clock \in Nat /\ ledger \in Ledger /\ ledger.rev \in Nat
      /\ ledger.minted \in Nat /\ ledger.active.id \in Nat
  BY DEF SoundState, Sound, Typed, Ledger, Task
<1>2. /\ BeginArgs \subseteq CallArg /\ PhaseArgs \subseteq CallArg
      /\ EndReasons \subseteq EndEvents /\ Enders \subseteq Agents
      /\ SuspendReasons \subseteq {"detour", "other"} /\ SummaryAgents \subseteq Agents
      /\ Proposals \subseteq Agents \X Agents /\ HandoffTargets \subseteq Agents
      /\ Bot0 \in Agents
  BY CallAssumption, AgentAssumption
<1>3. ASSUME NEW op, NEW new, Result(op, ledger, clock, new), Commit(op, new)
      PROVE  \E o : Writes(o)
  BY <1>3 DEF Writes
<1>4. WritesNothing => Rests
  BY DEF WritesNothing, Rests
<1>5. CASE BeginTask
  BY <1>2, <1>3, <1>4, <1>5 DEF BeginTask, Result, Begins
<1>6. CASE UpdatePhase
  BY <1>2, <1>3, <1>6 DEF UpdatePhase, Result
<1>7. CASE SuspendActive
  BY <1>2, <1>3, <1>4, <1>7 DEF SuspendActive, Result
<1>8. CASE ResumeTask
  <2>1. \/ WritesNothing
        \/ \E t \in ledger.suspended : Commit("resume_task", Resume(ledger, t))
    BY <1>8 DEF ResumeTask, First, ResumeMatches
  <2> QED
    BY <1>3, <1>4, <2>1 DEF Result
<1>9. CASE DropSuspendedTask
  <2>1. \/ WritesNothing
        \/ \E t \in ledger.suspended : Commit("drop_suspended_task", Drop(ledger, t))
    BY <1>9 DEF DropSuspendedTask, First, DropMatches
  <2> QED
    BY <1>3, <1>4, <2>1 DEF Result
<1>10. CASE CompleteTask
  <2>1. CASE WritesNothing
    BY <1>4, <2>1
  <2>2. CASE ~WritesNothing
    <3>1. PICK caller \in Enders, cmd \in Cmds \cup {NoCmd}, type \in EndReasons,
               id \in CallerTaskIds :
                 /\ ~CompleteRefused(ledger, caller)
                 /\ Commit("complete_task", Complete(ledger, caller, type, id, cmd))
      BY <1>10, <2>2 DEF CompleteTask
    <3>2. id \in Nat /\ (~StaleTaskIds => id \in {NoTaskId, ledger.active.id})
      BY <1>1 DEF CallerTaskIds, NoTaskId
    <3>3. Completes(ledger, Complete(ledger, caller, type, id, cmd))
      BY <1>2, <3>1, <3>2 DEF Completes
    <3> QED
      BY <1>3, <3>1, <3>3 DEF Result
  <2> QED
    BY <2>1, <2>2
<1>11. CASE ProposeSwitch
  <2>1. CASE WritesNothing
    BY <1>4, <2>1
  <2>2. CASE ~WritesNothing
    <3>1. PICK p \in Proposals, cmd \in Cmds \cup {NoCmd} :
            Commit("propose_switch", Propose(ledger, clock, p[1], p[2], cmd))
      BY <1>11, <2>2 DEF ProposeSwitch
    <3>2. Proposes(ledger, clock, Propose(ledger, clock, p[1], p[2], cmd))
      BY <1>2 DEF Proposes
    <3> QED
      BY <1>3, <3>1, <3>2 DEF Result
  <2> QED
    BY <2>1, <2>2
<1>12. CASE ResolveSwitch
  <2>1. HandoffArg(Bot0, NoRef) \in CallArg
    BY <1>2, HandoffArgs
  <2>2. HasSwitch(ledger) => \A accepted \in BOOLEAN, cmd \in Cmds \cup {NoCmd} :
          Resolves(ledger, clock, FALSE,
                   Resolve(ledger, clock, accepted, FALSE, HandoffArg(Bot0, NoRef), cmd))
    BY <2>1 DEF Resolves
  <2> QED
    BY <1>3, <1>4, <1>12, <2>2 DEF ResolveSwitch, Result
<1>13. CASE AcceptSwitch
  <2>1. HasSwitch(ledger) => \A b \in BeginArgs, cmd \in Cmds \cup {NoCmd} :
          Resolves(ledger, clock, TRUE, Resolve(ledger, clock, TRUE, TRUE, b, cmd))
    BY <1>2 DEF Resolves
  <2> QED
    BY <1>3, <1>4, <1>13, <2>1 DEF AcceptSwitch, Result
<1>14. CASE Handoff
  <2>1. PICK target \in HandoffTargets :
          \/ Commit("handoff", Begin(ledger, clock, HandoffArg(target, NoRef), NoCmd))
          \/ HasSwitch(ledger) /\ Commit("handoff", HandoffAccept(ledger, clock, target))
          \/ WritesNothing
          \/ \E current \in Agents :
               Commit("handoff", HandoffTransfer(ledger, clock, target, current))
    BY <1>14 DEF Handoff
  <2>2. target \in Agents
    BY <1>2
  <2>3. Begins(ledger, clock, Begin(ledger, clock, HandoffArg(target, NoRef), NoCmd))
    BY <2>2, HandoffArgs DEF Begins
  <2>4. HasSwitch(ledger) => Transfers(ledger, clock, HandoffAccept(ledger, clock, target))
    BY <2>2 DEF Transfers
  <2>5. \A current \in Agents :
          Transfers(ledger, clock, HandoffTransfer(ledger, clock, target, current))
    BY <2>2 DEF Transfers
  <2> QED
    BY <1>3, <1>4, <2>1, <2>3, <2>4, <2>5 DEF Result
<1>15. CASE SetPendingQuestion \/ ClearPendingQuestion
  <2>1. ASSUME NEW asked \in BOOLEAN
        PROVE  /\ Quiet(ledger, [ledger EXCEPT !.question = asked, !.rev = @ + 1])
               /\ Sound([ledger EXCEPT !.question = asked, !.rev = @ + 1])
    <3>1. Quiet(ledger, [ledger EXCEPT !.question = asked, !.rev = @ + 1])
      BY <1>1 DEF Quiet, Ledger
    <3> QED
      BY <1>1, <3>1, AskSound
  <2> QED
    BY <1>3, <1>4, <1>15, <2>1 DEF SetPendingQuestion, ClearPendingQuestion, Result
<1>16. CASE SyncAgentTypeSummary
  <2> DEFINE named(agent) == IF HasActive(ledger) THEN ledger.active.agent ELSE agent
  <2>1. ASSUME NEW agent \in SummaryAgents
        PROVE  /\ Quiet(ledger, [ledger EXCEPT !.agentType = named(agent)])
               /\ Sound([ledger EXCEPT !.agentType = named(agent)])
    <3>1. Sound([ledger EXCEPT !.agentType = named(agent)])
      BY <1>1, <1>2, SummarySound
    <3> HIDE DEF named
    <3>2. Quiet(ledger, [ledger EXCEPT !.agentType = named(agent)])
      BY <1>1 DEF Quiet, Ledger
    <3> QED
      BY <3>1, <3>2
  <2>2. \E agent \in SummaryAgents :
          Commit("sync_agent_type_summary", [ledger EXCEPT !.agentType = named(agent)])
    BY <1>16 DEF SyncAgentTypeSummary
  <2> HIDE DEF named
  <2> QED
    BY <1>3, <2>1, <2>2 DEF Result
<1>17. CASE PruneStaleLedgerState
  BY <1>3, <1>17 DEF PruneStaleLedgerState, Result
<1>18. CASE StaleCommand \/ Tick
  BY <1>4, <1>18 DEF StaleCommand, Tick, Rests
<1> QED
  BY <1>5, <1>6, <1>7, <1>8, <1>9, <1>10, <1>11, <1>12, <1>13, <1>14, <1>15, <1>16,
     <1>17, <1>18 DEF Next

-----------------------------------------------------------------------------
(* The journal's story of the ledger                                       *)

\* The list is in the order of its positions.
Queued(l) ==
  \A t \in l.suspended : /\ t.pos <= l.rev
                         /\ \A u \in l.suspended : t.pos = u.pos => t = u

\* update_phase's task of another agent has neither an id nor a date.
Dated(l) == \A t \in LiveTasks(l) : t.id = NoTaskId => t.started = Undated

SwitchEvents == {"switch_proposed", "switch_accepted", "switch_declined"}

\* The pending switch is the last word of the journal on switches.
Matched(l) ==
  /\ \A e \in l.journal : e.type = "switch_accepted" =>
       \E p \in l.journal :
         /\ p.type = "switch_proposed" /\ p.from = e.from /\ p.to = e.to /\ p.seq < e.seq
         /\ \A f \in l.journal : f.type \in SwitchEvents => f.seq <= p.seq \/ f.seq >= e.seq
  /\ HasSwitch(l) =>
       \E p \in l.journal :
         /\ p.type = "switch_proposed" /\ p.from = l.pending.from /\ p.to = l.pending.to
         /\ \A f \in l.journal : f.type \in SwitchEvents => f.seq <= p.seq

IsOpen(l, t) ==
  \E b \in l.journal :
    /\ b.type = "task_began" /\ b.task = t.id /\ b.agent = t.agent
    /\ \A e \in l.journal : e.type \in EndEvents /\ e.task = t.id => e.seq < b.seq

AllOpen(l) == \A t \in LiveTasks(l) : t.id # NoTaskId => IsOpen(l, t)

Story(l) ==
  /\ Housed(l) /\ Queued(l) /\ Dated(l) /\ Matched(l)
  /\ ~StaleTaskIds => AllOpen(l)

LEMMA StoryNumbers ==
  ASSUME NEW l, Housed(l)
  PROVE  /\ Sound(l) /\ Typed(l) /\ l \in Ledger /\ l.rev \in Nat /\ l.minted \in Nat
         /\ l.active \in Task /\ l.active.id \in Nat
         /\ \A t \in l.suspended : t \in Parked /\ t.task.id \in Nat /\ t.pos \in Nat
         /\ \A e \in l.journal : e.seq \in Nat /\ e.seq <= l.rev
  BY DEF Housed, Sound, Typed, RowsBelow, Ledger, Parked, Task

LEMMA NoTaskFields ==
  /\ NoTask.id = NoTaskId /\ NoTask.started = Undated /\ NoTask.agent = NoAgent
  BY DEF NoTask

\* Rows about tasks leave the story of the switches as it is.
LEMMA MatchedApart ==
  ASSUME NEW l, Matched(l), NEW new, new.pending \in {l.pending, NoSwitch},
         l.journal \subseteq new.journal,
         \A e \in new.journal : e \in l.journal \/ e.type \in TaskEvents
  PROVE  Matched(new)
<1>1. \A e \in new.journal : e.type \in SwitchEvents => e \in l.journal
  BY DEF TaskEvents, EndEvents, SwitchEvents
<1>2. HasSwitch(new) => HasSwitch(l) /\ new.pending = l.pending
  BY DEF HasSwitch, NoSwitch
<1> QED
  BY <1>1, <1>2 DEF Matched, SwitchEvents

\* A task stays open as long as no row ends it.
LEMMA OpenStays ==
  ASSUME NEW l, NEW new, NEW t, IsOpen(l, t), l.journal \subseteq new.journal,
         \A e \in new.journal : e \in l.journal \/ e.type \notin EndEvents \/ e.task # t.id
  PROVE  IsOpen(new, t)
  BY DEF IsOpen

LEMMA BeginStory ==
  ASSUME NEW l, Story(l), NEW now \in Nat, NEW b \in CallArg, NEW cmd \in Cmds \cup {NoCmd}
  PROVE  Story(Begin(l, now, b, cmd))
<1> DEFINE new == Begin(l, now, b, cmd)
<1>1. Housed(l) /\ Housed(new)
  BY BeginHoused DEF Story
<1>2. /\ new.active = BegunTask(l, now, b) /\ new.suspended = l.suspended
      /\ new.pending = l.pending /\ new.rev = l.rev + 1
  BY <1>1, StoryNumbers, BeginWrites
<1>3. PICK row : /\ Wrote(l, new, row) /\ row.type = "task_began"
                 /\ row.task = new.active.id /\ row.agent = new.active.agent
  BY <1>1, StoryNumbers, BeginWrites
<1>4. BegunTask(l, now, b).id # NoTaskId
  BY <1>1, StoryNumbers DEF BegunTask, SameLogicalTask, NoTaskId
<1> HIDE DEF new
<1>5. l.rev \in Nat
  BY <1>1, StoryNumbers
<1>6. Queued(new)
  BY <1>1, <1>2, <1>5, StoryNumbers DEF Queued, Story
<1>7. Dated(new)
  BY <1>2, <1>4 DEF Dated, LiveTasks, Story
<1>8. Matched(new)
  BY <1>2, <1>3, MatchedApart DEF Wrote, TaskEvents, Story
<1>9. ASSUME ~StaleTaskIds PROVE AllOpen(new)
  <2> SUFFICES ASSUME NEW t \in LiveTasks(new), t.id # NoTaskId PROVE IsOpen(new, t)
    BY DEF AllOpen
  <2>1. CASE t = new.active
    <3>1. \A e \in new.journal : e.type \in EndEvents => e.seq < row.seq
      BY <1>1, <1>3, <1>5, StoryNumbers DEF Wrote, EndEvents
    <3> QED
      BY <1>3, <2>1, <3>1 DEF IsOpen, Wrote
  <2>2. CASE t # new.active
    <3>1. IsOpen(l, t)
      BY <1>2, <1>9, <2>2 DEF LiveTasks, Story, AllOpen
    <3> QED
      BY <1>3, <3>1, OpenStays DEF Wrote, EndEvents
  <2> QED
    BY <2>1, <2>2
<1> QED
  BY <1>1, <1>6, <1>7, <1>8, <1>9 DEF Story, new

LEMMA QuietStory ==
  ASSUME NEW l, Story(l), NEW new, Housed(new), Quiet(l, new)
  PROVE  Story(new)
<1>1. Queued(new)
  BY StoryNumbers DEF Queued, Story, Quiet
<1>2. Dated(new)
  BY DEF Dated, LiveTasks, Story, Quiet
<1>3. Matched(new)
  BY MatchedApart DEF Story, Quiet
<1>4. ~StaleTaskIds => AllOpen(new)
  BY DEF AllOpen, LiveTasks, IsOpen, Story, Quiet
<1> QED
  BY <1>1, <1>2, <1>3, <1>4 DEF Story

LEMMA PhaseStory ==
  ASSUME NEW l, Story(l), NEW b \in CallArg
  PROVE  Story(Phase(l, b))
<1> DEFINE new == Phase(l, b)
<1>1. Housed(l) /\ Sound(l) /\ l \in Ledger
  BY StoryNumbers DEF Story
<1>2. Housed(new)
  BY <1>1, PhaseSound, PhaseShrinks, HousedShrinks
<1>3. /\ new.suspended = l.suspended /\ new.pending = l.pending
      /\ new.journal = l.journal /\ new.rev = l.rev + 1
      /\ new.active.agent = b.agent
      /\ l.active.agent = b.agent =>
           new.active.id = l.active.id /\ new.active.started = l.active.started
      /\ l.active.agent # b.agent =>
           new.active.id = NoTaskId /\ new.active.started = Undated
  BY <1>1, PhaseWrites
<1> HIDE DEF new
<1>4. Queued(new)
  BY <1>1, <1>3, StoryNumbers DEF Queued, Story
<1>5. Dated(new)
  BY <1>3 DEF Dated, LiveTasks, Story
<1>6. Matched(new)
  BY <1>3, MatchedApart DEF Story
<1>7. ~StaleTaskIds => AllOpen(new)
  BY <1>3 DEF AllOpen, LiveTasks, IsOpen, Story
<1> QED
  BY <1>2, <1>4, <1>5, <1>6, <1>7 DEF Story, new

LEMMA SuspendStory ==
  ASSUME NEW l, Story(l), NEW now \in Nat, NEW why \in {"detour", "other"}
  PROVE  Story(Suspend(l, now, why))
<1> DEFINE new == Suspend(l, now, why)
<1>1. Housed(l) /\ Sound(l) /\ Housed(new)
  BY StoryNumbers, SuspendHoused DEF Story
<1>2. CASE ~HasActive(l)
  BY <1>2 DEF Suspend
<1>3. CASE HasActive(l)
  <2>1. /\ new.active = NoTask /\ new.pending = l.pending
        /\ new.suspended = {t \in l.suspended : ~SamePausedWork(l.active, t)}
                             \cup {Park(l, now, why)}
    BY <1>1, <1>3, SuspendWrites
  <2>2. PICK row : Wrote(l, new, row) /\ row.type = "task_suspended"
    BY <1>1, <1>3, SuspendWrites
  <2>3. Park(l, now, why).task = l.active /\ Park(l, now, why).pos = l.rev + 1
    BY DEF Park
  <2> HIDE DEF new
  <2>4. l.rev \in Nat /\ new.rev > l.rev /\ new.rev \in Nat
    BY <1>1, <2>2, StoryNumbers DEF Wrote
  <2>5. Queued(new)
    BY <1>1, <2>1, <2>3, <2>4, StoryNumbers DEF Queued, Story
  <2>6. Dated(new)
    BY <2>1, <2>3, NoTaskFields DEF Dated, LiveTasks, Story
  <2>7. Matched(new)
    BY <2>1, <2>2, MatchedApart DEF Wrote, TaskEvents, Story
  <2>8. ASSUME ~StaleTaskIds PROVE AllOpen(new)
    <3> SUFFICES ASSUME NEW t \in LiveTasks(new), t.id # NoTaskId PROVE IsOpen(new, t)
      BY DEF AllOpen
    <3>1. IsOpen(l, t)
      BY <2>1, <2>3, <2>8, NoTaskFields DEF LiveTasks, Story, AllOpen
    <3> QED
      BY <2>2, <3>1, OpenStays DEF Wrote, EndEvents
  <2> QED
    BY <1>1, <2>5, <2>6, <2>7, <2>8 DEF Story, new
<1> QED
  BY <1>2, <1>3

LEMMA ResumeStory ==
  ASSUME NEW l, Story(l), NEW t \in l.suspended
  PROVE  Story(Resume(l, t))
<1> DEFINE new == Resume(l, t)
<1>1. Housed(l) /\ Sound(l)
  BY StoryNumbers DEF Story
<1>2. Housed(new)
  BY <1>1, ResumeSound, ResumeHomes, StoryNumbers DEF Housed
<1>3. /\ new.suspended = l.suspended \ {t} /\ new.pending = l.pending
      /\ new.journal = l.journal /\ new.rev = l.rev + 2 /\ new.active = t.task
  BY <1>1, ResumeWrites
<1> HIDE DEF new
<1>4. Queued(new)
  BY <1>1, <1>3, StoryNumbers DEF Queued, Story
<1>5. Dated(new)
  BY <1>3 DEF Dated, LiveTasks, Story
<1>6. Matched(new)
  BY <1>3, MatchedApart DEF Story
<1>7. ~StaleTaskIds => AllOpen(new)
  BY <1>3 DEF AllOpen, LiveTasks, IsOpen, Story
<1> QED
  BY <1>2, <1>4, <1>5, <1>6, <1>7 DEF Story, new

\* complete_task ends the active task alone, when its caller names no earlier one.
LEMMA CompleteStory ==
  ASSUME NEW l, Story(l), NEW caller \in Agents \cup {NoAgent}, NEW type \in EndEvents,
         NEW id \in Nat, ~StaleTaskIds => id \in {NoTaskId, l.active.id},
         NEW cmd \in Cmds \cup {NoCmd}
  PROVE  Story(Complete(l, caller, type, id, cmd))
<1> DEFINE new == Complete(l, caller, type, id, cmd)
<1>1. Housed(l) /\ Sound(l)
  BY StoryNumbers DEF Story
<1>2. Housed(new)
  BY <1>1, CompleteSound, CompleteShrinks, HousedShrinks, StoryNumbers
<1>3. /\ new.active = NoTask /\ new.pending = NoSwitch /\ new.suspended = l.suspended
  <2>1. Complete(l, caller, type, id, cmd).active = NoTask
    BY <1>1, CompleteWrites
  <2>2. Complete(l, caller, type, id, cmd).pending = NoSwitch
    BY <1>1, CompleteWrites
  <2>3. Complete(l, caller, type, id, cmd).suspended = l.suspended
    BY <1>1, CompleteWrites
  <2> QED
    BY <2>1, <2>2, <2>3
<1>4. PICK row : /\ Wrote(l, new, row) /\ row.type = type
                 /\ row.task = IF id # NoTaskId THEN id ELSE l.active.id
  BY <1>1, CompleteWrites
<1> HIDE DEF new
<1>5. Queued(new)
  BY <1>1, <1>3, <1>4, StoryNumbers DEF Queued, Story, Wrote
<1>6. Dated(new)
  BY <1>3, NoTaskFields DEF Dated, LiveTasks, Story
<1>7. Matched(new)
  BY <1>3, <1>4, MatchedApart DEF Wrote, TaskEvents, Story
<1>8. ASSUME ~StaleTaskIds PROVE AllOpen(new)
  <2> SUFFICES ASSUME NEW t \in LiveTasks(new), t.id # NoTaskId PROVE IsOpen(new, t)
    BY DEF AllOpen
  <2>1. PICK u \in l.suspended : t = u.task
    BY <1>3, NoTaskFields DEF LiveTasks
  <2>2. row.task # t.id
    BY <1>1, <1>4, <1>8, <2>1 DEF Housed, Homes, OneHome
  <2>3. IsOpen(l, t)
    BY <1>8, <2>1 DEF LiveTasks, Story, AllOpen
  <2> QED
    BY <1>4, <2>2, <2>3, OpenStays DEF Wrote
<1> QED
  BY <1>2, <1>5, <1>6, <1>7, <1>8 DEF Story, new

LEMMA ProposeStory ==
  ASSUME NEW l, Story(l), NEW now \in Nat, NEW from \in Agents, NEW to \in Agents,
         NEW cmd \in Cmds \cup {NoCmd}
  PROVE  Story(Propose(l, now, from, to, cmd))
<1> DEFINE new == Propose(l, now, from, to, cmd)
<1>1. Housed(l) /\ Sound(l)
  BY StoryNumbers DEF Story
<1>2. Housed(new)
  BY <1>1, ProposeSound, ProposeShrinks, HousedShrinks, StoryNumbers
<1>3. /\ new.active = l.active /\ new.suspended = l.suspended
      /\ new.pending.from = from /\ new.pending.to = to
  BY <1>1, ProposeWrites
<1>4. PICK row : /\ Wrote(l, new, row) /\ row.type = "switch_proposed"
                 /\ row.from = from /\ row.to = to
  BY <1>1, ProposeWrites
<1> HIDE DEF new
<1>5. Queued(new)
  BY <1>1, <1>3, <1>4, StoryNumbers DEF Queued, Story, Wrote
<1>6. Dated(new)
  BY <1>3 DEF Dated, LiveTasks, Story
<1>7. Matched(new)
  <2>1. \A f \in new.journal : f.seq \in Nat /\ f.seq <= row.seq
    BY <1>1, <1>4, StoryNumbers DEF Wrote
  <2>2. \A f \in l.journal : f.seq < row.seq
    BY <1>1, <1>4, StoryNumbers DEF Wrote
  <2>3. ASSUME NEW e \in new.journal, e.type = "switch_accepted"
        PROVE  \E p \in new.journal :
                 /\ p.type = "switch_proposed" /\ p.from = e.from /\ p.to = e.to
                 /\ p.seq < e.seq
                 /\ \A f \in new.journal : f.type \in SwitchEvents =>
                                             f.seq <= p.seq \/ f.seq >= e.seq
    <3>1. e \in l.journal
      BY <1>4, <2>3 DEF Wrote
    <3>2. PICK p \in l.journal :
            /\ p.type = "switch_proposed" /\ p.from = e.from /\ p.to = e.to /\ p.seq < e.seq
            /\ \A f \in l.journal : f.type \in SwitchEvents => f.seq <= p.seq \/ f.seq >= e.seq
      BY <2>3, <3>1 DEF Story, Matched
    <3>3. row.seq >= e.seq
      BY <2>1
    <3> QED
      BY <1>4, <3>2, <3>3 DEF Wrote
  <2>4. \E p \in new.journal :
          /\ p.type = "switch_proposed" /\ p.from = new.pending.from /\ p.to = new.pending.to
          /\ \A f \in new.journal : f.type \in SwitchEvents => f.seq <= p.seq
    BY <1>3, <1>4, <2>1 DEF Wrote
  <2> QED
    BY <2>3, <2>4 DEF Matched
<1>8. ~StaleTaskIds => AllOpen(new)
  BY <1>3, <1>4, OpenStays DEF AllOpen, LiveTasks, Story, Wrote, EndEvents
<1> QED
  BY <1>2, <1>5, <1>6, <1>7, <1>8 DEF Story, new

\* The compound's own row: the switch it answers is the last that was proposed.
LEMMA CloseStory ==
  ASSUME NEW l, Matched(l), HasSwitch(l), NEW begun, Story(begun), begun.pending = NoSwitch,
         l.journal \subseteq begun.journal, l.rev < begun.rev, l.rev \in Nat,
         \A e \in begun.journal : e \in l.journal \/ e.type \in TaskEvents,
         \A e \in l.journal : e.seq \in Nat /\ e.seq <= l.rev,
         NEW new, Housed(new), NEW row, Closes(begun, new, row),
         row.type \in {"switch_accepted", "switch_declined"},
         row.from = l.pending.from, row.to = l.pending.to
  PROVE  Story(new)
<1>1. begun.rev \in Nat
  BY StoryNumbers DEF Story
<1>2. Queued(new)
  BY DEF Queued, Story, Closes
<1>3. Dated(new)
  BY DEF Dated, LiveTasks, Story, Closes
<1>4. Matched(new)
  <2>1. ~HasSwitch(new)
    BY DEF HasSwitch, NoSwitch, Closes
  <2>2. PICK p \in l.journal :
          /\ p.type = "switch_proposed" /\ p.from = row.from /\ p.to = row.to
          /\ \A f \in l.journal : f.type \in SwitchEvents => f.seq <= p.seq
    BY DEF Matched
  <2>3. \A f \in new.journal : f.type \in SwitchEvents => f \in l.journal \/ f = row
    BY DEF Closes, TaskEvents, EndEvents, SwitchEvents
  <2>4. \A f \in l.journal : f.seq < row.seq
    BY <1>1 DEF Closes
  <2>5. ASSUME NEW e \in new.journal, e.type = "switch_accepted"
        PROVE  \E q \in new.journal :
                 /\ q.type = "switch_proposed" /\ q.from = e.from /\ q.to = e.to
                 /\ q.seq < e.seq
                 /\ \A f \in new.journal : f.type \in SwitchEvents =>
                                             f.seq <= q.seq \/ f.seq >= e.seq
    <3>1. CASE e = row
      <4>1. \A f \in new.journal : f.type \in SwitchEvents => f.seq <= p.seq \/ f.seq >= e.seq
        BY <1>1, <2>2, <2>3, <3>1 DEF Closes
      <4> QED
        BY <2>2, <2>4, <3>1, <4>1 DEF Closes
    <3>2. CASE e # row
      <4>1. e \in l.journal
        BY <2>3, <2>5, <3>2 DEF SwitchEvents
      <4>2. PICK q \in l.journal :
              /\ q.type = "switch_proposed" /\ q.from = e.from /\ q.to = e.to /\ q.seq < e.seq
              /\ \A f \in l.journal : f.type \in SwitchEvents =>
                                        f.seq <= q.seq \/ f.seq >= e.seq
        BY <2>5, <4>1 DEF Matched
      <4>3. row.seq >= e.seq
        BY <1>1, <4>1 DEF Closes
      <4> QED
        BY <2>3, <4>2, <4>3 DEF Closes
    <3> QED
      BY <3>1, <3>2
  <2> QED
    BY <2>1, <2>5 DEF Matched
<1>5. ~StaleTaskIds => AllOpen(new)
  BY OpenStays DEF AllOpen, LiveTasks, Story, Closes, EndEvents
<1> QED
  BY <1>2, <1>3, <1>4, <1>5 DEF Story

LEMMA ResolveStory ==
  ASSUME NEW l, Story(l), HasSwitch(l), NEW now \in Nat, NEW accepted \in BOOLEAN,
         NEW begins \in BOOLEAN, NEW b \in CallArg, NEW cmd \in Cmds \cup {NoCmd}
  PROVE  Story(Resolve(l, now, accepted, begins, b, cmd))
<1> DEFINE new == Resolve(l, now, accepted, begins, b, cmd)
           parked == IF accepted THEN Suspend(l, now, "other") ELSE l
<1>1. Housed(l) /\ Housed(new)
  BY ResolveHoused DEF Story
<1>2. PICK cleared, arg, row :
        /\ Housed(parked) /\ Housed(cleared) /\ ClearedFrom(cleared, parked)
        /\ arg \in CallArg /\ arg.agent = l.pending.to
        /\ arg.kind = b.kind /\ arg.payload = b.payload
        /\ Closes(IF begins THEN Begin(cleared, now, arg, NoCmd) ELSE cleared, new, row)
        /\ row.type = (IF accepted THEN "switch_accepted" ELSE "switch_declined")
        /\ row.cmd = cmd /\ row.from = l.pending.from /\ row.to = l.pending.to
  <2>1. Compound(l, now, accepted, begins, b, cmd, new)
    BY <1>1, StoryNumbers, ResolveStages
  <2> QED
    BY <1>1, <2>1 DEF Compound
<1>3. Story(parked)
  BY SuspendStory
<1>4. /\ l.journal \subseteq parked.journal /\ parked.rev \in Nat /\ parked.rev >= l.rev
      /\ \A e \in parked.journal : e \in l.journal \/ e.type \in TaskEvents
  <2>1. CASE accepted /\ HasActive(l)
    <3>1. PICK e : Wrote(l, Suspend(l, now, "other"), e) /\ e.type = "task_suspended"
      BY <1>1, <2>1, SuspendWrites, StoryNumbers
    <3> QED
      BY <1>1, <2>1, <3>1, StoryNumbers DEF Wrote, TaskEvents
  <2>2. CASE ~(accepted /\ HasActive(l))
    <3>1. parked = l
      BY <2>2 DEF Suspend
    <3> QED
      BY <1>1, <3>1, StoryNumbers
  <2> QED
    BY <2>1, <2>2
<1> HIDE DEF parked, new
<1>5. Story(cleared)
  <2>1. Quiet(parked, cleared)
    BY <1>2, <1>4 DEF Quiet, ClearedFrom
  <2> QED
    BY <1>2, <1>3, <2>1, QuietStory
<1> DEFINE begun == IF begins THEN Begin(cleared, now, arg, NoCmd) ELSE cleared
<1>6. Story(begun)
  BY <1>2, <1>5, BeginStory
<1>7. /\ begun.pending = NoSwitch /\ l.journal \subseteq begun.journal /\ l.rev < begun.rev
      /\ \A e \in begun.journal : e \in l.journal \/ e.type \in TaskEvents
  <2>1. CASE begins
    <3> DEFINE started == Begin(cleared, now, arg, NoCmd)
    <3>1. started.pending = NoSwitch /\ started.rev = cleared.rev + 1
      BY <1>2, BeginWrites, StoryNumbers DEF ClearedFrom
    <3>2. PICK e : Wrote(cleared, started, e) /\ e.type = "task_began"
      BY <1>2, BeginWrites, StoryNumbers
    <3> HIDE DEF started
    <3>3. begun = started
      BY <2>1 DEF started
    <3> HIDE DEF begun
    <3> QED
      BY <1>1, <1>2, <1>4, <3>1, <3>2, <3>3, StoryNumbers DEF Wrote, TaskEvents, ClearedFrom
  <2>2. CASE ~begins
    BY <1>1, <1>2, <1>4, <2>2, StoryNumbers DEF ClearedFrom
  <2> QED
    BY <2>1, <2>2
<1>8. l.rev \in Nat /\ Matched(l) /\ \A e \in l.journal : e.seq \in Nat /\ e.seq <= l.rev
  BY <1>1, StoryNumbers DEF Story
<1>9. Closes(begun, new, row) /\ row.type \in {"switch_accepted", "switch_declined"}
  BY <1>2
<1> HIDE DEF begun
<1>10. Story(new)
  BY <1>1, <1>2, <1>6, <1>7, <1>8, <1>9, CloseStory
<1> QED
  BY <1>10 DEF new

LEMMA HandoffStory ==
  ASSUME NEW l, Story(l), NEW now \in Nat, NEW new, Transfers(l, now, new)
  PROVE  Story(new)
<1>1. PICK target \in Agents :
        \/ HasSwitch(l) /\ new = HandoffAccept(l, now, target)
        \/ \E current \in Agents : new = HandoffTransfer(l, now, target, current)
  BY DEF Transfers
<1>2. /\ HandoffArg(target, HandoffRef[target]) \in CallArg
      /\ HandoffArg(target, NoRef) \in CallArg
  BY HandoffArgs, RefAssumption
<1>3. CASE HasSwitch(l) /\ new = HandoffAccept(l, now, target)
  BY <1>2, <1>3, ResolveStory DEF HandoffAccept
<1>4. ASSUME NEW current \in Agents, new = HandoffTransfer(l, now, target, current)
      PROVE  Story(new)
  <2> DEFINE parked == IF current \notin {target, Bot0} THEN Suspend(l, now, "other") ELSE l
             resolved == IF HasSwitch(parked)
                         THEN Resolve(parked, now, TRUE, FALSE, HandoffArg(target, NoRef), NoCmd)
                         ELSE parked
  <2>1. Story(parked)
    BY SuspendStory
  <2> HIDE DEF parked
  <2>2. Story(resolved)
    BY <1>2, <2>1, ResolveStory
  <2>3. new = IF target = Bot0 THEN resolved
              ELSE Begin(resolved, now, HandoffArg(target, NoRef), NoCmd)
    BY <1>4 DEF HandoffTransfer, parked
  <2> HIDE DEF resolved
  <2> QED
    BY <1>2, <2>2, <2>3, BeginStory
<1> QED
  BY <1>1, <1>3, <1>4

LEMMA ExpireSuspendedStory ==
  ASSUME NEW l, Story(l), NEW now \in Nat
  PROVE  Story(ExpireSuspended(l, now))
<1> DEFINE new == ExpireSuspended(l, now)
           stale == {t \in l.suspended : Old(t.parkedAt, now, TaskHorizon)}
<1>1. Housed(l) /\ Sound(l)
  BY StoryNumbers DEF Story
<1>2. Housed(new)
  BY <1>1, ExpireSuspendedSound, PruneStagesShrink, HousedShrinks, StoryNumbers
<1>3. PICK rows : Expired(l, new, now, rows)
  BY <1>1, ExpireWrites
<1> HIDE DEF new
<1>4. /\ new.active = l.active /\ new.pending = l.pending /\ new.suspended = l.suspended \ stale
      /\ new.rev \in Nat /\ new.rev >= l.rev /\ new.journal = l.journal \cup rows
  BY <1>3 DEF Expired
<1>5. \A e \in rows : e.type = "task_expired" /\ \E t \in stale : e.task = t.task.id
  BY <1>3 DEF Expired
<1>6. stale \subseteq l.suspended
  OBVIOUS
<1> HIDE DEF stale
<1>7. Queued(new)
  BY <1>1, <1>4, StoryNumbers DEF Queued, Story
<1>8. Dated(new)
  BY <1>4 DEF Dated, LiveTasks, Story
<1>9. Matched(new)
  BY <1>4, <1>5, MatchedApart DEF TaskEvents, EndEvents, Story
<1>10. ASSUME ~StaleTaskIds PROVE AllOpen(new)
  <2> SUFFICES ASSUME NEW t \in LiveTasks(new), t.id # NoTaskId PROVE IsOpen(new, t)
    BY DEF AllOpen
  <2>1. IsOpen(l, t)
    BY <1>4, <1>10 DEF LiveTasks, Story, AllOpen
  <2>2. \A u \in stale : u.task.id # t.id
    BY <1>1, <1>4, <1>6 DEF LiveTasks, Housed, Homes, OneHome
  <2> QED
    BY <1>4, <1>5, <2>1, <2>2, OpenStays
<1> QED
  BY <1>2, <1>7, <1>8, <1>9, <1>10 DEF Story, new

\* The stages of the sweep.
LEMMA SweepStory ==
  ASSUME NEW l, Story(l), NEW now \in Nat
  PROVE  LET lean == DropRedundant(l)
             settled == DropStaleSwitch(lean, now)
         IN /\ Story(lean) /\ Quiet(l, lean)
            /\ Story(settled) /\ Quiet(lean, settled)
            /\ Story(ExpireSuspended(settled, now))
<1> DEFINE lean == DropRedundant(l)
           settled == DropStaleSwitch(lean, now)
<1>1. Story(lean) /\ Quiet(l, lean)
  <2>1. Housed(l) /\ Sound(l) /\ l \in Ledger
    BY StoryNumbers DEF Story
  <2>2. Housed(lean) /\ Quiet(l, lean)
    BY <2>1, DropRedundantSound, PruneStagesShrink, HousedShrinks, QuietWrites
  <2> HIDE DEF lean
  <2> QED
    BY <2>2, QuietStory
<1> HIDE DEF lean
<1>2. Story(settled) /\ Quiet(lean, settled)
  <2>1. Housed(lean) /\ Sound(lean) /\ lean \in Ledger
    BY <1>1, StoryNumbers DEF Story
  <2>2. Housed(settled) /\ Quiet(lean, settled)
    BY <2>1, DropStaleSwitchSound, PruneStagesShrink, HousedShrinks, QuietWrites
  <2> HIDE DEF settled
  <2> QED
    BY <1>1, <2>2, QuietStory
<1> HIDE DEF settled
<1>3. Story(ExpireSuspended(settled, now))
  BY <1>2, ExpireSuspendedStory
<1> QED
  BY <1>1, <1>2, <1>3 DEF settled, lean

LEMMA PruneStory ==
  ASSUME NEW l, Story(l), NEW now \in Nat
  PROVE  Story(Prune(l, now))
<1> DEFINE swept == ExpireSuspended(DropStaleSwitch(DropRedundant(l), now), now)
<1>1. Prune(l, now) = ExpireActive(swept, now)
  BY DEF Prune
<1>2. Story(swept)
  BY SweepStory
<1> HIDE DEF swept
<1>3. swept.active.agent \in Agents \cup {NoAgent}
  BY <1>2, StoryNumbers DEF Story, Task
<1>4. Story(Complete(swept, swept.active.agent, "task_expired", NoTaskId, NoCmd))
  BY <1>2, <1>3, CompleteStory DEF NoTaskId, EndEvents
<1> QED
  BY <1>1, <1>2, <1>4 DEF ExpireActive

LEMMA ResultStory ==
  ASSUME NEW l, Story(l), NEW now \in Nat, NEW op, NEW new, Result(op, l, now, new)
  PROVE  Story(new)
<1>1. CASE Begins(l, now, new)
  BY <1>1, BeginStory DEF Begins
<1>2. CASE \E b \in CallArg : new = Phase(l, b)
  BY <1>2, PhaseStory
<1>3. CASE \E why \in {"detour", "other"} : new = Suspend(l, now, why)
  BY <1>3, SuspendStory
<1>4. CASE \E t \in l.suspended : new = Resume(l, t)
  BY <1>4, ResumeStory
<1>5. CASE \E t \in l.suspended : new = Drop(l, t)
  <2>1. PICK t \in l.suspended : new = Drop(l, t)
    BY <1>5
  <2>2. Housed(l) /\ Sound(l) /\ l \in Ledger
    BY StoryNumbers DEF Story
  <2>3. Housed(new) /\ Quiet(l, new)
    BY <2>1, <2>2, DropSound, DropShrinks, HousedShrinks, QuietWrites
  <2> QED
    BY <2>3, QuietStory
<1>6. CASE Completes(l, new)
  BY <1>6, CompleteStory DEF Completes
<1>7. CASE Proposes(l, now, new)
  BY <1>7, ProposeStory DEF Proposes
<1>8. CASE Resolves(l, now, FALSE, new) \/ Resolves(l, now, TRUE, new)
  BY <1>8, ResolveStory DEF Resolves
<1>9. CASE Transfers(l, now, new)
  BY <1>9, HandoffStory
<1>10. CASE Quiet(l, new) /\ Sound(new)
  <2>1. Housed(new)
    BY <1>10, QuietShrinks, HousedShrinks, StoryNumbers DEF Quiet, Story
  <2> QED
    BY <1>10, <2>1, QuietStory
<1>11. CASE new = Prune(l, now)
  BY <1>11, PruneStory
<1> QED
  BY <1>1, <1>2, <1>3, <1>4, <1>5, <1>6, <1>7, <1>8, <1>9, <1>10, <1>11 DEF Result

-----------------------------------------------------------------------------
(* The invariant                                                           *)

StoryState ==
  SoundState /\ Story(ledger) /\ JournalKeysUnique(ledger.journal)

LEMMA InitStory == Init => StoryState
<1> SUFFICES ASSUME Init PROVE StoryState
  OBVIOUS
<1>1. PICK agent \in {NoAgent, Bot0} : ledger = EmptyLedger(agent)
  BY DEF Init
<1>2. /\ ledger.suspended = {} /\ ledger.active = NoTask /\ ledger.journal = {}
      /\ ledger.pending = NoSwitch
  BY <1>1 DEF EmptyLedger
<1>3. Queued(ledger) /\ Dated(ledger) /\ Matched(ledger) /\ AllOpen(ledger)
  BY <1>2, NoTaskFields DEF Queued, Dated, Matched, AllOpen, LiveTasks, HasSwitch, NoSwitch
<1>4. JournalKeysUnique(ledger.journal)
  BY <1>2 DEF JournalKeysUnique
<1> QED
  BY <1>3, <1>4, InitSound, InitHoused DEF StoryState, Story

LEMMA NextStory ==
  ASSUME StoryState, Next
  PROVE  Story(ledger') /\ JournalKeysUnique(ledger'.journal)
<1>1. CASE Rests
  BY <1>1 DEF Rests, StoryState
<1>2. ASSUME NEW op, Writes(op)
      PROVE  Story(ledger') /\ JournalKeysUnique(ledger'.journal)
  <2>1. PICK new : Result(op, ledger, clock, new) /\ Commit(op, new)
    BY <1>2 DEF Writes
  <2>2. Story(new)
    BY <2>1, ResultStory DEF StoryState, SoundState
  <2> QED
    BY <2>1, <2>2 DEF Commit, StoryState
<1> QED
  BY <1>1, <1>2, NextWrites DEF StoryState

LEMMA StoryAlways == Spec => []StoryState
<1>1. StoryState /\ [Next]_vars => StoryState'
  <2> SUFFICES ASSUME StoryState, [Next]_vars PROVE StoryState'
    OBVIOUS
  <2>1. /\ Story(ledger)' <=> Story(ledger')
        /\ JournalKeysUnique(ledger.journal)' <=> JournalKeysUnique(ledger'.journal)
    BY DEF Story, Housed, Sound, Typed, OwnerNamed, HasActive, RowsBelow, Homes, IdsMinted,
           OneHome, OneStream, Journaled, RowOf, Queued, Dated, Matched, AllOpen, IsOpen,
           LiveTasks, HasSwitch, JournalKeysUnique
  <2>2. CASE Next
    BY <2>1, <2>2, NextStory, NextSound DEF StoryState
  <2>3. CASE UNCHANGED vars
    <3>1. SoundState'
      BY <2>3 DEF StoryState, SoundState, Sound, Typed, OwnerNamed, HasActive, RowsBelow, vars
    <3> QED
      BY <2>1, <2>3, <3>1 DEF StoryState, vars
  <2> QED
    BY <2>2, <2>3
<1> QED
  BY <1>1, InitStory, PTL DEF Spec

\* resolve_switch, accept_switch and handoff: no switch is accepted that was not
\* proposed between the same agents, and none is accepted twice on one proposal.
THEOREM AcceptedAfterProposed == Spec => []AcceptedWasProposed
<1>1. StoryState => AcceptedWasProposed
  BY DEF StoryState, Story, Matched, AcceptedWasProposed, SwitchEvents
<1> QED
  BY <1>1, StoryAlways, PTL

\* begin_task, complete_task and the sweep: as long as callers complete with the id of
\* the active task or none, the journal has the begin row of every task the projection
\* offers and no later row that ends it.
THEOREM LiveTasksStayOpen == ASSUME ~StaleTaskIds PROVE Spec => []LiveTaskIsOpen
<1>1. StoryState => LiveTaskIsOpen
  BY DEF StoryState, Story, AllOpen, IsOpen, LiveTaskIsOpen
<1> QED
  BY <1>1, StoryAlways, PTL

-----------------------------------------------------------------------------
(* Collisions                                                              *)

Keyed(l) == Story(l) /\ JournalKeysUnique(l.journal)

LEMMA RowKeepsKeys ==
  ASSUME NEW l, Sound(l), JournalKeysUnique(l.journal), NEW row,
         row.seq \in Nat, row.seq > l.rev, row.cmd = NoCmd
  PROVE  JournalKeysUnique(l.journal \cup {row})
<1>1. \A e \in l.journal : e.seq \in Nat /\ e.seq < row.seq
  BY RevisionIsNumber DEF Sound, RowsBelow
<1> QED
  BY <1>1 DEF JournalKeysUnique

\* The sweep's entries expire one after the other, each at a revision of its own,
\* because no two of them stand at one position of the list.
LEMMA ExpireKeepsKeys ==
  ASSUME NEW l, Keyed(l), NEW now \in Nat
  PROVE  JournalKeysUnique(ExpireSuspended(l, now).journal)
<1> DEFINE stale == {t \in l.suspended : Old(t.parkedAt, now, TaskHorizon)}
           upto(t) == {u \in stale : u.pos <= t.pos}
           turn(t) == Cardinality(upto(t))
           row(t) == [Event("task_expired", NoCmd, t.task.id, t.task.agent, t.task.kind)
                        EXCEPT !.seq = l.rev + turn(t)]
           rows == {row(t) : t \in stale}
           left == l.suspended \ stale
           rev == l.rev + Cardinality(stale)
           new == [l EXCEPT !.suspended = left, !.rev = rev, !.journal = @ \cup rows]
<1>1. ExpireSuspended(l, now) = new
  BY DEF ExpireSuspended
<1>2. Housed(l) /\ Sound(l) /\ l \in Ledger /\ l.rev \in Nat
  BY StoryNumbers DEF Keyed, Story
<1>3. new.journal = l.journal \cup rows
  BY <1>2 DEF Ledger
<1>4. IsFiniteSet(stale) /\ stale \subseteq l.suspended
  <2>1. stale \subseteq l.suspended /\ IsFiniteSet(l.suspended)
    BY <1>2 DEF Sound, Typed
  <2> HIDE DEF stale
  <2> QED
    BY <2>1, FS_Subset
<1>5. \A t \in stale : /\ t.pos \in Nat
                       /\ \A u \in stale : t.pos = u.pos => t = u
  BY <1>2, <1>4, StoryNumbers DEF Keyed, Story, Queued
<1> HIDE DEF stale
<1>6. ASSUME NEW t \in stale
      PROVE  IsFiniteSet(upto(t)) /\ Cardinality(upto(t)) \in Nat /\ Cardinality(upto(t)) # 0
  <2>1. upto(t) \subseteq stale /\ upto(t) # {}
    BY <1>5
  <2> HIDE DEF upto
  <2>2. IsFiniteSet(upto(t))
    BY <1>4, <2>1, FS_Subset
  <2> QED
    BY <2>1, <2>2, FS_CardinalityType, FS_EmptySet
<1>7. ASSUME NEW t \in stale, NEW u \in stale, t.pos < u.pos
      PROVE  Cardinality(upto(t)) # Cardinality(upto(u))
  <2>1. upto(t) \subseteq upto(u) /\ u \in upto(u) /\ u \notin upto(t)
    BY <1>5, <1>7
  <2>2. IsFiniteSet(upto(u))
    BY <1>6
  <2> HIDE DEF upto
  <2> QED
    BY <2>1, <2>2, FS_Subset
<1>8. \A t, u \in stale : t # u => turn(t) # turn(u)
  <2> SUFFICES ASSUME NEW t \in stale, NEW u \in stale, t # u
               PROVE  Cardinality(upto(t)) # Cardinality(upto(u))
    OBVIOUS
  <2>1. t.pos < u.pos \/ u.pos < t.pos
    BY <1>5
  <2> HIDE DEF upto
  <2> QED
    BY <1>7, <2>1
<1>9. \A t \in stale : row(t).seq = l.rev + turn(t) /\ row(t).cmd = NoCmd
  BY DEF Event
<1> HIDE DEF upto, row
<1>10. \A t \in stale : turn(t) \in Nat /\ turn(t) > 0
  BY <1>6
<1> HIDE DEF turn
<1>11. \A e \in rows : e.cmd = NoCmd /\ e.seq \in Nat /\ e.seq > l.rev
  BY <1>2, <1>9, <1>10
<1>12. \A e, f \in rows : e # f => e.seq # f.seq
  BY <1>2, <1>8, <1>9, <1>10
<1> HIDE DEF rows, new
<1>13. \A e \in l.journal : e.seq \in Nat /\ e.seq <= l.rev
  BY <1>2, StoryNumbers
<1>14. JournalKeysUnique(l.journal \cup rows)
  <2> SUFFICES ASSUME NEW e \in l.journal \cup rows, NEW f \in l.journal \cup rows, e # f
               PROVE  e.seq # f.seq /\ (e.cmd = f.cmd => e.cmd = NoCmd)
    BY DEF JournalKeysUnique
  <2>1. CASE e \in l.journal /\ f \in l.journal
    BY <2>1 DEF Keyed, JournalKeysUnique
  <2>2. CASE e \in rows /\ f \in rows
    BY <1>11, <1>12, <2>2
  <2>3. CASE \/ e \in rows /\ f \in l.journal
             \/ e \in l.journal /\ f \in rows
    BY <1>2, <1>11, <1>13, <2>3
  <2> QED
    BY <2>1, <2>2, <2>3
<1> QED
  BY <1>1, <1>3, <1>14

LEMMA ResolveKeepsKeys ==
  ASSUME NEW l, Keyed(l), HasSwitch(l), NEW now \in Nat, NEW accepted \in BOOLEAN,
         NEW b \in CallArg
  PROVE  JournalKeysUnique(Resolve(l, now, accepted, FALSE, b, NoCmd).journal)
<1> DEFINE new == Resolve(l, now, accepted, FALSE, b, NoCmd)
           parked == IF accepted THEN Suspend(l, now, "other") ELSE l
<1>1. Housed(l) /\ Sound(l)
  BY StoryNumbers DEF Keyed, Story
<1>2. Compound(l, now, accepted, FALSE, b, NoCmd, new)
  BY <1>1, StoryNumbers, ResolveStages
<1>3. PICK cleared, row : /\ Housed(parked) /\ ClearedFrom(cleared, parked)
                          /\ Closes(cleared, new, row) /\ row.cmd = NoCmd
  BY <1>1, <1>2 DEF Compound
<1>4. JournalKeysUnique(parked.journal)
  <2>1. CASE accepted /\ HasActive(l)
    <3>1. PICK e : Wrote(l, Suspend(l, now, "other"), e) /\ e.cmd = NoCmd
      BY <1>1, <2>1, SuspendWrites
    <3>2. e.seq \in Nat /\ e.seq > l.rev
      BY <3>1 DEF Wrote
    <3> QED
      BY <1>1, <2>1, <3>1, <3>2, RowKeepsKeys DEF Keyed, Wrote
  <2>2. CASE ~(accepted /\ HasActive(l))
    BY <2>2 DEF Suspend, Keyed
  <2> QED
    BY <2>1, <2>2
<1> HIDE DEF new, parked
<1>5. row.seq \in Nat /\ row.seq > parked.rev
  BY <1>3, StoryNumbers DEF ClearedFrom, Closes
<1>6. JournalKeysUnique(parked.journal \cup {row})
  BY <1>3, <1>4, <1>5, RowKeepsKeys DEF Housed
<1> QED
  BY <1>3, <1>6 DEF ClearedFrom, Closes, new

LEMMA PruneKeepsKeys ==
  ASSUME NEW l, Keyed(l), NEW now \in Nat
  PROVE  JournalKeysUnique(Prune(l, now).journal)
<1> DEFINE lean == DropRedundant(l)
           settled == DropStaleSwitch(lean, now)
           swept == ExpireSuspended(settled, now)
<1>1. /\ Story(lean) /\ Quiet(l, lean)
      /\ Story(settled) /\ Quiet(lean, settled) /\ Story(swept)
  BY SweepStory DEF Keyed
<1>2. Prune(l, now) = ExpireActive(swept, now)
  BY DEF Prune
<1> HIDE DEF lean
<1>3. Keyed(settled)
  BY <1>1 DEF Keyed, Quiet
<1> HIDE DEF settled
<1>4. JournalKeysUnique(swept.journal)
  BY <1>3, ExpireKeepsKeys
<1> HIDE DEF swept
<1>5. Housed(swept) /\ Sound(swept) /\ swept.active.agent \in Agents \cup {NoAgent}
  BY <1>1, StoryNumbers DEF Story, Task
<1> DEFINE done == Complete(swept, swept.active.agent, "task_expired", NoTaskId, NoCmd)
<1>6. PICK row : Wrote(swept, done, row) /\ row.cmd = NoCmd
  BY <1>5, CompleteWrites DEF NoTaskId, EndEvents
<1> HIDE DEF done
<1>7. row.seq \in Nat /\ row.seq > swept.rev
  BY <1>6 DEF Wrote
<1>8. JournalKeysUnique(done.journal)
  BY <1>4, <1>5, <1>6, <1>7, RowKeepsKeys DEF Wrote
<1> QED
  BY <1>2, <1>4, <1>8 DEF ExpireActive, done

\* Only the accept compound writes two rows at one revision.
LEMMA FreshKeepsKeys ==
  ASSUME Cmds = {}, NEW l, Keyed(l), NEW now \in Nat, NEW op, NEW new,
         Result(op, l, now, new), op \notin {"accept_switch", "handoff"}
  PROVE  JournalKeysUnique(new.journal)
<1>1. Housed(l) /\ Sound(l) /\ Story(l) /\ JournalKeysUnique(l.journal)
  BY StoryNumbers DEF Keyed, Story
<1>2. ASSUME NEW row, Wrote(l, new, row), row.cmd \in Cmds \cup {NoCmd}
      PROVE  JournalKeysUnique(new.journal)
  <2>1. row.seq \in Nat /\ row.seq > l.rev /\ row.cmd = NoCmd
    BY <1>2 DEF Wrote
  <2> QED
    BY <1>1, <1>2, <2>1, RowKeepsKeys DEF Wrote
<1>3. CASE Begins(l, now, new)
  BY <1>1, <1>2, <1>3, BeginWrites DEF Begins
<1>4. CASE \E b \in CallArg : new = Phase(l, b)
  BY <1>1, <1>4, PhaseWrites
<1>5. CASE HasActive(l) /\ \E why \in {"detour", "other"} : new = Suspend(l, now, why)
  BY <1>1, <1>2, <1>5, SuspendWrites
<1>6. CASE \E t \in l.suspended : new = Resume(l, t) \/ new = Drop(l, t)
  <2>1. PICK t \in l.suspended : new = Resume(l, t) \/ new = Drop(l, t)
    BY <1>6
  <2>2. Resume(l, t).journal = l.journal
    BY <1>1, ResumeWrites
  <2>3. Drop(l, t).journal = l.journal
    BY <1>1, QuietWrites DEF Quiet
  <2> QED
    BY <1>1, <2>1, <2>2, <2>3
<1>7. CASE Completes(l, new)
  BY <1>1, <1>2, <1>7, CompleteWrites DEF Completes
<1>8. CASE Proposes(l, now, new)
  BY <1>1, <1>2, <1>8, ProposeWrites DEF Proposes
<1>9. CASE Resolves(l, now, FALSE, new)
  BY <1>9, ResolveKeepsKeys DEF Resolves
<1>10. CASE Quiet(l, new)
  BY <1>1, <1>10 DEF Quiet
<1>11. CASE new = Prune(l, now)
  BY <1>11, PruneKeepsKeys
<1> QED
  BY <1>3, <1>4, <1>5, <1>6, <1>7, <1>8, <1>9, <1>10, <1>11 DEF Result

\* append_control_event's sequence numbers and begin_task's "one event per revision":
\* with a fresh command id for every call, the unique keys of the journal refuse the
\* rows of no operation but the accept compound, which handoff runs too.
THEOREM CollisionsAreAccepts == Spec => []OnlyAcceptCollides
<1> DEFINE Inv == StoryState /\ OnlyAcceptCollides
<1>1. Init => Inv
  BY InitStory DEF Init, OnlyAcceptCollides
<1>2. StoryState /\ OnlyAcceptCollides /\ [Next]_vars => OnlyAcceptCollides'
  <2> SUFFICES ASSUME StoryState, OnlyAcceptCollides, [Next]_vars, Cmds = {}
               PROVE  collided' \in {"none", "accept_switch", "handoff"}
    BY DEF OnlyAcceptCollides
  <2>1. CASE UNCHANGED vars
    BY <2>1 DEF vars, OnlyAcceptCollides
  <2>2. CASE Rests
    BY <2>2 DEF Rests, OnlyAcceptCollides
  <2>3. ASSUME NEW op, Writes(op)
        PROVE  collided' \in {"none", "accept_switch", "handoff"}
    <3>1. PICK new : Result(op, ledger, clock, new) /\ Commit(op, new)
      BY <2>3 DEF Writes
    <3>2. CASE op \in {"accept_switch", "handoff"}
      BY <3>1, <3>2 DEF Commit
    <3>3. CASE op \notin {"accept_switch", "handoff"}
      <4>1. JournalKeysUnique(new.journal)
        BY <3>1, <3>3, FreshKeepsKeys DEF StoryState, SoundState, Keyed
      <4> QED
        BY <3>1, <4>1 DEF Commit
    <3> QED
      BY <3>2, <3>3
  <2> QED
    BY <2>1, <2>2, <2>3, NextWrites DEF StoryState
<1> QED
  BY <1>1, <1>2, StoryAlways, PTL DEF Spec

-----------------------------------------------------------------------------
(* The words of a parked draft                                             *)

Heir(l) ==
  StrandedSeed(l) /\ l.active.kind \in SeedKinds => l.active.payload = "seed"

\* What a write that begins a task leaves.
Bequeaths(l, new) ==
  (\E e \in new.journal : e \notin l.journal /\ e.type = "task_began") => Heir(new)

LEMMA BegunIsHeir ==
  ASSUME NEW l, Sound(l), NEW now \in Nat, NEW b \in CallArg, NEW cmd \in Cmds \cup {NoCmd}
  PROVE  Heir(Begin(l, now, b, cmd))
<1> DEFINE new == Begin(l, now, b, cmd)
<1>1. new.active = BegunTask(l, now, b) /\ new.suspended = l.suspended
  BY BeginWrites
<1> HIDE DEF new
<1>2. StrandedSeed(new) <=> StrandedSeed(l)
  BY <1>1 DEF StrandedSeed
<1>3. new.active.kind = b.kind /\ new.active.payload = BegunPayload(l, b)
  BY <1>1 DEF BegunTask
<1> QED
  BY <1>2, <1>3 DEF Heir, BegunPayload, new

LEMMA ResolveBequeaths ==
  ASSUME NEW l, Housed(l), HasSwitch(l), NEW now \in Nat, NEW accepted \in BOOLEAN,
         NEW begins \in BOOLEAN, NEW b \in CallArg, NEW cmd \in Cmds \cup {NoCmd}
  PROVE  LET new == Resolve(l, now, accepted, begins, b, cmd) IN
         /\ begins => Heir(new)
         /\ ~begins => \A e \in new.journal : e \in l.journal \/ e.type # "task_began"
<1> DEFINE new == Resolve(l, now, accepted, begins, b, cmd)
           parked == IF accepted THEN Suspend(l, now, "other") ELSE l
<1>1. Compound(l, now, accepted, begins, b, cmd, new)
  BY StoryNumbers, ResolveStages
<1>2. PICK cleared, arg, row :
        /\ Housed(cleared) /\ ClearedFrom(cleared, parked) /\ arg \in CallArg
        /\ Closes(IF begins THEN Begin(cleared, now, arg, NoCmd) ELSE cleared, new, row)
        /\ row.type = (IF accepted THEN "switch_accepted" ELSE "switch_declined")
  BY <1>1 DEF Compound
<1>3. \A e \in parked.journal : e \in l.journal \/ e.type # "task_began"
  <2>1. CASE accepted /\ HasActive(l)
    <3>1. PICK e : Wrote(l, Suspend(l, now, "other"), e) /\ e.type = "task_suspended"
      BY <2>1, SuspendWrites, StoryNumbers
    <3> QED
      BY <2>1, <3>1 DEF Wrote
  <2>2. CASE ~(accepted /\ HasActive(l))
    BY <2>2 DEF Suspend
  <2> QED
    BY <2>1, <2>2
<1> HIDE DEF new, parked
<1>4. ASSUME begins PROVE Heir(new)
  <2> DEFINE begun == Begin(cleared, now, arg, NoCmd)
  <2>1. Heir(begun)
    BY <1>2, BegunIsHeir, StoryNumbers
  <2>2. Closes(begun, new, row)
    BY <1>2, <1>4
  <2> HIDE DEF begun
  <2> QED
    BY <2>1, <2>2 DEF Heir, StrandedSeed, Closes
<1>5. ASSUME ~begins PROVE \A e \in new.journal : e \in l.journal \/ e.type # "task_began"
  BY <1>2, <1>3, <1>5 DEF Closes, ClearedFrom
<1> QED
  BY <1>4, <1>5 DEF new

LEMMA HandoffBequeaths ==
  ASSUME NEW l, Story(l), NEW now \in Nat, NEW new, Transfers(l, now, new)
  PROVE  Bequeaths(l, new)
<1>1. PICK target \in Agents :
        \/ HasSwitch(l) /\ new = HandoffAccept(l, now, target)
        \/ \E current \in Agents : new = HandoffTransfer(l, now, target, current)
  BY DEF Transfers
<1>2. /\ HandoffArg(target, HandoffRef[target]) \in CallArg
      /\ HandoffArg(target, NoRef) \in CallArg
  BY HandoffArgs, RefAssumption
<1>3. CASE HasSwitch(l) /\ new = HandoffAccept(l, now, target)
  <2>1. CASE target = Bot0
    BY <1>2, <1>3, <2>1, ResolveBequeaths DEF HandoffAccept, Bequeaths, Story
  <2>2. CASE target # Bot0
    BY <1>2, <1>3, <2>2, ResolveBequeaths DEF HandoffAccept, Bequeaths, Story
  <2> QED
    BY <2>1, <2>2
<1>4. ASSUME NEW current \in Agents, new = HandoffTransfer(l, now, target, current)
      PROVE  Bequeaths(l, new)
  <2> DEFINE parked == IF current \notin {target, Bot0} THEN Suspend(l, now, "other") ELSE l
             resolved == IF HasSwitch(parked)
                         THEN Resolve(parked, now, TRUE, FALSE, HandoffArg(target, NoRef), NoCmd)
                         ELSE parked
  <2>1. Story(parked)
    BY SuspendStory
  <2>2. \A e \in parked.journal : e \in l.journal \/ e.type # "task_began"
    <3>1. CASE parked # l
      <4>1. HasActive(l) /\ parked = Suspend(l, now, "other")
        BY <3>1 DEF Suspend
      <4>2. PICK e : Wrote(l, Suspend(l, now, "other"), e) /\ e.type = "task_suspended"
        BY <4>1, SuspendWrites, StoryNumbers DEF Story
      <4> QED
        BY <4>1, <4>2 DEF Wrote
    <3> QED
      BY <3>1
  <2> HIDE DEF parked
  <2>3. Story(resolved)
    BY <1>2, <2>1, ResolveStory
  <2>4. \A e \in resolved.journal : e \in parked.journal \/ e.type # "task_began"
    BY <1>2, <2>1, ResolveBequeaths DEF Story
  <2>5. new = IF target = Bot0 THEN resolved
              ELSE Begin(resolved, now, HandoffArg(target, NoRef), NoCmd)
    BY <1>4 DEF HandoffTransfer, parked
  <2> HIDE DEF resolved
  <2>6. CASE target = Bot0
    BY <2>2, <2>4, <2>5, <2>6 DEF Bequeaths
  <2>7. CASE target # Bot0
    BY <1>2, <2>3, <2>5, <2>7, BegunIsHeir, StoryNumbers DEF Bequeaths, Story
  <2> QED
    BY <2>6, <2>7
<1> QED
  BY <1>1, <1>3, <1>4

\* The sweep's rows: entries of the list that expire, and the active task, which
\* expires as if its own agent completed it.
LEMMA PruneWrites ==
  ASSUME NEW l, Story(l), NEW now \in Nat
  PROVE  LET new == Prune(l, now)
             lapses == /\ Old(l.active.started, now, TaskHorizon)
                       /\ ~CompleteRefused(l, l.active.agent)
         IN /\ new.active = l.active \/ lapses
            /\ \A e \in new.journal : e \notin l.journal =>
                 /\ e.type = "task_expired"
                 /\ \/ \E t \in l.suspended : e.task = t.task.id
                    \/ lapses /\ e.task = l.active.id /\ e.agent = l.active.agent
            /\ \/ new.active = l.active
               \/ \E e \in new.journal : e \notin l.journal /\ e.task = l.active.id
<1> DEFINE lean == DropRedundant(l)
           settled == DropStaleSwitch(lean, now)
           swept == ExpireSuspended(settled, now)
           lapses == /\ Old(l.active.started, now, TaskHorizon)
                     /\ ~CompleteRefused(l, l.active.agent)
<1>1. /\ Story(lean) /\ Quiet(l, lean)
      /\ Story(settled) /\ Quiet(lean, settled) /\ Story(swept)
  BY SweepStory
<1>2. Prune(l, now) = ExpireActive(swept, now)
  BY DEF Prune
<1>3. Housed(settled) /\ Sound(settled) /\ l.rev \in Nat
  BY <1>1, StoryNumbers DEF Story
<1> HIDE DEF lean, settled
<1>4. PICK rows : Expired(settled, swept, now, rows)
  BY <1>3, ExpireWrites
<1> HIDE DEF swept
<1>5. Housed(swept) /\ Sound(swept) /\ swept.active.agent \in Agents \cup {NoAgent}
  BY <1>1, StoryNumbers DEF Story, Task
<1>6. /\ swept.active = l.active /\ swept.journal = l.journal \cup rows
      /\ settled.suspended \subseteq l.suspended /\ swept.rev \in Nat /\ swept.rev >= l.rev
  BY <1>1, <1>3, <1>4, StoryNumbers DEF Quiet, Expired, Story
<1>7. \A e \in rows : e.type = "task_expired" /\ \E t \in l.suspended : e.task = t.task.id
  BY <1>4, <1>6 DEF Expired
<1>8. CASE ExpireActive(swept, now) = swept
  BY <1>2, <1>6, <1>7, <1>8
<1>9. CASE ExpireActive(swept, now) # swept
  <2> DEFINE done == Complete(swept, swept.active.agent, "task_expired", NoTaskId, NoCmd)
  <2>1. lapses /\ ExpireActive(swept, now) = done
    BY <1>6, <1>9 DEF ExpireActive, CompleteRefused
  <2>2. PICK row : /\ Wrote(swept, done, row) /\ row.type = "task_expired"
                   /\ row.task = swept.active.id /\ row.agent = swept.active.agent
    BY <1>5, CompleteWrites DEF NoTaskId, EndEvents
  <2> HIDE DEF done, lapses
  <2>3. row \notin l.journal
    <3>1. \A e \in l.journal : e.seq <= swept.rev
      BY <1>5, <1>6, StoryNumbers
    <3> QED
      BY <1>6, <2>2, <3>1 DEF Wrote
  <2>4. \A e \in done.journal : e \notin l.journal =>
          /\ e.type = "task_expired"
          /\ \/ \E t \in l.suspended : e.task = t.task.id
             \/ lapses /\ e.task = l.active.id /\ e.agent = l.active.agent
    BY <1>6, <1>7, <2>1, <2>2 DEF Wrote
  <2>5. row \in done.journal /\ row.task = l.active.id
    BY <1>6, <2>2 DEF Wrote
  <2> QED
    BY <1>2, <2>1, <2>3, <2>4, <2>5 DEF lapses
<1> QED
  BY <1>8, <1>9

LEMMA ResultBequeaths ==
  ASSUME NEW l, Story(l), NEW now \in Nat, NEW op, NEW new, Result(op, l, now, new)
  PROVE  Bequeaths(l, new)
<1>1. Housed(l) /\ Sound(l)
  BY StoryNumbers DEF Story
<1>2. ASSUME NEW row, Wrote(l, new, row), row.type # "task_began"
      PROVE  Bequeaths(l, new)
  BY <1>2 DEF Wrote, Bequeaths
<1>3. CASE Begins(l, now, new)
  BY <1>1, <1>3, BegunIsHeir DEF Begins, Bequeaths
<1>4. CASE \E b \in CallArg : new = Phase(l, b)
  BY <1>1, <1>4, PhaseWrites DEF Bequeaths
<1>5. CASE HasActive(l) /\ \E why \in {"detour", "other"} : new = Suspend(l, now, why)
  BY <1>1, <1>2, <1>5, SuspendWrites
<1>6. CASE \E t \in l.suspended : new = Resume(l, t) \/ new = Drop(l, t)
  <2>1. PICK t \in l.suspended : new = Resume(l, t) \/ new = Drop(l, t)
    BY <1>6
  <2>2. Resume(l, t).journal = l.journal
    BY <1>1, ResumeWrites
  <2>3. Drop(l, t).journal = l.journal
    BY <1>1, QuietWrites DEF Quiet
  <2> QED
    BY <2>1, <2>2, <2>3 DEF Bequeaths
<1>7. CASE Completes(l, new)
  <2>1. PICK caller \in Agents, type \in EndEvents, id \in Nat, cmd \in Cmds \cup {NoCmd} :
          new = Complete(l, caller, type, id, cmd)
    BY <1>7 DEF Completes
  <2>2. PICK row : Wrote(l, new, row) /\ row.type = type
    BY <1>1, <2>1, CompleteWrites
  <2>3. row.type # "task_began"
    BY <2>1, <2>2 DEF EndEvents
  <2> QED
    BY <1>2, <2>2, <2>3
<1>8. CASE Proposes(l, now, new)
  <2>1. PICK from \in Agents, to \in Agents, cmd \in Cmds \cup {NoCmd} :
          new = Propose(l, now, from, to, cmd)
    BY <1>8 DEF Proposes
  <2>2. PICK row : Wrote(l, new, row) /\ row.type # "task_began"
    BY <1>1, <2>1, ProposeWrites
  <2> QED
    BY <1>2, <2>2
<1>9. ASSUME NEW begins \in BOOLEAN, Resolves(l, now, begins, new)
      PROVE  Bequeaths(l, new)
  <2>1. PICK accepted \in BOOLEAN, b \in CallArg, cmd \in Cmds \cup {NoCmd} :
          HasSwitch(l) /\ new = Resolve(l, now, accepted, begins, b, cmd)
    BY <1>9 DEF Resolves
  <2>2. begins => Heir(new)
    BY <1>1, <2>1, ResolveBequeaths
  <2>3. ~begins => \A e \in new.journal : e \in l.journal \/ e.type # "task_began"
    BY <1>1, <2>1, ResolveBequeaths
  <2> QED
    BY <2>2, <2>3 DEF Bequeaths
<1>10. CASE Transfers(l, now, new)
  BY <1>10, HandoffBequeaths
<1>11. CASE Quiet(l, new)
  BY <1>11 DEF Quiet, Bequeaths
<1>12. CASE new = Prune(l, now)
  <2>1. \A e \in new.journal : e \notin l.journal => e.type = "task_expired"
    BY <1>12, PruneWrites
  <2> QED
    BY <2>1 DEF Bequeaths
<1> QED
  BY <1>3, <1>4, <1>5, <1>6, <1>7, <1>8, <1>9, <1>10, <1>11, <1>12 DEF Result

\* begin_task: the words of a paused draft reach the next task of the drafting stream,
\* through accept_switch and handoff too (ParkedSeedIsInherited).
THEOREM ParkedWordsAreInherited == Spec => ParkedSeedIsInherited
<1> USE DEF Began, NewRows
<1>1. ASSUME StoryState, Next
      PROVE  Began => Heir(ledger')
  <2>1. CASE Rests
    BY <2>1 DEF Rests
  <2>2. ASSUME NEW op, Writes(op)
        PROVE  Began => Heir(ledger')
    <3>1. PICK new : Result(op, ledger, clock, new) /\ Commit(op, new)
      BY <2>2 DEF Writes
    <3>2. Bequeaths(ledger, new)
      BY <1>1, <3>1, ResultBequeaths DEF StoryState, SoundState
    <3>3. ledger' = new \/ ledger' = ledger
      BY <3>1 DEF Commit
    <3> QED
      BY <3>2, <3>3 DEF Bequeaths
  <2> QED
    BY <1>1, <2>1, <2>2, NextWrites DEF StoryState
<1>2. ASSUME StoryState, UNCHANGED vars
      PROVE  ~Began
  BY <1>2 DEF vars
<1>3. StoryState /\ [Next]_vars =>
        [/\ Began /\ StrandedSeed(ledger')
         /\ ledger'.active.kind \in SeedKinds
         => ledger'.active.payload = "seed"]_vars
  BY <1>1, <1>2 DEF Heir
<1> QED
  BY <1>3, StoryAlways, PTL DEF Spec, ParkedSeedIsInherited

-----------------------------------------------------------------------------
(* Who ends a task                                                         *)

\* A write that journals no end of a task.
Endless(l, new) ==
  /\ l.journal \subseteq new.journal
  /\ \A e \in new.journal : e \in l.journal \/ e.type \notin EndEvents

LEMMA EndlessJoins ==
  ASSUME NEW l, NEW mid, NEW new, Endless(l, mid), Endless(mid, new)
  PROVE  Endless(l, new)
  BY DEF Endless

LEMMA BeginEndless ==
  ASSUME NEW l, Sound(l), NEW now \in Nat, NEW b \in CallArg, NEW cmd \in Cmds \cup {NoCmd}
  PROVE  Endless(l, Begin(l, now, b, cmd))
<1>1. \E row : Wrote(l, Begin(l, now, b, cmd), row) /\ row.type = "task_began"
  BY BeginWrites
<1> QED
  BY <1>1 DEF Endless, Wrote, EndEvents

LEMMA SuspendEndless ==
  ASSUME NEW l, Sound(l), NEW now \in Nat, NEW why \in {"detour", "other"}
  PROVE  Endless(l, Suspend(l, now, why))
<1>1. CASE HasActive(l)
  <2>1. \E row : Wrote(l, Suspend(l, now, why), row) /\ row.type = "task_suspended"
    BY <1>1, SuspendWrites
  <2> QED
    BY <2>1 DEF Endless, Wrote, EndEvents
<1>2. CASE ~HasActive(l)
  BY <1>2 DEF Suspend, Endless
<1> QED
  BY <1>1, <1>2

LEMMA ResolveEndless ==
  ASSUME NEW l, Sound(l), HasSwitch(l), NEW now \in Nat, NEW accepted \in BOOLEAN,
         NEW begins \in BOOLEAN, NEW b \in CallArg, NEW cmd \in Cmds \cup {NoCmd}
  PROVE  Endless(l, Resolve(l, now, accepted, begins, b, cmd))
<1> DEFINE new == Resolve(l, now, accepted, begins, b, cmd)
           parked == IF accepted THEN Suspend(l, now, "other") ELSE l
<1>1. Compound(l, now, accepted, begins, b, cmd, new)
  BY ResolveStages
<1> HIDE DEF new
<1>2. PICK cleared, arg, row :
        /\ Sound(parked) /\ Sound(cleared) /\ ClearedFrom(cleared, parked)
        /\ arg \in CallArg
        /\ Closes(IF begins THEN Begin(cleared, now, arg, NoCmd) ELSE cleared, new, row)
        /\ row.type = (IF accepted THEN "switch_accepted" ELSE "switch_declined")
  BY <1>1 DEF Compound
<1>3. Endless(l, parked)
  BY SuspendEndless DEF Endless
<1>4. Endless(parked, cleared)
  BY <1>2 DEF ClearedFrom, Endless
<1>5. Endless(cleared, IF begins THEN Begin(cleared, now, arg, NoCmd) ELSE cleared)
  BY <1>2, BeginEndless DEF Endless
<1>6. Endless(IF begins THEN Begin(cleared, now, arg, NoCmd) ELSE cleared, new)
  BY <1>2 DEF Closes, Endless, EndEvents
<1> QED
  BY <1>3, <1>4, <1>5, <1>6, EndlessJoins DEF new

LEMMA HandoffEndless ==
  ASSUME NEW l, Story(l), NEW now \in Nat, NEW new, Transfers(l, now, new)
  PROVE  Endless(l, new)
<1>1. Housed(l) /\ Sound(l)
  BY StoryNumbers DEF Story
<1>2. PICK target \in Agents :
        \/ HasSwitch(l) /\ new = HandoffAccept(l, now, target)
        \/ \E current \in Agents : new = HandoffTransfer(l, now, target, current)
  BY DEF Transfers
<1>3. CASE HasSwitch(l) /\ new = HandoffAccept(l, now, target)
  BY <1>1, <1>3, ResolveEndless, HandoffArgs, RefAssumption DEF HandoffAccept
<1>4. ASSUME NEW current \in Agents, new = HandoffTransfer(l, now, target, current)
      PROVE  Endless(l, new)
  <2> DEFINE parked == IF current \notin {target, Bot0} THEN Suspend(l, now, "other") ELSE l
             arg == HandoffArg(target, NoRef)
             resolved == IF HasSwitch(parked)
                         THEN Resolve(parked, now, TRUE, FALSE, arg, NoCmd) ELSE parked
  <2>1. arg \in CallArg
    BY HandoffArgs
  <2>2. Housed(parked) /\ Endless(l, parked)
    BY <1>1, SuspendHoused, SuspendEndless DEF Endless
  <2>3. new = IF target = Bot0 THEN resolved ELSE Begin(resolved, now, arg, NoCmd)
    BY <1>4 DEF HandoffTransfer
  <2> HIDE DEF parked, arg
  <2>4. Housed(resolved) /\ Endless(parked, resolved)
    BY <2>1, <2>2, ResolveHoused, ResolveEndless DEF Endless, Housed
  <2> HIDE DEF resolved
  <2>5. Endless(resolved, new)
    BY <2>1, <2>3, <2>4, BeginEndless DEF Housed, Endless
  <2> QED
    BY <2>2, <2>4, <2>5, EndlessJoins
<1> QED
  BY <1>2, <1>3, <1>4

\* The end of the active task, as NoStolenCompletion judges it.
Rightful(l, new) ==
  \A e \in new.journal :
    /\ e \notin l.journal /\ e.type \in EndEvents
    /\ HasActive(l) /\ ~HasActive(new)
    /\ l.active.kind # NoKind /\ l.active.id = e.task
    => \/ KindOwner[l.active.kind] = NoAgent
       \/ e.agent \in {KindOwner[l.active.kind], Bot0}

LEMMA ResultRightful ==
  ASSUME NEW l, Story(l), NEW now \in Nat, NEW op, NEW new, Result(op, l, now, new)
  PROVE  Rightful(l, new)
<1>1. Housed(l) /\ Sound(l)
  BY StoryNumbers DEF Story
<1>2. CASE Endless(l, new)
  BY <1>2 DEF Endless, Rightful
<1>3. CASE Begins(l, now, new)
  BY <1>1, <1>2, <1>3, BeginEndless DEF Begins
<1>4. CASE \E b \in CallArg : new = Phase(l, b)
  BY <1>1, <1>4, PhaseWrites DEF Rightful
<1>5. CASE HasActive(l) /\ \E why \in {"detour", "other"} : new = Suspend(l, now, why)
  BY <1>1, <1>2, <1>5, SuspendEndless
<1>6. CASE \E t \in l.suspended : new = Resume(l, t) \/ new = Drop(l, t)
  <2>1. PICK t \in l.suspended : new = Resume(l, t) \/ new = Drop(l, t)
    BY <1>6
  <2>2. Resume(l, t).journal = l.journal
    BY <1>1, ResumeWrites
  <2>3. Drop(l, t).journal = l.journal
    BY <1>1, QuietWrites DEF Quiet
  <2> QED
    BY <2>1, <2>2, <2>3 DEF Rightful
<1>7. CASE Completes(l, new)
  <2>1. PICK caller \in Agents, type \in EndEvents, id \in Nat, cmd \in Cmds \cup {NoCmd} :
          ~CompleteRefused(l, caller) /\ new = Complete(l, caller, type, id, cmd)
    BY <1>7 DEF Completes
  <2>2. PICK row : Wrote(l, new, row) /\ row.agent = caller
    BY <1>1, <2>1, CompleteWrites
  <2> QED
    BY <2>1, <2>2 DEF Wrote, CompleteRefused, Rightful
<1>8. CASE Proposes(l, now, new)
  <2>1. PICK from \in Agents, to \in Agents, cmd \in Cmds \cup {NoCmd} :
          new = Propose(l, now, from, to, cmd)
    BY <1>8 DEF Proposes
  <2>2. PICK row : Wrote(l, new, row) /\ row.type = "switch_proposed"
    BY <1>1, <2>1, ProposeWrites
  <2> QED
    BY <1>2, <2>2 DEF Wrote, Endless, EndEvents
<1>9. ASSUME NEW begins \in BOOLEAN, Resolves(l, now, begins, new)
      PROVE  Rightful(l, new)
  BY <1>1, <1>2, <1>9, ResolveEndless DEF Resolves
<1>10. CASE Transfers(l, now, new)
  BY <1>2, <1>10, HandoffEndless
<1>11. CASE Quiet(l, new)
  BY <1>11 DEF Quiet, Rightful
<1>12. CASE new = Prune(l, now)
  <2> DEFINE lapses == /\ Old(l.active.started, now, TaskHorizon)
                       /\ ~CompleteRefused(l, l.active.agent)
  <2>1. new.active = l.active \/ lapses
    BY <1>12, PruneWrites
  <2>2. \A e \in new.journal : e \notin l.journal =>
          \/ \E t \in l.suspended : e.task = t.task.id
          \/ lapses /\ e.agent = l.active.agent
    BY <1>12, PruneWrites
  <2>3. l.active.id = NoTaskId => ~lapses
    BY DEF Story, Dated, LiveTasks, Old
  <2>4. \A t \in l.suspended : t.task.id = l.active.id => l.active.id = NoTaskId
    BY <1>1 DEF Housed, Homes, OneHome
  <2>5. lapses => \/ l.active.kind = NoKind \/ KindOwner[l.active.kind] = NoAgent
                  \/ l.active.agent \in {KindOwner[l.active.kind], Bot0}
    BY DEF CompleteRefused
  <2> HIDE DEF lapses
  <2> QED
    BY <2>1, <2>2, <2>3, <2>4, <2>5 DEF Rightful, HasActive
<1> QED
  BY <1>3, <1>4, <1>5, <1>6, <1>7, <1>8, <1>9, <1>10, <1>11, <1>12 DEF Result

\* complete_task, "KindSpec owns who may complete": the owner of the kind or the front
\* door ends the active task of an owned kind, the expiry sweep included
\* (NoStolenCompletion).
THEOREM OwnersComplete == Spec => NoStolenCompletion
<1>1. ASSUME StoryState, Next
      PROVE  Rightful(ledger, ledger')
  <2>1. CASE Rests
    BY <2>1 DEF Rests, Rightful
  <2>2. ASSUME NEW op, Writes(op)
        PROVE  Rightful(ledger, ledger')
    <3>1. PICK new : Result(op, ledger, clock, new) /\ Commit(op, new)
      BY <2>2 DEF Writes
    <3>2. Rightful(ledger, new)
      BY <1>1, <3>1, ResultRightful DEF StoryState, SoundState
    <3>3. ledger' = new \/ ledger' = ledger
      BY <3>1 DEF Commit
    <3> QED
      BY <3>2, <3>3 DEF Rightful
  <2> QED
    BY <1>1, <2>1, <2>2, NextWrites DEF StoryState
<1>2. ASSUME StoryState, UNCHANGED vars
      PROVE  NewRows = {}
  BY <1>2 DEF vars, NewRows
<1>3. StoryState /\ [Next]_vars =>
        [\A e \in NewRows :
           /\ e.type \in EndEvents
           /\ HasActive(ledger) /\ ~HasActive(ledger')
           /\ ledger.active.kind # NoKind /\ ledger.active.id = e.task
           => \/ KindOwner[ledger.active.kind] = NoAgent
              \/ e.agent \in {KindOwner[ledger.active.kind], Bot0}]_vars
  BY <1>1, <1>2 DEF Rightful, NewRows
<1> QED
  BY <1>3, StoryAlways, PTL DEF Spec, NoStolenCompletion

-----------------------------------------------------------------------------
(* What becomes of the active task                                         *)

\* A write keeps a task alive or journals a row that names it.
Kept(l, new, id) ==
  \/ id \in LiveIds(new)
  \/ \E e \in new.journal : e \notin l.journal /\ id \in {e.task, e.other}

LEMMA KeptJoins ==
  ASSUME NEW l, NEW mid, NEW new, NEW id, Kept(l, mid, id),
         id \in LiveIds(mid) => Kept(mid, new, id),
         l.journal \subseteq mid.journal, mid.journal \subseteq new.journal
  PROVE  Kept(l, new, id)
  BY DEF Kept

LEMMA RowIsNew ==
  ASSUME NEW l, Sound(l), NEW new, NEW row, Wrote(l, new, row)
  PROVE  row \in new.journal /\ row \notin l.journal
<1>1. \A e \in l.journal : e.seq \in 1 .. l.rev
  BY DEF Sound, RowsBelow
<1>2. l.rev \in Nat /\ row.seq > l.rev
  BY LedgerNumbers DEF Sound, Typed, Wrote
<1> QED
  BY <1>1, <1>2 DEF Wrote

LEMMA BeginKeeps ==
  ASSUME NEW l, Sound(l), NEW now \in Nat, NEW b \in CallArg, NEW cmd \in Cmds \cup {NoCmd},
         NEW id \in LiveIds(l)
  PROVE  Kept(l, Begin(l, now, b, cmd), id)
<1> DEFINE new == Begin(l, now, b, cmd)
<1>1. new.active = BegunTask(l, now, b)
  BY BeginWrites
<1>2. new.suspended = l.suspended
  BY BeginWrites
<1>3. PICK row : Wrote(l, new, row) /\ row.other = Superseded(l, b)
  BY BeginWrites
<1>4. row \in new.journal /\ row \notin l.journal
  BY <1>3, RowIsNew
<1> SUFFICES Kept(l, new, id)
  OBVIOUS
<1> HIDE DEF new
<1>5. CASE \E t \in l.suspended : id = t.task.id
  BY <1>2, <1>5 DEF Kept, LiveIds, LiveTasks
<1>6. CASE id = l.active.id
  <2>1. CASE SameLogicalTask(l.active, b)
    BY <1>1, <1>6, <2>1 DEF BegunTask, Kept, LiveIds, LiveTasks
  <2>2. CASE ~SameLogicalTask(l.active, b)
    BY <1>3, <1>4, <1>6, <2>2 DEF Superseded, Kept
  <2> QED
    BY <2>1, <2>2
<1> QED
  BY <1>5, <1>6 DEF LiveIds, LiveTasks

LEMMA SuspendKeeps ==
  ASSUME NEW l, Sound(l), NEW now \in Nat, NEW why \in {"detour", "other"},
         l.active.id # NoTaskId
  PROVE  Kept(l, Suspend(l, now, why), l.active.id)
<1>1. CASE HasActive(l)
  <2>1. PICK row : Wrote(l, Suspend(l, now, why), row) /\ row.task = l.active.id
    BY <1>1, SuspendWrites
  <2> QED
    BY <2>1, RowIsNew DEF Kept
<1>2. CASE ~HasActive(l)
  BY <1>2 DEF Suspend, Kept, LiveIds, LiveTasks
<1> QED
  BY <1>1, <1>2

LEMMA ResolveKeeps ==
  ASSUME NEW l, Sound(l), HasSwitch(l), NEW now \in Nat, NEW accepted \in BOOLEAN,
         NEW begins \in BOOLEAN, NEW b \in CallArg, NEW cmd \in Cmds \cup {NoCmd},
         l.active.id # NoTaskId
  PROVE  Kept(l, Resolve(l, now, accepted, begins, b, cmd), l.active.id)
<1> DEFINE new == Resolve(l, now, accepted, begins, b, cmd)
           parked == IF accepted THEN Suspend(l, now, "other") ELSE l
           id == l.active.id
<1>1. Compound(l, now, accepted, begins, b, cmd, new)
  BY ResolveStages
<1> HIDE DEF new
<1>2. PICK cleared, arg, row :
        /\ Sound(parked) /\ Sound(cleared) /\ ClearedFrom(cleared, parked)
        /\ arg \in CallArg
        /\ Closes(IF begins THEN Begin(cleared, now, arg, NoCmd) ELSE cleared, new, row)
  BY <1>1 DEF Compound
<1> DEFINE begun == IF begins THEN Begin(cleared, now, arg, NoCmd) ELSE cleared
<1>3. Kept(l, parked, id) /\ l.journal \subseteq parked.journal
  BY SuspendKeeps, SuspendEndless DEF Kept, LiveIds, LiveTasks, Endless
<1> HIDE DEF parked, id
<1>4. /\ id \in LiveIds(parked) => Kept(parked, cleared, id)
      /\ parked.journal \subseteq cleared.journal
  BY <1>2 DEF ClearedFrom, Kept, LiveIds, LiveTasks
<1>5. /\ id \in LiveIds(cleared) => Kept(cleared, begun, id)
      /\ cleared.journal \subseteq begun.journal
  BY <1>2, BeginKeeps, BeginEndless DEF Kept, Endless
<1>6. Closes(begun, new, row)
  BY <1>2
<1> HIDE DEF begun
<1>7. /\ id \in LiveIds(begun) => Kept(begun, new, id)
      /\ begun.journal \subseteq new.journal
  BY <1>6 DEF Closes, Kept, LiveIds, LiveTasks
<1>8. Kept(l, cleared, id) /\ l.journal \subseteq cleared.journal
  BY <1>3, <1>4, KeptJoins
<1>9. Kept(l, begun, id) /\ l.journal \subseteq begun.journal
  BY <1>5, <1>8, KeptJoins
<1> QED
  BY <1>7, <1>9, KeptJoins DEF new, id

LEMMA HandoffKeeps ==
  ASSUME NEW l, Story(l), NEW now \in Nat, NEW new, Transfers(l, now, new),
         l.active.id # NoTaskId
  PROVE  Kept(l, new, l.active.id)
<1>1. Housed(l) /\ Sound(l)
  BY StoryNumbers DEF Story
<1>2. PICK target \in Agents :
        \/ HasSwitch(l) /\ new = HandoffAccept(l, now, target)
        \/ \E current \in Agents : new = HandoffTransfer(l, now, target, current)
  BY DEF Transfers
<1>3. CASE HasSwitch(l) /\ new = HandoffAccept(l, now, target)
  BY <1>1, <1>3, ResolveKeeps, HandoffArgs, RefAssumption DEF HandoffAccept
<1>4. ASSUME NEW current \in Agents, new = HandoffTransfer(l, now, target, current)
      PROVE  Kept(l, new, l.active.id)
  <2> DEFINE id == l.active.id
             parked == IF current \notin {target, Bot0} THEN Suspend(l, now, "other") ELSE l
             arg == HandoffArg(target, NoRef)
             resolved == IF HasSwitch(parked)
                         THEN Resolve(parked, now, TRUE, FALSE, arg, NoCmd) ELSE parked
  <2>1. arg \in CallArg
    BY HandoffArgs
  <2>2. Housed(parked) /\ l.journal \subseteq parked.journal /\ Kept(l, parked, id)
    BY <1>1, SuspendHoused, SuspendEndless, SuspendKeeps
       DEF Endless, Kept, LiveIds, LiveTasks
  <2>3. new = IF target = Bot0 THEN resolved ELSE Begin(resolved, now, arg, NoCmd)
    BY <1>4 DEF HandoffTransfer
  <2>4. parked = l \/ \E e \in parked.journal : e \notin l.journal /\ e.task = id
    <3>1. CASE HasActive(l) /\ parked = Suspend(l, now, "other")
      <4>1. PICK row : Wrote(l, Suspend(l, now, "other"), row) /\ row.task = id
        BY <1>1, <3>1, SuspendWrites
      <4> QED
        BY <1>1, <3>1, <4>1, RowIsNew
    <3> QED
      BY <3>1 DEF Suspend
  <2> HIDE DEF parked, arg
  <2>5. Housed(resolved) /\ parked.journal \subseteq resolved.journal
    BY <2>1, <2>2, ResolveHoused, ResolveEndless DEF Endless, Housed
  <2>6. parked = l => Kept(l, resolved, id)
    BY <1>1, <2>1, ResolveKeeps DEF Kept, LiveIds, LiveTasks
  <2> HIDE DEF resolved
  <2>7. /\ id \in LiveIds(resolved) => Kept(resolved, new, id)
        /\ resolved.journal \subseteq new.journal
    BY <2>1, <2>3, <2>5, BeginKeeps, BeginEndless DEF Housed, Endless, Kept
  <2>8. CASE parked = l
    BY <2>2, <2>5, <2>6, <2>7, <2>8, KeptJoins
  <2>9. CASE \E e \in parked.journal : e \notin l.journal /\ e.task = id
    BY <2>5, <2>7, <2>9 DEF Kept
  <2> QED
    BY <2>4, <2>8, <2>9
<1> QED
  BY <1>2, <1>3, <1>4

\* The active task after a write, as LossIsJournaled judges it.
Accounted(l, new) ==
  l.active.id # NoTaskId =>
    \/ Kept(l, new, l.active.id)
    \/ new.active \in {t.task : t \in l.suspended}
    \/ HasActive(new) /\ new.active.id = NoTaskId

LEMMA ResultAccounted ==
  ASSUME ~StaleTaskIds, NEW l, Story(l), NEW now \in Nat, NEW op, NEW new,
         Result(op, l, now, new)
  PROVE  Accounted(l, new)
<1>1. Housed(l) /\ Sound(l)
  BY StoryNumbers DEF Story
<1>2. CASE new.active = l.active
  BY <1>2 DEF Accounted, Kept, LiveIds, LiveTasks
<1>3. CASE Begins(l, now, new)
  <2>1. PICK b \in CallArg, cmd \in Cmds \cup {NoCmd} : new = Begin(l, now, b, cmd)
    BY <1>3 DEF Begins
  <2>2. l.active.id # NoTaskId => l.active.id \in LiveIds(l)
    BY DEF LiveIds, LiveTasks
  <2> QED
    BY <1>1, <2>1, <2>2, BeginKeeps DEF Accounted
<1>4. CASE \E b \in CallArg : new = Phase(l, b)
  <2>1. PICK b \in CallArg : new = Phase(l, b)
    BY <1>4
  <2>2. /\ new.active.agent = b.agent
        /\ l.active.agent = b.agent => new.active.id = l.active.id
        /\ l.active.agent # b.agent => new.active.id = NoTaskId
    BY <1>1, <2>1, PhaseWrites
  <2>3. b.agent # NoAgent
    BY AgentAssumption DEF CallArg
  <2> QED
    BY <2>2, <2>3 DEF Accounted, Kept, LiveIds, LiveTasks, HasActive
<1>5. CASE HasActive(l) /\ \E why \in {"detour", "other"} : new = Suspend(l, now, why)
  BY <1>1, <1>5, SuspendKeeps DEF Accounted
<1>6. CASE \E t \in l.suspended : new = Resume(l, t) \/ new = Drop(l, t)
  <2>1. PICK t \in l.suspended : new = Resume(l, t) \/ new = Drop(l, t)
    BY <1>6
  <2>2. Resume(l, t).active = t.task
    BY <1>1, ResumeWrites
  <2>3. Drop(l, t).active = l.active
    BY <1>1, QuietWrites DEF Quiet
  <2> QED
    BY <1>2, <2>1, <2>2, <2>3 DEF Accounted
<1>7. CASE Completes(l, new)
  <2>1. PICK caller \in Agents, type \in EndEvents, id \in Nat, cmd \in Cmds \cup {NoCmd} :
          id \in {NoTaskId, l.active.id} /\ new = Complete(l, caller, type, id, cmd)
    BY <1>7 DEF Completes
  <2>2. PICK row : /\ Wrote(l, new, row)
                   /\ row.task = IF id # NoTaskId THEN id ELSE l.active.id
    BY <1>1, <2>1, CompleteWrites
  <2>3. row \in new.journal /\ row \notin l.journal
    BY <1>1, <2>2, RowIsNew
  <2> QED
    BY <2>1, <2>2, <2>3 DEF Accounted, Kept
<1>8. CASE Proposes(l, now, new)
  <2>1. PICK from \in Agents, to \in Agents, cmd \in Cmds \cup {NoCmd} :
          new = Propose(l, now, from, to, cmd)
    BY <1>8 DEF Proposes
  <2> QED
    BY <1>1, <1>2, <2>1, ProposeWrites
<1>9. ASSUME NEW begins \in BOOLEAN, Resolves(l, now, begins, new)
      PROVE  Accounted(l, new)
  BY <1>1, <1>9, ResolveKeeps DEF Resolves, Accounted
<1>10. CASE Transfers(l, now, new)
  BY <1>10, HandoffKeeps DEF Accounted
<1>11. CASE Quiet(l, new)
  BY <1>2, <1>11 DEF Quiet
<1>12. CASE new = Prune(l, now)
  BY <1>2, <1>12, PruneWrites DEF Accounted, Kept
<1> QED
  BY <1>3, <1>4, <1>5, <1>6, <1>7, <1>8, <1>9, <1>10, <1>11, <1>12 DEF Result

\* begin_task, "displacing a different live task is a supersede": where callers complete
\* with the active task's id, no operation or compound makes a task vanish from the
\* ledger without a row that names it, save resume_task and update_phase over another
\* agent's task (LossIsJournaled).
THEOREM LossesAreJournaled == ASSUME ~StaleTaskIds PROVE Spec => LossIsJournaled
<1>1. ASSUME StoryState, Next
      PROVE  Accounted(ledger, ledger')
  <2>1. CASE Rests
    BY <2>1 DEF Rests, Accounted, Kept, LiveIds, LiveTasks
  <2>2. ASSUME NEW op, Writes(op)
        PROVE  Accounted(ledger, ledger')
    <3>1. PICK new : Result(op, ledger, clock, new) /\ Commit(op, new)
      BY <2>2 DEF Writes
    <3>2. Accounted(ledger, new)
      BY <1>1, <3>1, ResultAccounted DEF StoryState, SoundState
    <3>3. ledger' = new \/ ledger' = ledger
      BY <3>1 DEF Commit
    <3> QED
      BY <3>2, <3>3 DEF Accounted, Kept, LiveIds, LiveTasks
  <2> QED
    BY <1>1, <2>1, <2>2, NextWrites DEF StoryState
<1>2. ASSUME StoryState, UNCHANGED vars
      PROVE  Accounted(ledger, ledger')
  BY <1>2 DEF vars, Accounted, Kept, LiveIds, LiveTasks
<1>3. StoryState /\ [Next]_vars =>
        [/\ ledger.active.id # NoTaskId
         /\ ledger.active.id \notin LiveIds(ledger')
         => \/ \E e \in NewRows : ledger.active.id \in {e.task, e.other}
            \/ Resumed
            \/ PhaseOfAnotherAgent]_vars
  BY <1>1, <1>2 DEF Accounted, Kept, NewRows, Resumed, PhaseOfAnotherAgent
<1> QED
  BY <1>3, StoryAlways, PTL DEF Spec, LossIsJournaled

-----------------------------------------------------------------------------
(* One sweep is enough                                                     *)

\* Nothing is left for the four stages of prune_stale_ledger_state.
Clean(l, now) ==
  /\ \A t \in l.suspended : ~Redundant(l.active, t)
  /\ ~(HasSwitch(l) /\ Old(l.pending.at, now, SwitchTtl))
  /\ \A t \in l.suspended : ~Old(t.parkedAt, now, TaskHorizon)
  /\ ~ /\ HasActive(l)
       /\ Old(l.active.started, now, TaskHorizon)
       /\ ~CompleteRefused(l, l.active.agent)

LEMMA CleanStays ==
  ASSUME NEW l \in Ledger, NEW now, Clean(l, now)
  PROVE  Prune(l, now) = l
<1>1. DropRedundant(l) = l
  <2>1. {t \in l.suspended : ~Redundant(l.active, t)} = l.suspended
    BY DEF Clean
  <2> QED
    BY <2>1 DEF DropRedundant
<1>2. DropStaleSwitch(l, now) = l
  BY DEF Clean, DropStaleSwitch
<1>3. ExpireSuspended(l, now) = l
  <2> DEFINE stale == {t \in l.suspended : Old(t.parkedAt, now, TaskHorizon)}
             turn(t) == Cardinality({u \in stale : u.pos <= t.pos})
             row(t) == [Event("task_expired", NoCmd, t.task.id, t.task.agent, t.task.kind)
                          EXCEPT !.seq = l.rev + turn(t)]
             rows == {row(t) : t \in stale}
  <2>1. stale = {}
    BY DEF Clean
  <2>2. Cardinality(stale) = 0
    BY <2>1, FS_EmptySet
  <2>3. rows = {}
    BY <2>1
  <2>4. ExpireSuspended(l, now) =
          [l EXCEPT !.suspended = @ \ stale, !.rev = @ + Cardinality(stale),
                    !.journal = @ \cup rows]
    BY DEF ExpireSuspended
  <2> HIDE DEF stale, rows
  <2>5. /\ l.suspended \ stale = l.suspended
        /\ l.rev + Cardinality(stale) = l.rev
        /\ l.journal \cup rows = l.journal
    BY <2>1, <2>2, <2>3 DEF Ledger
  <2>6. [l EXCEPT !.suspended = l.suspended, !.rev = l.rev, !.journal = l.journal] = l
    BY DEF Ledger
  <2> QED
    BY <2>4, <2>5, <2>6
<1>4. ExpireActive(l, now) = l
  BY DEF Clean, ExpireActive
<1> QED
  BY <1>1, <1>2, <1>3, <1>4 DEF Prune

LEMMA PruneCleans ==
  ASSUME NEW l, Sound(l), NEW now \in Nat
  PROVE  Prune(l, now) \in Ledger /\ Clean(Prune(l, now), now)
<1> DEFINE lean == DropRedundant(l)
           settled == DropStaleSwitch(lean, now)
           kept == ExpireSuspended(settled, now)
           swept == ExpireActive(kept, now)
<1>1. swept = Prune(l, now) /\ Sound(swept)
  BY PruneSound DEF Prune
<1>2. Sound(lean) /\ Sound(settled) /\ Sound(kept)
  BY DropRedundantSound, DropStaleSwitchSound, ExpireSuspendedSound
<1>3. lean.active = l.active /\ \A t \in lean.suspended : ~Redundant(l.active, t)
  BY DEF DropRedundant, Sound, Typed, Ledger
<1> HIDE DEF lean
<1>4. /\ settled.active = lean.active /\ settled.suspended = lean.suspended
      /\ ~(HasSwitch(settled) /\ Old(settled.pending.at, now, SwitchTtl))
  BY <1>2 DEF DropStaleSwitch, Sound, Typed, Ledger, HasSwitch, NoSwitch
<1> HIDE DEF settled
<1>5. /\ kept.active = settled.active /\ kept.pending = settled.pending
      /\ kept.suspended =
           settled.suspended \ {t \in settled.suspended : Old(t.parkedAt, now, TaskHorizon)}
  BY <1>2, ExpireWrites DEF Expired
<1> HIDE DEF kept
<1>6. /\ swept.suspended = kept.suspended
      /\ \/ /\ swept = kept
            /\ ~ /\ HasActive(kept)
                 /\ Old(kept.active.started, now, TaskHorizon)
                 /\ ~CompleteRefused(kept, kept.active.agent)
         \/ swept.active = NoTask /\ swept.pending = NoSwitch
  <2>1. CASE swept = kept
    BY <2>1, <1>2 DEF ExpireActive, Complete, AppendEvent, Sound, Typed, Ledger,
                      NoTask, HasActive
  <2>2. CASE swept = Complete(kept, kept.active.agent, "task_expired", NoTaskId, NoCmd)
    <3>1. kept.active.agent \in Agents \cup {NoAgent}
      BY <1>2 DEF Sound, Typed, Ledger, Task
    <3>2. "task_expired" \in EndEvents /\ NoTaskId \in Nat
      BY DEF EndEvents, NoTaskId
    <3> HIDE DEF swept
    <3>3. /\ swept.active = NoTask /\ swept.pending = NoSwitch
          /\ swept.suspended = kept.suspended
      BY <1>2, <2>2, <3>1, <3>2, CompleteWrites
    <3> QED
      BY <3>3
  <2> QED
    BY <2>1, <2>2 DEF ExpireActive
<1> HIDE DEF swept
<1>7. \A t \in swept.suspended : ~Old(t.parkedAt, now, TaskHorizon)
  BY <1>5, <1>6
<1>8. CASE swept.active = NoTask /\ swept.pending = NoSwitch
  <2>1. swept.active.agent = NoAgent /\ swept.pending.to = NoAgent
    BY <1>8 DEF NoTask, NoSwitch
  <2>2. \A t \in swept.suspended : ~Redundant(swept.active, t)
    BY <2>1, AgentAssumption DEF Redundant
  <2>3. ~HasActive(swept) /\ ~HasSwitch(swept)
    BY <2>1 DEF HasActive, HasSwitch
  <2> QED
    BY <1>1, <1>7, <2>2, <2>3 DEF Clean, Sound, Typed
<1>9. CASE /\ swept = kept
           /\ ~ /\ HasActive(kept)
                /\ Old(kept.active.started, now, TaskHorizon)
                /\ ~CompleteRefused(kept, kept.active.agent)
  <2>1. \A t \in swept.suspended : ~Redundant(swept.active, t)
    BY <1>3, <1>4, <1>5, <1>9
  <2>2. ~(HasSwitch(swept) /\ Old(swept.pending.at, now, SwitchTtl))
    BY <1>4, <1>5, <1>9 DEF HasSwitch
  <2> QED
    BY <1>1, <1>7, <1>9, <2>1, <2>2 DEF Clean, Sound, Typed
<1> QED
  BY <1>6, <1>8, <1>9

\* prune_stale_ledger_state: of every ledger the operations can produce one sweep leaves
\* what the next sweep at the same time leaves alone, and no expired entry
\* (PruneSettles).
THEOREM OneSweepIsEnough == Spec => []PruneSettles
<1>1. SoundState => PruneSettles
  BY PruneCleans, CleanStays DEF SoundState, PruneSettles, Clean
<1> QED
  BY <1>1, SoundAlways, PTL
=============================================================================
