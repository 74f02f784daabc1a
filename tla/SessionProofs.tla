---------------------------- MODULE SessionProofs ----------------------------
(***************************************************************************)
(* Either way of running a host's sessions, the fence or the turn claim,   *)
(* makes the unlocked reads of a turn harmless, if nobody sweeps between   *)
(* them and their writes.                                                  *)
(*                                                                         *)
(* What a session read has the tasks of the ledger as it is, because turns *)
(* run one at a time or because the fence holds; answers and plan reports, *)
(* which nothing keeps apart, leave the tasks alone.  So its write is what *)
(* the operation would have written in one piece, a step of ControlLedger, *)
(* and everything proved of those steps carries over.                      *)
(***************************************************************************)
EXTENDS LedgerSessions, JournalProofs

\* Every way the host has of running its sessions keeps the turns apart.
HostProtects == \A l \in Laws : KeepsApart(l)

-----------------------------------------------------------------------------
(* Which operations begin a task                                           *)

\* A write whose new rows begin no task.
Discreet(l, new) == \A e \in new.journal : e \in l.journal \/ e.type # "task_began"

LEMMA OneRowDiscreet ==
  ASSUME NEW l, NEW new, NEW row, Wrote(l, new, row), row.type # "task_began"
  PROVE  Discreet(l, new)
  BY DEF Discreet, Wrote

LEMMA ParkingDiscreet ==
  ASSUME NEW l, Sound(l), NEW now \in Nat, NEW why \in {"detour", "other"}
  PROVE  Discreet(l, Suspend(l, now, why))
<1>1. CASE ~HasActive(l)
  BY <1>1 DEF Suspend, Discreet
<1>2. CASE HasActive(l)
  <2>1. PICK row : Wrote(l, Suspend(l, now, why), row) /\ row.type = "task_suspended"
    BY <1>2, SuspendWrites
  <2> QED
    BY <2>1, OneRowDiscreet
<1> QED
  BY <1>1, <1>2

LEMMA EndDiscreet ==
  ASSUME NEW l, Sound(l), NEW caller \in Agents, NEW type \in EndReasons, NEW id \in Nat,
         NEW cmd \in Cmds \cup {NoCmd}
  PROVE  Discreet(l, Complete(l, caller, type, id, cmd))
<1>1. type \in EndEvents /\ type # "task_began"
  BY CallAssumption DEF EndEvents
<1>2. PICK row : Wrote(l, Complete(l, caller, type, id, cmd), row) /\ row.type = type
  BY <1>1, CompleteWrites
<1> QED
  BY <1>1, <1>2, OneRowDiscreet

LEMMA ProposalDiscreet ==
  ASSUME NEW l, Sound(l), NEW now \in Nat, NEW from \in Agents, NEW to \in Agents,
         NEW cmd \in Cmds \cup {NoCmd}
  PROVE  Discreet(l, Propose(l, now, from, to, cmd))
<1>1. PICK row : Wrote(l, Propose(l, now, from, to, cmd), row) /\ row.type = "switch_proposed"
  BY ProposeWrites
<1> QED
  BY <1>1, OneRowDiscreet

LEMMA ResolutionDiscreet ==
  ASSUME NEW l, Sound(l), HasSwitch(l), NEW now \in Nat, NEW accepted \in BOOLEAN,
         NEW b \in CallArg, NEW cmd \in Cmds \cup {NoCmd}
  PROVE  Discreet(l, Resolve(l, now, accepted, FALSE, b, cmd))
<1> DEFINE new == Resolve(l, now, accepted, FALSE, b, cmd)
           parked == IF accepted THEN Suspend(l, now, "other") ELSE l
<1>1. Discreet(l, parked)
  BY ParkingDiscreet DEF Discreet
<1>2. Compound(l, now, accepted, FALSE, b, cmd, new)
  BY ResolveStages
<1> HIDE DEF new, parked
<1>3. PICK cleared, arg, row :
        /\ ClearedFrom(cleared, parked)
        /\ Closes(IF FALSE THEN Begin(cleared, now, arg, NoCmd) ELSE cleared, new, row)
        /\ row.type = (IF accepted THEN "switch_accepted" ELSE "switch_declined")
  BY <1>2 DEF Compound, parked
<1>4. new.journal = parked.journal \cup {row}
  BY <1>3 DEF Closes, ClearedFrom
<1>5. row.type # "task_began"
  BY <1>3
<1> QED
  BY <1>1, <1>4, <1>5 DEF Discreet, new

LEMMA RestDiscreet ==
  ASSUME NEW l, Sound(l), NEW b, NEW t
  PROVE  /\ Discreet(l, Phase(l, b)) /\ Discreet(l, Resume(l, t)) /\ Discreet(l, Drop(l, t))
         /\ \A q : Discreet(l, [l EXCEPT !.question = q, !.rev = @ + 1])
<1>1. Phase(l, b).journal = l.journal
  BY RevisionIsNumber DEF Phase, Ledger
<1>2. Resume(l, t).journal = l.journal /\ Drop(l, t).journal = l.journal
  BY RevisionIsNumber DEF Resume, Drop, Ledger
<1>3. \A q : [l EXCEPT !.question = q, !.rev = @ + 1].journal = l.journal
  BY RevisionIsNumber DEF Ledger
<1> QED
  BY <1>1, <1>2, <1>3 DEF Discreet

\* The operations that lock before they read.
LEMMA LockedDiscreet ==
  ASSUME SoundState,
         \/ UpdatePhase \/ SuspendActive \/ ResumeTask \/ DropSuspendedTask
         \/ CompleteTask \/ ProposeSwitch \/ ResolveSwitch \/ SetPendingQuestion
  PROVE  Discreet(ledger, ledger')
<1>1. /\ Sound(ledger) /\ clock \in Nat /\ ledger.active.id \in Nat /\ ledger.minted \in Nat
      /\ \A op, new : Commit(op, new) /\ Discreet(ledger, new) => Discreet(ledger, ledger')
      /\ WritesNothing => Discreet(ledger, ledger')
  BY DEF SoundState, Sound, Typed, Ledger, Task, Commit, WritesNothing, Discreet
<1>2. CASE UpdatePhase
  BY <1>1, <1>2, RestDiscreet DEF UpdatePhase
<1>3. CASE SuspendActive
  BY <1>1, <1>3, ParkingDiscreet, CallAssumption DEF SuspendActive
<1>4. CASE ResumeTask
  BY <1>1, <1>4, RestDiscreet DEF ResumeTask
<1>5. CASE DropSuspendedTask
  BY <1>1, <1>5, RestDiscreet DEF DropSuspendedTask
<1>6. CASE CompleteTask
  <2>1. CallerTaskIds \subseteq Nat /\ Enders \subseteq Agents
    BY <1>1, CallAssumption DEF CallerTaskIds, NoTaskId
  <2> QED
    BY <1>1, <1>6, <2>1, EndDiscreet DEF CompleteTask
<1>7. CASE ProposeSwitch
  BY <1>1, <1>7, ProposalDiscreet, CallAssumption DEF ProposeSwitch
<1>8. CASE ResolveSwitch
  BY <1>1, <1>8, ResolutionDiscreet, HandoffArgs, AgentAssumption DEF ResolveSwitch
<1>9. CASE SetPendingQuestion
  BY <1>1, <1>9, RestDiscreet DEF SetPendingQuestion
<1> QED
  BY <1>2, <1>3, <1>4, <1>5, <1>6, <1>7, <1>8, <1>9
-----------------------------------------------------------------------------
(* A write over what was read is the operation in one piece                *)

SameTasks(saw, l) == saw.active = l.active /\ saw.suspended = l.suspended

\* Begin_task looks at the tasks of what it read and at nothing else of it.
LEMMA BeginOverSame ==
  ASSUME NEW saw, NEW l, SameTasks(saw, l), saw \in Ledger, l \in Ledger,
         NEW now \in Nat, NEW b \in CallArg
  PROVE  BeginOver(saw, l, now, b, NoCmd) = Begin(l, now, b, NoCmd)
<1> DEFINE held == [saw EXCEPT !.minted = l.minted]
<1>1. saw.active = l.active /\ saw.suspended = l.suspended
  BY DEF SameTasks
<1>2. held.active = l.active /\ held.suspended = l.suspended /\ held.minted = l.minted
  BY <1>1 DEF Ledger
<1> HIDE DEF held
<1>3. BegunPayload(held, b) = BegunPayload(l, b)
  BY <1>2 DEF BegunPayload, StrandedSeed
<1>4. BegunTask(held, now, b) = BegunTask(l, now, b)
  BY <1>2, <1>3 DEF BegunTask
<1>5. [BegunTask(l, now, b) EXCEPT !.started = now] = BegunTask(l, now, b)
  BY DEF BegunTask
<1>6. Superseded(saw, b) = Superseded(l, b)
  BY <1>1 DEF Superseded
<1> QED
  BY <1>1, <1>4, <1>5, <1>6 DEF BeginOver, Begin, held

\* update_plan_task_status, whose plan is not among the control keys of the model, and an
\* answer whose question is gone: the revision moves and nothing else.
PlanWrite == \E op \in Ops : Commit(op, [ledger EXCEPT !.rev = @ + 1])

\* What one session's write does, in one piece.
Replayed ==
  \/ StaleCommand
  \/ \E b \in BeginArgs : Commit("begin_task", Begin(ledger, clock, b, NoCmd))
  \/ SyncAgentTypeSummary
  \/ ClearPendingQuestion
  \/ PlanWrite

\* One turn at a time is between a read and a write, and the tasks it read are there.
ReadsAreCurrent ==
  /\ \A s \in Sessions : InTurn(s) => SameTasks(seen[s], ledger)
  /\ \A r, s \in Sessions : InTurn(r) /\ InTurn(s) => r = s

ReadsAreFenced ==
  \A s \in Sessions : ~Idle(s) => /\ doing[s] \in law.splits
                                  /\ seen[s] \in Ledger /\ Fenced(seen[s], ledger)

SessionTypes ==
  /\ law \in Laws
  /\ doing \in [Sessions -> Unlocked \cup {"none"}]
  /\ seen \in [Sessions -> Ledger \cup {NoLedger}]

SessionState == StoryState /\ SessionTypes /\ ReadsAreCurrent /\ ReadsAreFenced

\* An answer to a question that is gone counts as a write of nothing but the revision.
LEMMA LateAnswer ==
  ASSUME ledger \in Ledger, Commit("clear_pending_question",
                                   [ledger EXCEPT !.question = FALSE, !.rev = @ + 1])
  PROVE  \/ ClearPendingQuestion
         \/ ~ledger.question /\ Commit("clear_pending_question", [ledger EXCEPT !.rev = @ + 1])
<1>1. CASE ledger.question
  BY <1>1 DEF ClearPendingQuestion
<1>2. CASE ~ledger.question
  <2>1. [ledger EXCEPT !.question = FALSE, !.rev = @ + 1] = [ledger EXCEPT !.rev = @ + 1]
    BY <1>2 DEF Ledger
  <2> QED
    BY <1>2, <2>1
<1> QED
  BY <1>1, <1>2

LEMMA WriteIsOneOperation ==
  ASSUME HostProtects, SessionState, NEW s \in Sessions, Write(s)
  PROVE  Replayed
<1>1. /\ ledger \in Ledger /\ Sound(ledger) /\ clock \in Nat /\ BeginArgs \subseteq CallArg
      /\ ~Idle(s) /\ seen[s] \in Ledger /\ Fenced(seen[s], ledger) /\ law \in Laws
      /\ doing[s] \in law.splits
  BY RevisionIsNumber, CallAssumption
     DEF SessionState, StoryState, SoundState, ReadsAreFenced, SessionTypes, Write
<1>2. InTurn(s) => SameTasks(seen[s], ledger)
  BY DEF SessionState, ReadsAreCurrent
<1>3. /\ law.claimed \/ (law.fenced /\ "summary" \notin law.splits)
      /\ "prune" \notin law.splits
  BY <1>1 DEF HostProtects, KeepsApart
<1>4. CASE BeginSplit(s)
  <2>1. PICK b \in BeginArgs :
          \/ FenceHolds(s) /\ Commit("begin_task", BeginOver(seen[s], ledger, clock, b, NoCmd))
          \/ ~FenceHolds(s) /\ WritesNothing
    BY <1>4 DEF BeginSplit
  <2>2. FenceHolds(s) => SameTasks(seen[s], ledger)
    <3>1. CASE law.claimed
      BY <1>2, <1>4, <3>1 DEF BeginSplit, InTurn, UnderClaim
    <3>2. CASE law.fenced
      BY <1>1, <3>2 DEF FenceHolds, Fenced, Ledger, Control, SameTasks
    <3> QED
      BY <1>3, <3>1, <3>2
  <2>3. FenceHolds(s)
        => BeginOver(seen[s], ledger, clock, b, NoCmd) = Begin(ledger, clock, b, NoCmd)
    BY <1>1, <2>2, BeginOverSame
  <2>4. ~FenceHolds(s) => ledger.rev > 0
    BY <1>1 DEF FenceHolds, Fenced, Ledger
  <2> QED
    BY <2>1, <2>3, <2>4 DEF Replayed, StaleCommand
<1>5. CASE PruneSplit(s)
  BY <1>1, <1>3, <1>5 DEF PruneSplit
<1>6. CASE SummarySplit(s)
  <2>1. seen[s].active = ledger.active
    BY <1>1, <1>2, <1>3, <1>6 DEF SummarySplit, InTurn, UnderClaim, SameTasks
  <2> QED
    BY <1>6, <2>1 DEF SummarySplit, Replayed, SyncAgentTypeSummary, HasActive
<1>7. CASE QuestionSplit(s)
  BY <1>1, <1>7, LateAnswer DEF QuestionSplit, Replayed, PlanWrite, Ops
<1>8. CASE PlanSplit(s)
  BY <1>8 DEF PlanSplit, Replayed, PlanWrite, Ops
<1> QED
  BY <1>4, <1>5, <1>6, <1>7, <1>8 DEF Write
-----------------------------------------------------------------------------
(* The invariant                                                           *)

LEMMA StepKeepsStory ==
  ASSUME StoryState, Next \/ PlanWrite
  PROVE  StoryState' /\ Fenced(ledger, ledger')
<1>1. Sound(ledger) /\ ledger \in Ledger /\ ledger.rev \in Nat /\ Housed(ledger) /\ clock \in Nat
  BY RevisionIsNumber DEF StoryState, SoundState, Story
<1>2. CASE Next
  <2>1. SoundState' /\ Fenced(ledger, ledger')
    BY <1>2, NextSound, NextFenced DEF StoryState
  <2>2. Story(ledger') /\ JournalKeysUnique(ledger'.journal)
    BY <1>2, NextStory
  <2> QED
    BY <2>1, <2>2 DEF StoryState, Story
<1>3. CASE PlanWrite
  <2> DEFINE new == [ledger EXCEPT !.rev = @ + 1]
  <2>1. new = [ledger EXCEPT !.question = ledger.question, !.rev = @ + 1]
    BY <1>1 DEF Ledger
  <2>2. ledger.question \in BOOLEAN
    BY <1>1 DEF Ledger
  <2>3. Sound(new)
    BY <1>1, <2>1, <2>2, AskSound
  <2>4. /\ new.active = ledger.active /\ new.minted = ledger.minted
        /\ new.journal = ledger.journal /\ new.suspended = ledger.suspended
        /\ new.pending = ledger.pending /\ new.rev = ledger.rev + 1
    BY <1>1 DEF Ledger
  <2> HIDE DEF new
  <2>5. Quiet(ledger, new) /\ Shrinks(ledger, new)
    BY <1>1, <2>4, QuietShrinks DEF Quiet
  <2>6. Housed(new)
    BY <1>1, <2>3, <2>5, HousedShrinks
  <2>7. Story(new) /\ JournalKeysUnique(new.journal)
    BY <2>4, <2>5, <2>6, QuietStory DEF StoryState
  <2>8. PICK op \in Ops : Commit(op, new)
    BY <1>3 DEF PlanWrite, new
  <2>9. SoundState'
    BY <2>3, <2>8, CommitKeeps DEF StoryState
  <2>10. ledger' = new
    BY <2>7, <2>8 DEF Commit
  <2> QED
    BY <1>1, <2>4, <2>7, <2>9, <2>10 DEF StoryState, Fenced
<1> QED
  BY <1>2, <1>3

LEMMA ReplayedIsStep ==
  ASSUME Replayed
  PROVE  Next \/ PlanWrite
<1>1. ~BeginIsReplay(ledger, NoCmd)
  BY DEF BeginIsReplay, Prior
<1> QED
  BY <1>1 DEF Replayed, Next, BeginTask

LEMMA InitSession == SessionInit => SessionState
<1> SUFFICES ASSUME SessionInit PROVE SessionState
  OBVIOUS
<1>1. StoryState
  BY InitStory DEF SessionInit
<1>2. \A s \in Sessions : Idle(s)
  BY DEF SessionInit, Idle
<1> QED
  BY <1>1, <1>2
     DEF SessionInit, SessionState, SessionTypes, ReadsAreCurrent, ReadsAreFenced,
         Idle, InTurn, UnderClaim

LEMMA ReadKeeps ==
  ASSUME SessionState, NEW s \in Sessions, Read(s)
  PROVE  SessionState'
<1>1. StoryState' /\ ledger' = ledger /\ law' = law
  BY DEF SessionState, StoryState, SoundState, Story, Read
<1>2. /\ Sound(ledger) /\ ledger \in Ledger /\ law \in Law
      /\ seen' = [seen EXCEPT ![s] = ledger]
  BY RevisionIsNumber, SessionAssumption
     DEF SessionState, SessionTypes, StoryState, SoundState, Read
<1>3. PICK op \in law.splits :
        /\ law.claimed /\ op \in UnderClaim => \A r \in Sessions : ~InTurn(r)
        /\ doing' = [doing EXCEPT ![s] = op]
  BY DEF Read
<1>4. op \in Unlocked
  BY <1>2, <1>3 DEF Law
<1>5. SessionTypes'
  BY <1>1, <1>2, <1>3, <1>4 DEF SessionState, SessionTypes
<1>6. /\ seen'[s] = ledger /\ doing'[s] = op
      /\ \A r \in Sessions : r # s => seen'[r] = seen[r] /\ doing'[r] = doing[r]
  BY <1>2, <1>3 DEF SessionState, SessionTypes
<1>7. ReadsAreCurrent'
  BY <1>1, <1>3, <1>6 DEF SessionState, ReadsAreCurrent, InTurn, SameTasks
<1>8. ReadsAreFenced'
  BY <1>1, <1>2, <1>3, <1>6, StillFenced DEF SessionState, ReadsAreFenced, Idle
<1> QED
  BY <1>1, <1>5, <1>7, <1>8 DEF SessionState

\* What a session read stays fenced by any step that leaves its read alone.
LEMMA StillFencedReads ==
  ASSUME SessionState, Fenced(ledger, ledger'), law' = law,
         \A r \in Sessions : Idle(r)' \/ (doing'[r] = doing[r] /\ seen'[r] = seen[r])
  PROVE  ReadsAreFenced'
<1> SUFFICES ASSUME NEW r \in Sessions, ~Idle(r)'
             PROVE  /\ doing'[r] \in law.splits
                    /\ seen'[r] \in Ledger /\ Fenced(seen'[r], ledger')
  BY DEF ReadsAreFenced
<1>1. doing'[r] = doing[r] /\ seen'[r] = seen[r] /\ ~Idle(r)
  BY DEF Idle
<1>2. doing[r] \in law.splits /\ seen[r] \in Ledger /\ Fenced(seen[r], ledger)
  BY <1>1 DEF SessionState, ReadsAreFenced
<1>3. seen[r].rev \in Nat
  BY <1>2 DEF Ledger
<1> QED
  BY <1>1, <1>2, <1>3, FencedJoins

\* A write of another operation than begin_task and the sweep leaves the tasks alone.
LEMMA LightWrites ==
  ASSUME ledger \in Ledger, NEW s \in Sessions,
         SummarySplit(s) \/ QuestionSplit(s) \/ PlanSplit(s)
  PROVE  SameTasks(ledger, ledger')
  BY DEF SummarySplit, QuestionSplit, PlanSplit, Commit, SameTasks, Ledger

LEMMA WriteKeeps ==
  ASSUME HostProtects, SessionState, NEW s \in Sessions, Write(s)
  PROVE  SessionState'
<1>1. StoryState' /\ Fenced(ledger, ledger')
  BY WriteIsOneOperation, ReplayedIsStep, StepKeepsStory DEF SessionState
<1>2. /\ law' = law /\ ~Idle(s)
      /\ doing' = [doing EXCEPT ![s] = "none"] /\ seen' = [seen EXCEPT ![s] = NoLedger]
  BY DEF Write, Finished
<1>3. /\ doing'[s] = "none"
      /\ \A r \in Sessions : r # s => seen'[r] = seen[r] /\ doing'[r] = doing[r]
  BY <1>2 DEF SessionState, SessionTypes
<1>4. SessionTypes'
  BY <1>2 DEF SessionState, SessionTypes
<1>5. ReadsAreCurrent'
  <2>1. \A r \in Sessions : InTurn(r)' => /\ r # s /\ InTurn(r)
                                         /\ seen'[r] = seen[r] /\ SameTasks(seen[r], ledger)
    BY <1>2, <1>3 DEF InTurn, UnderClaim, SessionState, ReadsAreCurrent
  <2>2. ASSUME NEW r \in Sessions, InTurn(r)'
        PROVE  SameTasks(ledger, ledger')
    <3>1. ~InTurn(s)
      BY <2>1, <2>2 DEF SessionState, ReadsAreCurrent
    <3>2. law.claimed /\ doing[s] \notin UnderClaim
      BY <2>1, <2>2, <3>1 DEF InTurn
    <3>3. "prune" \notin law.splits /\ doing[s] \in law.splits
      BY <1>2 DEF HostProtects, KeepsApart, SessionState, SessionTypes, ReadsAreFenced
    <3>4. SummarySplit(s) \/ QuestionSplit(s) \/ PlanSplit(s)
      BY <3>2, <3>3 DEF Write, BeginSplit, PruneSplit, UnderClaim
    <3>5. ledger \in Ledger
      BY RevisionIsNumber DEF SessionState, StoryState, SoundState
    <3> QED
      BY <3>4, <3>5, LightWrites
  <2>3. \A r \in Sessions : InTurn(r)' => SameTasks(seen'[r], ledger')
    BY <2>1, <2>2 DEF SameTasks
  <2>4. \A q, r \in Sessions : InTurn(q)' /\ InTurn(r)' => q = r
    BY <2>1 DEF SessionState, ReadsAreCurrent
  <2> QED
    BY <2>3, <2>4 DEF ReadsAreCurrent
<1>6. ReadsAreFenced'
  BY <1>1, <1>2, <1>3, StillFencedReads DEF Idle
<1> QED
  BY <1>1, <1>4, <1>5, <1>6 DEF SessionState

LEMMA LockedKeeps ==
  ASSUME SessionState, LockedOperation \/ TimePasses
  PROVE  SessionState'
<1>1. Next /\ law' = law /\ doing' = doing /\ seen' = seen
  BY DEF LockedOperation, TimePasses, Next
<1>2. StoryState' /\ Fenced(ledger, ledger')
  BY <1>1, StepKeepsStory DEF SessionState
<1>3. SessionTypes'
  BY <1>1 DEF SessionState, SessionTypes
<1>4. ReadsAreCurrent'
  <2>1. CASE LockedOperation
    BY <1>1, <2>1 DEF LockedOperation, ReadsAreCurrent, InTurn
  <2>2. CASE TimePasses
    BY <1>1, <2>2 DEF SessionState, TimePasses, Tick, ReadsAreCurrent, InTurn, SameTasks
  <2> QED
    BY <2>1, <2>2
<1>5. ReadsAreFenced'
  BY <1>1, <1>2, StillFencedReads
<1> QED
  BY <1>2, <1>3, <1>4, <1>5 DEF SessionState

LEMMA SessionsAlways == ASSUME HostProtects PROVE SessionSpec => []SessionState
<1>1. SessionState /\ [SessionNext]_sessionVars => SessionState'
  <2> SUFFICES ASSUME SessionState, [SessionNext]_sessionVars
               PROVE  SessionState'
    OBVIOUS
  <2>1. CASE UNCHANGED sessionVars
    BY <2>1 DEF sessionVars, SessionState, StoryState, SoundState, Story, SessionTypes,
                ReadsAreCurrent, ReadsAreFenced, Idle, InTurn, SameTasks
  <2>2. CASE SessionNext
    BY <2>2, ReadKeeps, WriteKeeps, LockedKeeps DEF SessionNext
  <2> QED
    BY <2>1, <2>2
<1> QED
  BY <1>1, InitSession, PTL DEF SessionSpec
-----------------------------------------------------------------------------
(* What sessions can be relied on for                                      *)

\* READ COMMITTED with either protection: whatever the sessions interleave is a run of
\* the ledger in which one operation runs after the other, but for writes of the plan and
\* late answers, which move nothing but the revision.
THEOREM SessionsTakeTurns ==
  ASSUME HostProtects
  PROVE  SessionSpec => Init /\ [][Next \/ PlanWrite]_vars
<1>1. SessionState /\ [SessionNext]_sessionVars => [Next \/ PlanWrite]_vars
  <2> SUFFICES ASSUME SessionState, SessionNext
               PROVE  [Next \/ PlanWrite]_vars
    BY DEF sessionVars, vars
  <2>1. ASSUME NEW s \in Sessions, Read(s)
        PROVE  UNCHANGED vars
    BY <2>1 DEF Read, vars
  <2>2. ASSUME NEW s \in Sessions, Write(s)
        PROVE  Next \/ PlanWrite
    BY <2>2, WriteIsOneOperation, ReplayedIsStep
  <2>3. LockedOperation \/ TimePasses => Next
    BY DEF LockedOperation, TimePasses, Next
  <2> QED
    BY <2>1, <2>2, <2>3 DEF SessionNext
<1> QED
  BY <1>1, SessionsAlways, PTL DEF SessionSpec, SessionInit

\* begin_task and the summary sync over what they read: tasks keep one home and the summary
\* column names the owner, whatever other sessions wrote in between.
THEOREM SessionsAreSafe == ASSUME HostProtects PROVE SessionSpec => []SessionsKeepLedger
<1>1. SessionState => SessionsKeepLedger
  BY DEF SessionState, StoryState, Story, Housed, Homes, OneHome, Sound, OwnerNamed,
         SessionsKeepLedger, OneHomePerTask, SummaryMatchesOwner
<1> QED
  BY <1>1, SessionsAlways, PTL

\* The writes that add no row.
LEMMA NoRowWrites ==
  ASSUME SoundState,
         SyncAgentTypeSummary \/ ClearPendingQuestion \/ PlanWrite \/ StaleCommand
  PROVE  ledger'.journal = ledger.journal
<1>1. ledger \in Ledger
  BY RevisionIsNumber DEF SoundState
<1>2. ClearPendingQuestion => ledger'.journal = ledger.journal
  BY <1>1 DEF ClearPendingQuestion, Commit, WritesNothing, Ledger
<1>3. SyncAgentTypeSummary => ledger'.journal = ledger.journal
  BY <1>1 DEF SyncAgentTypeSummary, Commit, Ledger
<1>4. PlanWrite => ledger'.journal = ledger.journal
  BY <1>1 DEF PlanWrite, Commit, Ledger
<1> QED
  BY <1>2, <1>3, <1>4 DEF StaleCommand, WritesNothing

\* What a begin's write adds: its own row, which names what it displaced.
LEMMA BeginRow ==
  ASSUME SoundState, NEW b \in BeginArgs, Commit("begin_task", Begin(ledger, clock, b, NoCmd))
  PROVE  \A e \in ledger'.journal \ ledger.journal :
           ledger.active.id # ledger'.active.id => e.other = ledger.active.id
<1>1. Sound(ledger) /\ ledger \in Ledger /\ clock \in Nat /\ b \in CallArg
  BY RevisionIsNumber, CallAssumption DEF SoundState
<1>2. Begin(ledger, clock, b, NoCmd).active = BegunTask(ledger, clock, b)
  BY <1>1, BeginWrites
<1>3. PICK row : /\ Wrote(ledger, Begin(ledger, clock, b, NoCmd), row)
                 /\ row.type = "task_began" /\ row.other = Superseded(ledger, b)
  BY <1>1, BeginWrites
<1>4. SameLogicalTask(ledger.active, b) \/ row.other = ledger.active.id
  BY <1>3 DEF Superseded
<1>5. SameLogicalTask(ledger.active, b) => BegunTask(ledger, clock, b).id = ledger.active.id
  BY DEF BegunTask
<1> DEFINE new == Begin(ledger, clock, b, NoCmd)
<1>6. ledger' = new \/ ledger' = ledger
  BY DEF Commit
<1> HIDE DEF new
<1> QED
  BY <1>2, <1>3, <1>4, <1>5, <1>6 DEF Wrote, new

\* begin_task's fence: a live task that a begin displaces is named by the begin's row,
\* although the begin chose what to name before it had the lock.
THEOREM BeginsNameLosses == ASSUME HostProtects PROVE SessionSpec => BeginNamesWhatItDisplaces
<1>1. SessionState /\ [SessionNext]_sessionVars
      => [\A e \in ledger'.journal \ ledger.journal :
            /\ e.type = "task_began"
            /\ ledger.active.id \notin {NoTaskId, ledger'.active.id}
            => e.other = ledger.active.id]_sessionVars
  <2> SUFFICES ASSUME SessionState, SessionNext,
                      NEW e \in ledger'.journal \ ledger.journal, e.type = "task_began",
                      ledger.active.id # ledger'.active.id
               PROVE  e.other = ledger.active.id
    OBVIOUS
  <2>1. StoryState /\ SoundState
    BY DEF SessionState, StoryState
  <2>2. CASE \E s \in Sessions : Read(s)
    BY <2>2 DEF Read
  <2>3. ASSUME NEW s \in Sessions, Write(s)
        PROVE  e.other = ledger.active.id
    <3>1. Replayed
      BY <2>3, WriteIsOneOperation
    <3> QED
      BY <2>1, <3>1, NoRowWrites, BeginRow DEF Replayed
  <2>4. CASE LockedOperation
    BY <2>1, <2>4, LockedDiscreet DEF LockedOperation, Discreet
  <2>5. CASE TimePasses
    BY <2>5 DEF TimePasses, Tick
  <2> QED
    BY <2>2, <2>3, <2>4, <2>5 DEF SessionNext
<1> QED
  BY <1>1, SessionsAlways, PTL DEF SessionSpec, BeginNamesWhatItDisplaces

\* get_control_revision over interleaved sessions: a caller that holds a revision sees it
\* pass as soon as another session's begin, computed from an older read, has
\* changed a control key.
THEOREM SessionsAreFenced == ASSUME HostProtects PROVE SessionSpec => RevisionCoversControl
<1>1. SessionState /\ [SessionNext]_sessionVars
      => [/\ Control(ledger') # Control(ledger) => ledger'.rev > ledger.rev
          /\ ledger'.rev >= ledger.rev]_vars
  <2> SUFFICES ASSUME SessionState, SessionNext
               PROVE  \/ UNCHANGED vars
                      \/ /\ Control(ledger') # Control(ledger) => ledger'.rev > ledger.rev
                         /\ ledger'.rev >= ledger.rev
    BY DEF sessionVars, vars
  <2>1. CASE \E s \in Sessions : Read(s)
    BY <2>1 DEF Read, vars
  <2>2. CASE Next \/ PlanWrite
    BY <2>2, StepKeepsStory DEF SessionState, Fenced
  <2>3. ASSUME NEW s \in Sessions, Write(s) PROVE Next \/ PlanWrite
    BY <2>3, WriteIsOneOperation, ReplayedIsStep
  <2>4. LockedOperation \/ TimePasses => Next
    BY DEF LockedOperation, TimePasses, Next
  <2> QED
    BY <2>1, <2>2, <2>3, <2>4 DEF SessionNext
<1> QED
  BY <1>1, SessionsAlways, PTL DEF SessionSpec, RevisionCoversControl

\* begin_task over what it read: no interleaving of sessions leaves live a
\* task that the journal has ended, where callers complete with the active task's id.
THEOREM SessionsKeepLiveOpen ==
  ASSUME HostProtects, ~StaleTaskIds
  PROVE  SessionSpec => []LiveTaskIsOpen
<1>1. SessionState => LiveTaskIsOpen
  BY DEF SessionState, StoryState, Story, AllOpen, IsOpen, LiveTaskIsOpen
<1> QED
  BY <1>1, SessionsAlways, PTL

\* The drafts a session parks while another one begins or resumes: every entry of
\* suspended_tasks has its row, and there is one per kind and ref.
THEOREM SessionsKeepParked ==
  ASSUME HostProtects
  PROVE  SessionSpec => [](PausedAreJournaled /\ OnePausedPerStream)
<1>1. SessionState => PausedAreJournaled /\ OnePausedPerStream
  BY DEF SessionState, StoryState, Story, Housed, Homes, Journaled, RowOf, OneStream,
         PausedAreJournaled, OnePausedPerStream
<1> QED
  BY <1>1, SessionsAlways, PTL
=============================================================================
