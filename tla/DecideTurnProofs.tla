-------------------------- MODULE DecideTurnProofs --------------------------
(***************************************************************************)
(* Proofs about DecideTurn, and about the guard it asks, for any agents,   *)
(* turns, pasts and bounds.                                                *)
(*                                                                         *)
(* Every step of the ladder leaves a ledger built by operations of         *)
(* ControlLedger, so what those write (JournalProofs) carries over step by *)
(* step: where the task of the message went, which rows say so, and what   *)
(* the plan may claim.                                                     *)
(***************************************************************************)
EXTENDS DecideTurn, JournalProofs, SequenceTheorems

-----------------------------------------------------------------------------
(* The guard of handoff_guard.py                                           *)

Hops(A) == [from : A, to : A]

\* How many hops Recent leaves out.
Skipped(s, n) == IF Len(s) > n THEN Len(s) - n ELSE 0

\* What Recent returns: a suffix of the trace, of length n or less.
LEMMA RecentIsSuffix ==
  ASSUME NEW S, NEW s \in Seq(S), NEW n \in Nat \ {0}
  PROVE  /\ Skipped(s, n) \in 0 .. Len(s)
         /\ Recent(s, n) \in Seq(S)
         /\ Len(Recent(s, n)) = Len(s) - Skipped(s, n)
         /\ Len(Recent(s, n)) <= n
         /\ \A i \in 1 .. Len(s) - Skipped(s, n) : Recent(s, n)[i] = s[Skipped(s, n) + i]
<1> DEFINE first == Skipped(s, n) + 1
           last == Len(s)
<1>1. /\ last \in Nat /\ Skipped(s, n) \in 0 .. last
      /\ last - Skipped(s, n) <= n
  BY DEF Skipped
<1>2. Recent(s, n) = SubSeq(s, first, last)
  <2>1. first = IF Len(s) > n THEN Len(s) - n + 1 ELSE 1
    BY <1>1 DEF Skipped
  <2> QED
    BY <2>1 DEF Recent
<1>3. first \in 1 .. Len(s) + 1 /\ last \in first - 1 .. Len(s)
  BY <1>1
<1> HIDE DEF first, last
<1>4. /\ SubSeq(s, first, last) \in Seq(S)
      /\ Len(SubSeq(s, first, last)) = last - first + 1
      /\ \A i \in 1 .. last - first + 1 : SubSeq(s, first, last)[i] = s[first + i - 1]
  BY <1>3, SubSeqProperties
<1> QED
  BY <1>1, <1>2, <1>4 DEF first, last

\* Forgetting the oldest hops of a trace without bounces leaves one without bounces.
LEMMA RecentKeepsNoBounce ==
  ASSUME NEW S, NEW s \in Seq(S), NEW n \in Nat \ {0}, NoBounce(s)
  PROVE  NoBounce(Recent(s, n))
<1> DEFINE r == Recent(s, n)
           skip == Skipped(s, n)
<1>1. /\ Len(s) \in Nat /\ skip \in Nat
      /\ Len(r) = Len(s) - skip
      /\ \A i \in 1 .. Len(s) - skip : r[i] = s[skip + i]
  BY RecentIsSuffix
<1> HIDE DEF r, skip
<1>2. ASSUME NEW i \in 2 .. Len(r)
      PROVE  r[i] # Reversed(r[i - 1])
  <2>1. skip + i \in 2 .. Len(s) /\ r[i] = s[skip + i] /\ r[i - 1] = s[(skip + i) - 1]
    BY <1>1
  <2> QED
    BY <2>1 DEF NoBounce
<1>3. ASSUME NEW i \in 3 .. Len(r), NEW j \in 1 .. Len(r), i - RepeatWindow <= j, j < i
      PROVE  r[i] # r[j]
  <2>1. /\ skip + i \in 3 .. Len(s) /\ skip + j \in 1 .. Len(s)
        /\ (skip + i) - RepeatWindow <= skip + j /\ skip + j < skip + i
        /\ r[i] = s[skip + i] /\ r[j] = s[skip + j]
    <3>1. /\ i \in Int /\ 3 <= i /\ i <= Len(r)
          /\ j \in Int /\ 1 <= j /\ j <= Len(r)
          /\ i - 4 <= j /\ j < i
      BY <1>1, <1>3 DEF RepeatWindow
    <3>2. /\ skip + i \in 3 .. Len(s) /\ skip + j \in 1 .. Len(s)
          /\ (skip + i) - 4 <= skip + j /\ skip + j < skip + i
      BY <1>1, <3>1
    <3>3. i \in 1 .. Len(s) - skip /\ j \in 1 .. Len(s) - skip
      BY <1>1, <3>1
    <3> QED
      BY <1>1, <3>2, <3>3 DEF RepeatWindow
  <2> QED
    BY <2>1 DEF NoBounce
<1> QED
  BY <1>2, <1>3 DEF NoBounce, r

\* push_handoff_trace after would_ping_pong said no: the trace stays without bounces.
THEOREM GuardedPushKeepsNoBounce ==
  ASSUME NEW A, NEW hops \in Seq(Hops(A)), NEW from \in A, NEW to \in A,
         NoBounce(hops), ~WouldPingPong(hops, from, to)
  PROVE  /\ PushHandoff(hops, from, to) \in Seq(Hops(A))
         /\ NoBounce(PushHandoff(hops, from, to))
         /\ Len(hops) <= TraceCap => Len(PushHandoff(hops, from, to)) <= TraceCap
<1> DEFINE hop == Hop(from, to)
           longer == Append(hops, hop)
           n == Len(hops)
<1>1. CASE from = to
  BY <1>1 DEF PushHandoff
<1>2. CASE from # to
  <2>1. hop \in Hops(A) /\ n \in Nat
    BY DEF Hop, Hops
  <2>2. /\ longer \in Seq(Hops(A)) /\ Len(longer) = n + 1
        /\ \A i \in 1 .. n : longer[i] = hops[i]
        /\ longer[n + 1] = hop
    BY <2>1
  <2> HIDE DEF longer
  <2>3. ASSUME n >= 1
        PROVE  hop # Reversed(hops[n])
    <3>1. hops # <<>> /\ hops[n] \in Hops(A)
      BY <2>1, <2>3
    <3>2. hops[n] # Hop(to, from)
      BY <1>2, <3>1 DEF WouldPingPong, Reverses
    <3> QED
      BY <3>1, <3>2 DEF Hop, Hops, Reversed
  <2>4. ASSUME NEW j \in 1 .. n, n >= 2, n + 1 - RepeatWindow <= j
        PROVE  hop # hops[j]
    <3> DEFINE r == Recent(hops, RepeatWindow)
               skip == Skipped(hops, RepeatWindow)
    <3>1. /\ skip \in Nat /\ Len(r) = n - skip /\ Len(r) <= RepeatWindow
          /\ \A i \in 1 .. n - skip : r[i] = hops[skip + i]
          /\ r \in Seq(Hops(A))
      BY RecentIsSuffix DEF RepeatWindow
    <3> HIDE DEF r, skip
    <3>2. j - skip \in 1 .. Len(r) /\ r[j - skip] = hops[j] /\ Len(r) >= 2
      <4>1. skip = IF n > 4 THEN n - 4 ELSE 0
        BY DEF skip, Skipped, RepeatWindow
      <4>2. j \in Int /\ 1 <= j /\ j <= n /\ n - 3 <= j /\ 2 <= n
        BY <2>1, <2>4 DEF RepeatWindow
      <4>3. j - skip \in 1 .. n - skip /\ n - skip >= 2 /\ skip + (j - skip) = j
        BY <2>1, <4>1, <4>2
      <4> QED
        BY <3>1, <4>3
    <3>3. hops # <<>>
      BY <2>4
    <3>4. ~Repeats(hops, from, to)
      BY <1>2, <3>3 DEF WouldPingPong
    <3>5. DOMAIN r = 1 .. Len(r)
      BY <3>1
    <3> QED
      BY <3>2, <3>4, <3>5 DEF Repeats, r
  <2>5. NoBounce(longer)
    <3>1. ASSUME NEW i \in 2 .. n + 1
          PROVE  longer[i] # Reversed(longer[i - 1])
      <4>1. CASE i = n + 1
        <5>1. longer[i] = hop /\ longer[i - 1] = hops[n] /\ n >= 1
          BY <2>1, <2>2, <4>1
        <5> QED
          BY <2>3, <5>1
      <4>2. CASE i # n + 1
        <5>1. i \in 2 .. n /\ longer[i] = hops[i] /\ longer[i - 1] = hops[i - 1]
          BY <2>1, <2>2, <4>2
        <5> QED
          BY <5>1 DEF NoBounce
      <4> QED
        BY <4>1, <4>2
    <3>2. ASSUME NEW i \in 3 .. n + 1, NEW j \in 1 .. n + 1, i - RepeatWindow <= j, j < i
          PROVE  longer[i] # longer[j]
      <4>1. j \in 1 .. n /\ longer[j] = hops[j]
        BY <2>1, <2>2, <3>2
      <4>2. CASE i = n + 1
        <5>1. longer[i] = hop /\ n >= 2 /\ n + 1 - RepeatWindow <= j
          BY <2>1, <2>2, <3>2, <4>2 DEF RepeatWindow
        <5> QED
          BY <2>4, <4>1, <5>1
      <4>3. CASE i # n + 1
        <5>1. i \in 3 .. n /\ longer[i] = hops[i]
          BY <2>1, <2>2, <4>3
        <5> QED
          BY <3>2, <4>1, <5>1 DEF NoBounce
      <4> QED
        BY <4>2, <4>3
    <3> QED
      BY <2>1, <2>2, <3>1, <3>2 DEF NoBounce
  <2>6. PushHandoff(hops, from, to) = Recent(longer, TraceCap)
    BY <1>2 DEF PushHandoff, longer
  <2>7. TraceCap \in Nat \ {0}
    BY DEF TraceCap
  <2> QED
    BY <2>2, <2>5, <2>6, <2>7, RecentIsSuffix, RecentKeepsNoBounce
<1> QED
  BY <1>1, <1>2

-----------------------------------------------------------------------------
(* The invariant                                                           *)

Plans == [agent : Agents, mode : Modes \ {"none"},
          owner : Agents \cup {NoAgent}, kind : Kinds \cup {NoKind}]

TraceSound ==
  trace \in Seq(Hops(Agents)) /\ Len(trace) <= TraceCap /\ NoBounce(trace)

PlanSound == plan = NoPlan \/ plan \in Plans

ProposalSound == proposal \in Agents \cup {NoAgent}

\* A ledger whose rows have keys of their own, and whose active task, if no agent has
\* it, is none at all.
Filed(l) == /\ Sound(l) /\ JournalKeysUnique(l.journal)
            /\ HasActive(l) \/ l.active = NoTask

\* A plan that hands an agent its own task tells the truth of the ledger.
Suits(l, p) ==
  p.mode \in {"active_task", "drafting"} /\ p.owner = p.agent
    => l.active.agent = p.agent /\ l.active.kind = p.kind

\* Where the task went that was active when the turn began, as WorkIsAccountedFor has it.
RowNames(l, id) == \E e \in l.journal : e \notin ledger.journal /\ id \in {e.task, e.other}

Accounts(l) ==
  ledger.active.id # NoTaskId /\ ledger.active.id \notin LiveIds(l)
    => \/ RowNames(l, ledger.active.id)
       \/ l.active.id = NoTaskId /\ l.active.agent = Advisor
       \/ /\ l.active \in {t.task : t \in ledger.suspended}
          /\ CompleteRefused(ledger, ledger.active.agent)

\* One operation of the ledger, at the time of the turn.
Operates(l, new) == Fenced(l, new) /\ \E op : Result(op, l, clock, new)

\* What operations of the ledger leave of the ledger the turn began with: it is in every
\* set that holds the one and is closed under the others.
Closed(S) == \A l \in S : \A new : Operates(l, new) => new \in S
Reached(l) == \A S : Closed(S) /\ ledger \in S => l \in S

TurnState == /\ SoundState /\ TraceSound /\ PlanSound /\ ProposalSound /\ since \in Nat
             /\ Filed(ledger) /\ TurnsNeverCollide /\ Suits(ledger, plan)

\* What a step of the ladder establishes.
Settled == /\ SoundState' /\ TraceSound' /\ PlanSound' /\ ProposalSound'
           /\ Filed(ledger') /\ TurnsNeverCollide' /\ Suits(ledger', plan')
           /\ Accounts(ledger') /\ Reached(ledger')

\* What a step leaves and tells, when it returns.
Leaves(l, p) == Filed(l) /\ Reached(l) /\ Accounts(l) /\ p \in Plans /\ Suits(l, p)

\* A ledger on the way: the turn's task is its active one still, or a row names it ...
Tracks(l) == /\ Filed(l) /\ Reached(l) /\ ledger.journal \subseteq l.journal
             /\ l.active.id = ledger.active.id \/ RowNames(l, ledger.active.id)

\* ... or, once the task is parked, it is in the list.
Carries(l) == /\ Filed(l) /\ Reached(l) /\ ledger.journal \subseteq l.journal
              /\ ledger.active.id # NoTaskId => Kept(ledger, l, ledger.active.id)

SceneSound(s) ==
  /\ Tracks(s.ledger) /\ s.ledger.suspended = ledger.suspended
  /\ s.view \in Task
  /\ \/ s.view = NoTask
     \/ /\ s.view.id = s.ledger.active.id /\ s.view.agent = s.ledger.active.agent
        /\ s.view.kind = s.ledger.active.kind
  /\ IF InFlow(s)
     THEN /\ s.ledger.active.id = ledger.active.id
          /\ s.ledger.active.agent = ledger.active.agent
          /\ s.ledger.active.kind = ledger.active.kind
     ELSE \/ ledger.active.id = NoTaskId \/ RowNames(s.ledger, ledger.active.id)
          \/ CompleteRefused(ledger, ledger.active.agent)

InputSound(t) == t.route \in Agents /\ t.target \in Agents \cup {NoAgent}

-----------------------------------------------------------------------------
(* Writes                                                                  *)

LEMMA Constants ==
  /\ Bot0 \in Agents /\ NoAgent \notin Agents /\ Builder \in Agents /\ Advisor \in Agents
  /\ BuildKind \in Kinds /\ CostKind \in Kinds /\ DraftingKind \in Kinds
  /\ AgentKind[Builder] = BuildKind /\ NoKind \notin Kinds
  /\ \A a \in Agents : AgentRef[a] \in Refs /\ AdmittedRef[a] \in Refs
  /\ DraftRef \in Refs /\ ParkedSpecRef \in Refs
  /\ \A a \in Agents : LedgerKind(a) \in Kinds \cup {NoKind}
  BY AgentAssumption, KindAssumption, TurnAssumption DEF LedgerKind

LEMMA NoTaskIsNone ==
  /\ NoTask \in Task /\ NoTask.agent = NoAgent /\ NoTask.id = NoTaskId /\ NoTask.kind = NoKind
  BY NoTaskIsTask, NoTaskFields DEF NoTask

\* A write of one row without a command id.
LEMMA RowFiled ==
  ASSUME NEW l, Filed(l), NEW new, Sound(new), HasActive(new) \/ new.active = NoTask,
         NEW row, Wrote(l, new, row), row.cmd = NoCmd
  PROVE  Filed(new)
<1>1. row.seq \in Nat /\ row.seq > l.rev
  BY DEF Wrote
<1>2. JournalKeysUnique(l.journal \cup {row})
  BY <1>1, RowKeepsKeys DEF Filed
<1> QED
  BY <1>2 DEF Filed, Wrote

\* Every operation a decision uses is one of the ledger's.
LEMMA ReachedSelf == Reached(ledger)
  BY DEF Reached

LEMMA ReachedStep ==
  ASSUME NEW l, Reached(l), NEW new, Operates(l, new)
  PROVE  Reached(new)
  BY DEF Reached, Closed

LEMMA BeginReached ==
  ASSUME NEW l, Sound(l), Reached(l), NEW b \in CallArg, NEW cmd \in Cmds \cup {NoCmd}
  PROVE  Reached(Begin(l, clock, b, cmd))
<1>1. Result("begin_task", l, clock, Begin(l, clock, b, cmd))
  BY DEF Result, Begins
<1> QED
  BY <1>1, BeginFenced, ReachedStep DEF Operates

LEMMA SuspendReached ==
  ASSUME NEW l, Sound(l), Reached(l), NEW why \in {"detour", "other"}
  PROVE  Reached(Suspend(l, clock, why))
<1>1. HasActive(l) => Result("suspend_active", l, clock, Suspend(l, clock, why))
  BY DEF Result
<1>2. ~HasActive(l) => Suspend(l, clock, why) = l
  BY DEF Suspend
<1> QED
  BY <1>1, <1>2, SuspendFenced, ReachedStep DEF Operates

LEMMA CompleteReached ==
  ASSUME NEW l, Sound(l), Reached(l), NEW caller \in Agents, NEW type \in EndEvents,
         NEW id \in Nat, ~StaleTaskIds => id \in {NoTaskId, l.active.id},
         NEW cmd \in Cmds \cup {NoCmd}, ~CompleteRefused(l, caller)
  PROVE  Reached(Complete(l, caller, type, id, cmd))
<1>1. Result("complete_task", l, clock, Complete(l, caller, type, id, cmd))
  BY DEF Result, Completes
<1> QED
  BY <1>1, CompleteFenced, ReachedStep DEF Operates

LEMMA ProposeReached ==
  ASSUME NEW l, Sound(l), Reached(l), NEW from \in Agents, NEW to \in Agents,
         NEW cmd \in Cmds \cup {NoCmd}
  PROVE  Reached(Propose(l, clock, from, to, cmd))
<1>1. Result("propose_switch", l, clock, Propose(l, clock, from, to, cmd))
  BY DEF Result, Proposes
<1> QED
  BY <1>1, ProposeFenced, ReachedStep DEF Operates

LEMMA PhaseReached ==
  ASSUME NEW l, Sound(l), Reached(l), NEW b \in CallArg
  PROVE  Reached(Phase(l, b))
<1>1. Result("update_phase", l, clock, Phase(l, b))
  BY DEF Result
<1> QED
  BY <1>1, PhaseFenced, ReachedStep DEF Operates

LEMMA ResumeReached ==
  ASSUME NEW l, Sound(l), Reached(l), NEW t \in l.suspended
  PROVE  Reached(Resume(l, t))
<1>1. Result("resume_task", l, clock, Resume(l, t))
  BY DEF Result
<1> QED
  BY <1>1, ResumeFenced, ReachedStep DEF Operates

LEMMA AnsweredReached ==
  ASSUME NEW l, Sound(l), Reached(l)
  PROVE  Reached([l EXCEPT !.question = FALSE, !.rev = @ + 1])
<1> DEFINE new == [l EXCEPT !.question = FALSE, !.rev = @ + 1]
<1>1. l \in Ledger /\ l.rev \in Nat
  BY RevisionIsNumber
<1>2. new.rev = l.rev + 1 /\ Quiet(l, new)
  BY <1>1 DEF Quiet, Ledger
<1>3. Sound(new)
  BY <1>1, AskSound
<1> HIDE DEF new
<1>4. Result("clear_pending_question", l, clock, new) /\ Fenced(l, new)
  BY <1>1, <1>2, <1>3 DEF Result, Fenced
<1> QED
  BY <1>4, ReachedStep DEF Operates, new

LEMMA TracksCarries ==
  ASSUME NEW l, Tracks(l)
  PROVE  Carries(l)
  BY DEF Tracks, Carries, RowNames, Kept, LiveIds, LiveTasks

LEMMA CarriesAccounts ==
  ASSUME NEW l, Carries(l)
  PROVE  Accounts(l)
  BY DEF Carries, Accounts, Kept, RowNames

LEMMA BeginAddsRow ==
  ASSUME NEW l, Sound(l), NEW now \in Nat, NEW b \in CallArg
  PROVE  \E row : Wrote(l, Begin(l, now, b, NoCmd), row) /\ row.cmd = NoCmd
<1>1. NoCmd \in Cmds \cup {NoCmd}
  OBVIOUS
<1> QED
  BY <1>1, BeginWrites

LEMMA BeginCarries ==
  ASSUME NEW l, Carries(l), clock \in Nat, NEW b \in CallArg
  PROVE  LET new == Begin(l, clock, b, NoCmd) IN
         Carries(new) /\ new.active.agent = b.agent /\ new.active.kind = b.kind
<1> DEFINE new == Begin(l, clock, b, NoCmd)
           id == ledger.active.id
<1>1. Sound(l) /\ b.agent \in Agents /\ b.agent # NoAgent
  BY AgentAssumption DEF Carries, Filed, CallArg
<1>2. Sound(new) /\ l.journal \subseteq new.journal
  BY <1>1, BeginSound, BeginEndless DEF Endless
<1>3. new.active = BegunTask(l, clock, b)
  BY <1>1, BeginWrites
<1>4. new.active.agent = b.agent /\ new.active.kind = b.kind
  BY <1>3 DEF BegunTask
<1>5. PICK row : Wrote(l, new, row) /\ row.cmd = NoCmd
  BY <1>1, BeginAddsRow
<1>6. id \in LiveIds(l) => Kept(l, new, id)
  BY <1>1, BeginKeeps
<1> HIDE DEF new
<1>7. HasActive(new)
  BY <1>1, <1>4 DEF HasActive
<1>8. Filed(new)
  BY <1>2, <1>5, <1>7, RowFiled DEF Carries
<1>9. id # NoTaskId => Kept(ledger, new, id)
  BY <1>2, <1>6, KeptJoins DEF Carries
<1>10. Reached(new)
  BY <1>1, BeginReached DEF Carries, new
<1> QED
  BY <1>2, <1>4, <1>8, <1>9, <1>10 DEF Carries, new

\* Parking the active task: the row of the suspension names it.
LEMMA SuspendCarries ==
  ASSUME NEW l, Tracks(l), clock \in Nat, NEW why \in {"detour", "other"}
  PROVE  Carries(Suspend(l, clock, why))
<1> DEFINE new == Suspend(l, clock, why)
           id == ledger.active.id
<1>1. CASE ~HasActive(l)
  BY <1>1, TracksCarries DEF Suspend
<1>2. CASE HasActive(l)
  <2>1. Sound(l) /\ l.active \in Task
    BY RevisionIsNumber DEF Tracks, Filed, Ledger
  <2>2. Sound(new) /\ l.journal \subseteq new.journal
    BY <2>1, SuspendSound, SuspendEndless DEF Endless
  <2>3. new.active = NoTask
    BY <1>2, <2>1, SuspendWrites
  <2>4. PICK row : Wrote(l, new, row) /\ row.cmd = NoCmd /\ row.task = l.active.id
    BY <1>2, <2>1, SuspendWrites
  <2>5. row \in new.journal /\ row \notin l.journal
    BY <2>1, <2>4, RowIsNew
  <2> HIDE DEF new
  <2>6. Filed(new)
    BY <2>2, <2>3, <2>4, RowFiled DEF Tracks
  <2>7. Kept(ledger, new, id)
    BY <2>2, <2>4, <2>5 DEF Tracks, RowNames, Kept
  <2>8. Reached(new)
    BY <2>1, SuspendReached DEF Tracks, new
  <2> QED
    BY <2>2, <2>6, <2>7, <2>8 DEF Carries, Tracks, new
<1> QED
  BY <1>1, <1>2

\* Ending the task in view: refused, or journaled.
LEMMA EndTaskTracks ==
  ASSUME NEW l, Tracks(l), NEW task \in Task, task.id \in {NoTaskId, l.active.id},
         NEW caller \in Agents, NEW type \in EndEvents
  PROVE  LET new == EndTask(l, task, caller, type) IN
         /\ Tracks(new) /\ new.suspended = l.suspended
         /\ \/ CompleteRefused(l, caller) /\ new = l
            \/ new.active = NoTask /\ RowNames(new, l.active.id)
<1> DEFINE new == Complete(l, caller, type, task.id, NoCmd)
<1>1. CASE CompleteRefused(l, caller)
  BY <1>1 DEF EndTask
<1>2. CASE ~CompleteRefused(l, caller)
  <2>1. Sound(l) /\ task.id \in Nat
    BY DEF Tracks, Filed, Task
  <2>2. Sound(new)
    BY <2>1, CompleteSound
  <2>3. new.active = NoTask
    BY <2>1, CompleteWrites
  <2>4. new.suspended = l.suspended
    BY <2>1, CompleteWrites
  <2>5. PICK row : /\ Wrote(l, new, row) /\ row.cmd = NoCmd
                   /\ row.task = IF task.id # NoTaskId THEN task.id ELSE l.active.id
    BY <2>1, CompleteWrites
  <2>6. row \in new.journal /\ row \notin l.journal /\ row.task = l.active.id
    BY <2>1, <2>5, RowIsNew
  <2>7. l.journal \subseteq new.journal
    BY <2>5 DEF Wrote
  <2> HIDE DEF new
  <2>8. Filed(new)
    BY <2>2, <2>3, <2>5, RowFiled DEF Tracks
  <2>9. RowNames(new, l.active.id)
    BY <2>6 DEF RowNames, Tracks
  <2>10. Tracks(new)
    <3>1. Reached(new)
      BY <1>2, <2>1, CompleteReached DEF Tracks, new
    <3> QED
      BY <2>7, <2>8, <2>9, <3>1 DEF Tracks, RowNames
  <2>11. EndTask(l, task, caller, type) = new
    BY <1>2 DEF EndTask, new
  <2> QED
    BY <2>3, <2>4, <2>9, <2>10, <2>11
<1> QED
  BY <1>1, <1>2

LEMMA ClearsQuestionTracks ==
  ASSUME NEW l, Tracks(l)
  PROVE  LET new == ClearsQuestion(l) IN
         Tracks(new) /\ new.active = l.active /\ new.suspended = l.suspended
<1> DEFINE new == [l EXCEPT !.question = FALSE, !.rev = @ + 1]
<1>1. Sound(l) /\ l \in Ledger
  BY DEF Tracks, Filed, Sound, Typed
<1>2. Sound(new)
  BY <1>1, AskSound
<1>3. new.active = l.active /\ new.suspended = l.suspended /\ new.journal = l.journal
  BY <1>1 DEF Ledger
<1> HIDE DEF new
<1>4. Tracks(new)
  <2>1. Reached(new)
    BY <1>1, AnsweredReached DEF Tracks, new
  <2> QED
    BY <1>2, <1>3, <2>1 DEF Tracks, Filed, HasActive, RowNames
<1>5. ClearsQuestion(l) = l \/ ClearsQuestion(l) = new
  BY DEF ClearsQuestion, new
<1> QED
  BY <1>3, <1>4, <1>5

\* update_phase with the phase and awaiting only.
LEMMA PhasesWrites ==
  ASSUME NEW l, Filed(l), NEW agent \in Agents
  PROVE  LET new == Phases(l, agent) IN
         /\ Filed(new) /\ (Reached(l) => Reached(new)) /\ new.journal = l.journal /\ new.suspended = l.suspended
         /\ new.active.agent = agent
         /\ l.active.agent = agent =>
              new.active.id = l.active.id /\ new.active.kind = l.active.kind
         /\ l.active.agent # agent => new.active.id = NoTaskId
<1> DEFINE b == [agent |-> agent, kind |-> NoKind, ref |-> NoRef, payload |-> "absent"]
           new == Phase(l, b)
<1>1. b \in CallArg /\ b.agent = agent /\ b.kind = NoKind
  BY DEF CallArg, GivenPayloads
<1>2. l.active.agent = agent => new.active.kind = l.active.kind
  BY DEF Phase, Filed, Sound, Typed, Ledger, Task
<1> HIDE DEF b
<1>3. Sound(l) /\ Sound(new)
  BY <1>1, PhaseSound DEF Filed
<1>4. /\ new.suspended = l.suspended /\ new.journal = l.journal /\ new.active.agent = agent
      /\ l.active.agent = agent => new.active.id = l.active.id
      /\ l.active.agent # agent => new.active.id = NoTaskId
  BY <1>1, <1>3, PhaseWrites
<1> HIDE DEF new
<1>5. Filed(new)
  BY <1>3, <1>4, AgentAssumption DEF Filed, HasActive
<1>6. Phases(l, agent) = new
  BY DEF Phases, new, b
<1>7. Reached(l) => Reached(new)
  BY <1>1, <1>3, PhaseReached DEF new
<1> QED
  BY <1>2, <1>4, <1>5, <1>6, <1>7

LEMMA ProposeCarries ==
  ASSUME NEW l, Tracks(l), clock \in Nat, NEW from \in Agents, NEW to \in Agents
  PROVE  Carries(Propose(l, clock, from, to, NoCmd))
<1> DEFINE new == Propose(l, clock, from, to, NoCmd)
<1>1. Sound(l) /\ Sound(new)
  BY ProposeSound DEF Tracks, Filed
<1>2. new.active = l.active
  BY <1>1, ProposeWrites
<1>3. PICK row : Wrote(l, new, row) /\ row.cmd = NoCmd
  BY <1>1, ProposeWrites
<1> HIDE DEF new
<1>4. HasActive(new) \/ new.active = NoTask
  BY <1>2 DEF Tracks, Filed, HasActive
<1>5. Filed(new)
  BY <1>1, <1>3, <1>4, RowFiled DEF Tracks
<1>6. Reached(new)
  BY <1>1, ProposeReached DEF Tracks, new
<1>7. Tracks(new)
  BY <1>2, <1>3, <1>5, <1>6 DEF Tracks, RowNames, Wrote
<1> QED
  BY <1>7, TracksCarries DEF new

LEMMA BriefIsTask ==
  ASSUME NEW agent \in Agents, NEW kind \in Kinds \cup {NoKind}
  PROVE  /\ Brief(agent, kind) \in Task
         /\ Brief(agent, kind).agent = agent /\ Brief(agent, kind).kind = kind
  BY NoTaskIsTask DEF Brief, Task

LEMMA PlanIsPlan ==
  ASSUME NEW agent \in Agents, NEW mode \in Modes \ {"none"}, NEW task \in Task
  PROVE  LET p == Plan(agent, mode, task) IN
         /\ p \in Plans /\ p.agent = agent /\ p.mode = mode
         /\ p.owner = task.agent /\ p.kind = task.kind
  BY DEF Plan, Plans, Task

-----------------------------------------------------------------------------
(* What the steps return                                                   *)

\* Without a task of the agent's own there is nothing to be wrong about.
LEMMA LeavesNone ==
  ASSUME NEW l, Carries(l), NEW agent \in Agents, NEW mode \in Modes \ {"none"}
  PROVE  Leaves(l, Plan(agent, mode, NoTask))
<1>1. NoTask \in Task /\ NoTask.agent # agent
  BY NoTaskIsTask, Constants
<1> DEFINE p == Plan(agent, mode, NoTask)
<1>2. p \in Plans /\ p.owner # p.agent
  BY <1>1, PlanIsPlan
<1> HIDE DEF p
<1> QED
  BY <1>2, CarriesAccounts DEF Leaves, Suits, Carries, p

LEMMA LeavesCalm ==
  ASSUME NEW l, Carries(l), NEW agent \in Agents, NEW task \in Task,
         NEW mode \in Modes \ {"none", "active_task", "drafting"}
  PROVE  Leaves(l, Plan(agent, mode, task))
<1> DEFINE p == Plan(agent, mode, task)
<1>1. p \in Plans /\ p.mode = mode
  BY PlanIsPlan
<1> HIDE DEF p
<1> QED
  BY <1>1, CarriesAccounts DEF Leaves, Suits, Carries, p

\* The view agrees with the ledger, so a plan made of it does.
LEMMA LeavesView ==
  ASSUME NEW s, SceneSound(s), NEW agent \in Agents, NEW mode \in Modes \ {"none"}
  PROVE  Leaves(s.ledger, Plan(agent, mode, s.view))
<1> DEFINE p == Plan(agent, mode, s.view)
<1>1. p \in Plans /\ p.agent = agent /\ p.owner = s.view.agent /\ p.kind = s.view.kind
  BY PlanIsPlan DEF SceneSound
<1>2. agent # NoTask.agent
  BY NoTaskIsTask, Constants
<1> HIDE DEF p
<1>3. Suits(s.ledger, p)
  BY <1>1, <1>2 DEF Suits, SceneSound
<1> QED
  BY <1>1, <1>3, TracksCarries, CarriesAccounts DEF Leaves, SceneSound, Carries, p

LEMMA LeavesNew ==
  ASSUME NEW l, Carries(l), clock \in Nat, NEW agent \in Agents,
         NEW kind \in Kinds \cup {NoKind}, NEW ref \in Refs \cup {NoRef},
         NEW payload \in GivenPayloads, NEW mode \in Modes \ {"none"}
  PROVE  /\ Carries(Opens(l, agent, kind, ref, payload))
         /\ Leaves(Opens(l, agent, kind, ref, payload), Plan(agent, mode, Brief(agent, kind)))
<1> DEFINE b == [agent |-> agent, kind |-> kind, ref |-> ref, payload |-> payload]
           new == Begin(l, clock, b, NoCmd)
           p == Plan(agent, mode, Brief(agent, kind))
<1>1. b \in CallArg /\ b.agent = agent /\ b.kind = kind
  BY DEF CallArg
<1> HIDE DEF b
<1>2. Carries(new) /\ new.active.agent = agent /\ new.active.kind = kind
  BY <1>1, BeginCarries
<1> HIDE DEF new
<1>3. p \in Plans /\ p.agent = agent /\ p.kind = kind
  BY BriefIsTask, PlanIsPlan
<1> HIDE DEF p
<1>4. Leaves(new, p)
  BY <1>2, <1>3, CarriesAccounts DEF Leaves, Suits, Carries
<1>5. Opens(l, agent, kind, ref, payload) = new
  BY DEF Opens, new, b
<1> QED
  BY <1>2, <1>4, <1>5 DEF p

LEMMA LeavesFor ==
  ASSUME NEW l, Carries(l), clock \in Nat, NEW agent \in Agents
  PROVE  Leaves(OpensFor(l, agent), Plan(agent, "active_task", TaskFor(agent)))
<1>1. /\ LedgerKind(agent) \in Kinds \cup {NoKind} /\ AgentRef[agent] \in Refs \cup {NoRef}
      /\ "absent" \in GivenPayloads /\ "active_task" \in Modes \ {"none"}
  BY Constants DEF GivenPayloads, Modes
<1> QED
  BY <1>1, LeavesNew DEF OpensFor, TaskFor

LEMMA ReturnsSettles ==
  ASSUME TurnState, NEW l, NEW p, Leaves(l, p), Returns(l, p)
  PROVE  Settled
<1>1. Commit("decide_turn", l) /\ plan' = p /\ proposal' = NoAgent /\ trace' = trace
  BY DEF Returns
<1>2. ledger' = l /\ collided' = "none"
  BY <1>1 DEF Commit, Leaves, Filed
<1>3. SoundState'
  BY <1>1, CommitKeeps DEF TurnState, Ops, Leaves, Filed
<1>4. TraceSound' /\ PlanSound' /\ ProposalSound'
  BY <1>1 DEF TurnState, TraceSound, PlanSound, ProposalSound, NoBounce, Leaves
<1> QED
  BY <1>1, <1>2, <1>3, <1>4 DEF Settled, Leaves, TurnsNeverCollide

-----------------------------------------------------------------------------
(* Scenes                                                                  *)

LEMMA SceneFields ==
  ASSUME NEW l, NEW view
  PROVE  Scene(l, view).ledger = l /\ Scene(l, view).view = view
  BY DEF Scene

\* What the steps may use of a scene.
LEMMA SceneFacts ==
  ASSUME NEW s, SceneSound(s)
  PROVE  /\ Tracks(s.ledger) /\ Carries(s.ledger) /\ Sound(s.ledger) /\ s.view \in Task
         /\ s.view.agent \in Agents \cup {NoAgent}
         /\ s.view.id \in {NoTaskId, s.ledger.active.id}
         /\ s.view.kind # NoKind => InFlow(s)
         /\ InFlow(s) => s.view.agent \in Agents
<1>1. /\ Tracks(s.ledger) /\ s.view \in Task
      /\ \/ s.view = NoTask
         \/ /\ s.view.id = s.ledger.active.id /\ s.view.agent = s.ledger.active.agent
            /\ s.view.kind = s.ledger.active.kind
  BY DEF SceneSound
<1>2. s.view.kind # NoKind => InFlow(s)
  <2>1. HasActive(s.ledger) \/ s.ledger.active = NoTask
    BY <1>1 DEF Tracks, Filed
  <2> QED
    BY <1>1, <2>1, NoTaskIsNone DEF InFlow, HasActive
<1>3. s.view.id \in {NoTaskId, s.ledger.active.id}
  BY <1>1, NoTaskIsNone
<1> QED
  BY <1>1, <1>2, <1>3, TracksCarries DEF Tracks, Filed, Task, InFlow

LEMMA DroppedSound ==
  ASSUME NEW s, SceneSound(s), InFlow(s), NEW type \in EndEvents
  PROVE  SceneSound(Dropped(s, type))
<1> DEFINE left == EndTask(s.ledger, s.view, s.view.agent, type)
<1>1. /\ Tracks(left) /\ left.suspended = s.ledger.suspended
      /\ CompleteRefused(s.ledger, s.view.agent) \/ RowNames(left, s.ledger.active.id)
  BY SceneFacts, EndTaskTracks
<1> HIDE DEF left
<1>2. /\ s.ledger.active.id = ledger.active.id
      /\ s.ledger.active.agent = ledger.active.agent
      /\ s.ledger.active.kind = ledger.active.kind
      /\ s.view.agent = s.ledger.active.agent /\ s.ledger.suspended = ledger.suspended
  BY NoTaskIsNone DEF SceneSound, InFlow
<1>3. CompleteRefused(s.ledger, s.view.agent) =>
        CompleteRefused(ledger, ledger.active.agent)
  BY <1>2 DEF CompleteRefused
<1>4. Dropped(s, type) = Scene(left, NoTask)
  BY DEF Dropped, left
<1>5. ~InFlow(Scene(left, NoTask))
  BY SceneFields, NoTaskIsNone DEF InFlow
<1> QED
  BY <1>1, <1>2, <1>3, <1>4, <1>5, SceneFields, NoTaskIsNone DEF SceneSound

LEMMA ReadSceneSound ==
  ASSUME TurnState, NEW t
  PROVE  SceneSound(ReadScene(ledger, t))
<1> DEFINE s == Scene(ledger, ledger.active)
<1>1. /\ Filed(ledger) /\ ledger.active \in Task
      /\ ~HasActive(ledger) => ledger.active.id = NoTaskId
  BY NoTaskIsNone DEF TurnState, Filed, Sound, Typed, Ledger
<1>2. s.ledger = ledger /\ s.view = ledger.active
  BY SceneFields
<1> HIDE DEF s
<1>3. SceneSound(s)
  BY <1>1, <1>2, ReachedSelf DEF SceneSound, Tracks, InFlow, HasActive
<1>4. InFlow(s) => SceneSound(Dropped(s, "task_completed"))
  BY <1>3, DroppedSound DEF EndEvents
<1>5. ReadScene(ledger, t) = IF InFlow(s) /\ "discharged" \in t.finds
                             THEN Dropped(s, "task_completed") ELSE s
  BY DEF ReadScene, s
<1> QED
  BY <1>3, <1>4, <1>5

LEMMA AskedSceneSound ==
  ASSUME NEW s, SceneSound(s), NEW t
  PROVE  SceneSound(AskedScene(s, t))
<1> DEFINE left == ClearsQuestion(s.ledger)
           new == Scene(left, s.view)
<1>1. /\ Tracks(left) /\ left.active = s.ledger.active
      /\ left.suspended = s.ledger.suspended
  BY SceneFacts, ClearsQuestionTracks
<1>2. s.ledger.journal \subseteq left.journal
  BY SceneFacts, RevisionIsNumber DEF ClearsQuestion, Ledger
<1> HIDE DEF left
<1>3. new.ledger = left /\ new.view = s.view
  BY SceneFields
<1> HIDE DEF new
<1>4. SceneSound(new)
  BY <1>1, <1>2, <1>3 DEF SceneSound, InFlow, RowNames
<1> QED
  BY <1>4 DEF AskedScene, new, left

LEMMA DraftSceneSound ==
  ASSUME NEW s, SceneSound(s), NEW t
  PROVE  SceneSound(DraftScene(s, t))
<1>1. s.view.kind = DraftingKind => InFlow(s)
  BY SceneFacts, Constants
<1> QED
  BY <1>1, DroppedSound DEF DraftScene, EndEvents

LEMMA ReleasedSceneSound ==
  ASSUME NEW s, SceneSound(s), NEW t
  PROVE  SceneSound(ReleasedScene(s, t))
<1>1. s.view.agent = Builder => InFlow(s)
  BY Constants DEF InFlow
<1> QED
  BY <1>1, DroppedSound DEF ReleasedScene, EndEvents

\* A phase of the task's own agent moves neither the task nor its kind.
LEMMA PhasedSceneSound ==
  ASSUME NEW s, SceneSound(s), InFlow(s)
  PROVE  SceneSound(Scene(Phases(s.ledger, s.view.agent), s.view))
<1> DEFINE left == Phases(s.ledger, s.view.agent)
           new == Scene(left, s.view)
<1>1. /\ s.view.agent \in Agents /\ Tracks(s.ledger)
      /\ s.view.agent = s.ledger.active.agent
  BY SceneFacts, NoTaskIsNone DEF SceneSound, InFlow
<1>2. /\ Filed(left) /\ Reached(left) /\ left.journal = s.ledger.journal
      /\ left.suspended = s.ledger.suspended /\ left.active.agent = s.view.agent
      /\ left.active.id = s.ledger.active.id /\ left.active.kind = s.ledger.active.kind
  BY <1>1, PhasesWrites DEF Tracks
<1> HIDE DEF left
<1>3. new.ledger = left /\ new.view = s.view
  BY SceneFields
<1>4. Tracks(left)
  BY <1>1, <1>2 DEF Tracks, RowNames
<1> HIDE DEF new
<1>5. SceneSound(new)
  BY <1>1, <1>2, <1>3, <1>4 DEF SceneSound, InFlow
<1> QED
  BY <1>5 DEF new, left

LEMMA HealedSceneSound ==
  ASSUME NEW s, SceneSound(s), NEW t
  PROVE  SceneSound(HealedScene(s, t)) /\ HealedScene(s, t).view = s.view
<1>1. CASE InFlow(s)
  BY <1>1, SceneFields, PhasedSceneSound DEF HealedScene
<1>2. CASE ~InFlow(s)
  BY <1>2 DEF HealedScene
<1> QED
  BY <1>1, <1>2

LEMMA OpenSceneSound ==
  ASSUME TurnState, NEW t
  PROVE  SceneSound(OpenScene(t)) /\ SceneSound(FlowScene(t))
  BY ReadSceneSound, AskedSceneSound, DraftSceneSound, ReleasedSceneSound
     DEF OpenScene, FlowScene

\* A step that ends the task in view, for its own agent or for the front door.
LEMMA EndedCarries ==
  ASSUME NEW s, SceneSound(s), NEW type \in EndEvents,
         NEW caller, caller = Bot0 \/ (InFlow(s) /\ caller = s.view.agent)
  PROVE  Carries(EndTask(s.ledger, s.view, caller, type))
  BY SceneFacts, Constants, EndTaskTracks, TracksCarries

LEMMA ParkedCarries ==
  ASSUME TurnState, NEW s, SceneSound(s), NEW why \in {"detour", "other"}
  PROVE  /\ clock \in Nat /\ Carries(s.ledger)
         /\ Carries(Suspend(s.ledger, clock, why))
  BY SceneFacts, SuspendCarries DEF TurnState, SoundState

-----------------------------------------------------------------------------
(* Commands and gates                                                      *)

LEMMA CostOutSettles ==
  ASSUME TurnState, NEW s, SceneSound(s), NEW t, CostOut(s, t)
  PROVE  Settled
<1> DEFINE ended == IF InFlow(s)
                    THEN EndTask(s.ledger, s.view, s.view.agent, "task_superseded")
                    ELSE s.ledger
<1>1. CASE s.view.kind = CostKind
  <2>1. Leaves(s.ledger, Plan(Bot0, "continue", s.view))
    BY Constants, LeavesView DEF Modes
  <2> QED
    BY <1>1, <2>1, ReturnsSettles DEF CostOut
<1>2. CASE s.view.kind # CostKind
  <2>1. Carries(ended) /\ clock \in Nat
    BY EndedCarries, SceneFacts DEF EndEvents, TurnState, SoundState
  <2> HIDE DEF ended
  <2>2. Leaves(Opens(ended, Bot0, CostKind, NoRef, "absent"), Plan(Bot0, "answer", NoTask))
    <3>1. /\ Carries(Opens(ended, Bot0, CostKind, NoRef, "absent"))
          /\ Leaves(Opens(ended, Bot0, CostKind, NoRef, "absent"),
                    Plan(Bot0, "answer", Brief(Bot0, CostKind)))
      BY <2>1, Constants, LeavesNew DEF GivenPayloads, Modes
    <3> QED
      BY <3>1, Constants, LeavesNone DEF Modes
  <2> QED
    BY <1>2, <2>2, ReturnsSettles DEF CostOut, ended
<1> QED
  BY <1>1, <1>2

LEMMA DiscoverySettles ==
  ASSUME TurnState, NEW s, SceneSound(s), NEW t, Discovery(s, t)
  PROVE  Settled
<1>1. /\ InFlow(s) => Leaves(s.ledger, Plan(s.view.agent, "resume", s.view))
      /\ \A mode \in {"detour", "discovery"} : Leaves(s.ledger, Plan(Bot0, mode, s.view))
  BY SceneFacts, Constants, LeavesView DEF Modes
<1>2. Leaves(s.ledger, Plan(Advisor, "new", NoTask))
  BY SceneFacts, Constants, LeavesNone DEF Modes
<1>3. \/ InFlow(s) /\ Returns(s.ledger, Plan(s.view.agent, "resume", s.view))
      \/ Returns(s.ledger, Plan(Advisor, "new", NoTask))
      \/ \E mode \in {"detour", "discovery"} : Returns(s.ledger, Plan(Bot0, mode, s.view))
  BY DEF Discovery
<1> QED
  BY <1>1, <1>2, <1>3, ReturnsSettles

LEMMA CommandsSettle ==
  ASSUME TurnState, NEW s, SceneSound(s), NEW t, InputSound(t),
         OrchestratorPlan(s, t) \/ ResetCommand(s, t) \/ SwitchReply(s, t)
  PROVE  Settled
<1>1. CASE OrchestratorPlan(s, t)
  <2>1. Leaves(s.ledger, Plan(Bot0, "plan", NoTask))
    BY SceneFacts, Constants, LeavesNone DEF Modes
  <2> QED
    BY <1>1, <2>1, ReturnsSettles DEF OrchestratorPlan
<1>2. CASE ResetCommand(s, t)
  <2> DEFINE l == ClearsQuestion(s.ledger)
             left == IF InFlow(s) THEN EndTask(l, s.view, s.view.agent, "task_abandoned")
                     ELSE l
  <2>1. Tracks(l) /\ l.active = s.ledger.active
    BY SceneFacts, ClearsQuestionTracks
  <2> HIDE DEF l
  <2>2. Carries(left)
    BY <2>1, SceneFacts, EndTaskTracks, TracksCarries DEF EndEvents
  <2>3. Leaves(left, Plan(Bot0, "command", NoTask))
    <3> HIDE DEF left
    <3> QED
      BY <2>2, Constants, LeavesNone DEF Modes
  <2>4. Returns(left, Plan(Bot0, "command", NoTask))
    BY <1>2 DEF ResetCommand, l
  <2> QED
    BY <2>3, <2>4, ReturnsSettles
<1>3. CASE SwitchReply(s, t)
  <2>1. SwitchCard(s, t) \in Agents
    BY <1>3, SceneFacts DEF SwitchReply, AnswersSwitch, SwitchCard, InputSound, Sound,
                Typed, Ledger, Switch
  <2>2. Leaves(s.ledger, Plan(SwitchCard(s, t), "switch_confirm", NoTask))
    BY <2>1, SceneFacts, LeavesNone DEF Modes
  <2> QED
    BY <1>3, <2>2, ReturnsSettles DEF SwitchReply
<1> QED
  BY <1>1, <1>2, <1>3

LEMMA CommandTurnSettles ==
  ASSUME TurnState, NEW t, InputSound(t), CommandTurn(t)
  PROVE  Settled
  BY ReadSceneSound, CostOutSettles, DiscoverySettles, CommandsSettle DEF CommandTurn

LEMMA ConfirmedSwitchSettles ==
  ASSUME TurnState, NEW s, SceneSound(s), NEW t, InputSound(t), ConfirmedSwitch(s, t)
  PROVE  Settled
<1> DEFINE parked == IF InFlow(s) THEN Suspend(s.ledger, clock, "other") ELSE s.ledger
<1>1. Carries(parked) /\ clock \in Nat
  BY ParkedCarries
<1> HIDE DEF parked
<1>2. Leaves(OpensFor(parked, t.route), Plan(t.route, "active_task", TaskFor(t.route)))
  BY <1>1, LeavesFor DEF InputSound
<1>3. Leaves(s.ledger, Plan(t.route, "active_task", s.view))
  BY LeavesView DEF InputSound, Modes
<1> QED
  BY <1>2, <1>3, ReturnsSettles DEF ConfirmedSwitch, parked

LEMMA StickyKindSettles ==
  ASSUME TurnState, NEW s, SceneSound(s), NEW t, StickyKind(s, t)
  PROVE  Settled
<1> DEFINE ended == EndTask(s.ledger, s.view, Bot0, "task_abandoned")
<1>1. Carries(ended)
  BY EndedCarries DEF EndEvents
<1> HIDE DEF ended
<1>2. Leaves(ended, Plan(Bot0, "command", NoTask))
  BY <1>1, Constants, LeavesNone DEF Modes
<1>3. \A mode \in {"detour", "active_task"} : Leaves(s.ledger, Plan(Bot0, mode, s.view))
  BY Constants, LeavesView DEF Modes
<1>4. \/ Returns(ended, Plan(Bot0, "command", NoTask))
      \/ \E mode \in {"detour", "active_task"} : Returns(s.ledger, Plan(Bot0, mode, s.view))
  BY DEF StickyKind, ended
<1> QED
  BY <1>2, <1>3, <1>4, ReturnsSettles

LEMMA NewVsPreviousSettles ==
  ASSUME TurnState, NEW s, SceneSound(s), NEW t, NewVsPrevious(s, t)
  PROVE  Settled
<1> DEFINE closed == IF s.view.kind = DraftingKind
                     THEN EndTask(s.ledger, s.view, Bot0, "task_superseded") ELSE s.ledger
           left == IF s.view.kind = BuildKind THEN closed
                   ELSE Opens(closed, Builder, BuildKind, ParkedSpecRef, "absent")
           p == Plan(Builder, "continue", Brief(Builder, BuildKind))
<1>1. Carries(closed) /\ clock \in Nat
  BY EndedCarries, SceneFacts DEF EndEvents, TurnState, SoundState
<1>2. Returns(left, p)
  BY DEF NewVsPrevious
<1> HIDE DEF closed
<1>3. Leaves(closed, p)
  BY <1>1, Constants, BriefIsTask, LeavesCalm DEF Modes
<1>4. Leaves(Opens(closed, Builder, BuildKind, ParkedSpecRef, "absent"), p)
  BY <1>1, Constants, LeavesNew DEF GivenPayloads, Modes
<1> HIDE DEF p
<1> QED
  BY <1>2, <1>3, <1>4, ReturnsSettles

LEMMA GateTurnSettles ==
  ASSUME TurnState, NEW t, InputSound(t), GateTurn(t)
  PROVE  Settled
<1> DEFINE read == ReadScene(ledger, t)
           s == AskedScene(read, t)
<1>1. SceneSound(read) /\ SceneSound(s)
  BY ReadSceneSound, AskedSceneSound
<1>2. CASE Pick(read, t)
  <2> HIDE DEF read
  <2>1. Leaves(read.ledger, Plan(Bot0, "pending_question", NoTask))
    BY <1>1, SceneFacts, Constants, LeavesNone DEF Modes
  <2> QED
    BY <1>2, <2>1, ReturnsSettles DEF Pick
<1>3. CASE ConfirmedSwitch(s, t) \/ StickyKind(s, t) \/ NewVsPrevious(s, t)
  BY <1>1, <1>3, ConfirmedSwitchSettles, StickyKindSettles, NewVsPreviousSettles
<1> QED
  BY <1>2, <1>3 DEF GateTurn

-----------------------------------------------------------------------------
(* Drafts                                                                  *)

\* handoff begins the builder's task of the kind that ledger_kind_for_agent gives it.
LEMMA BuilderTakesLeaves ==
  ASSUME TurnState, NEW s, SceneSound(s)
  PROVE  Leaves(BuilderTakes(s.ledger, s.view),
                Plan(Builder, "active_task", Brief(Builder, BuildKind)))
<1> DEFINE ended == EndTask(s.ledger, s.view, Bot0, "task_superseded")
<1>1. Carries(ended) /\ clock \in Nat
  BY EndedCarries DEF EndEvents, TurnState, SoundState
<1> HIDE DEF ended
<1>2. HandoffArg(Builder, NoRef) =
        [agent |-> Builder, kind |-> BuildKind, ref |-> NoRef, payload |-> "empty"]
  BY Constants DEF HandoffArg
<1>3. BuilderTakes(s.ledger, s.view) = Opens(ended, Builder, BuildKind, NoRef, "empty")
  BY <1>2 DEF BuilderTakes, Opens, ended
<1> QED
  BY <1>1, <1>3, Constants, LeavesNew DEF GivenPayloads, Payloads, Modes

LEMMA DraftingSettles ==
  ASSUME TurnState, NEW s, SceneSound(s), NEW t, Drafting(s, t)
  PROVE  Settled
<1> DEFINE ended(type) == EndTask(s.ledger, s.view, Bot0, type)
           fresh == Opens(ended("task_superseded"), Bot0, DraftingKind, DraftRef, "empty")
<1>1. Carries(ended("task_superseded")) /\ Carries(ended("task_abandoned")) /\ clock \in Nat
  BY EndedCarries DEF EndEvents, TurnState, SoundState
<1>2. \/ Returns(ended("task_abandoned"), Plan(Bot0, "command", s.view))
      \/ Returns(fresh, Plan(Bot0, "drafting", Brief(Bot0, DraftingKind)))
      \/ Returns(BuilderTakes(s.ledger, s.view),
                 Plan(Builder, "active_task", Brief(Builder, BuildKind)))
      \/ \E mode \in {"detour", "drafting"} : Returns(s.ledger, Plan(Bot0, mode, s.view))
  BY DEF Drafting
<1> HIDE DEF ended
<1>3. Leaves(ended("task_abandoned"), Plan(Bot0, "command", s.view))
  BY <1>1, SceneFacts, Constants, LeavesCalm DEF Modes
<1>4. Leaves(fresh, Plan(Bot0, "drafting", Brief(Bot0, DraftingKind)))
  BY <1>1, Constants, LeavesNew DEF GivenPayloads, Payloads, Modes
<1>5. \A mode \in {"detour", "drafting"} : Leaves(s.ledger, Plan(Bot0, mode, s.view))
  BY Constants, LeavesView DEF Modes
<1> HIDE DEF fresh
<1> QED
  BY <1>2, <1>3, <1>4, <1>5, BuilderTakesLeaves, ReturnsSettles

LEMMA IntakeSettles ==
  ASSUME TurnState, NEW s, SceneSound(s), NEW t, Intake(s, t)
  PROVE  Settled
<1> DEFINE parked == IF InFlow(s) THEN Suspend(s.ledger, clock, "detour") ELSE s.ledger
<1>1. Carries(s.ledger) /\ Carries(parked) /\ clock \in Nat
  BY ParkedCarries
<1> HIDE DEF parked
<1>2. Leaves(Opens(s.ledger, Builder, BuildKind, AgentRef[Builder], "absent"),
             Plan(Builder, "active_task", Brief(Builder, BuildKind)))
  BY <1>1, Constants, LeavesNew DEF GivenPayloads, Modes
<1>3. Leaves(Opens(parked, Bot0, DraftingKind, DraftRef, "seed"),
             Plan(Bot0, "drafting", Brief(Bot0, DraftingKind)))
  BY <1>1, Constants, LeavesNew DEF GivenPayloads, Payloads, Modes
<1> QED
  BY <1>2, <1>3, ReturnsSettles DEF Intake, parked

LEMMA DraftTurnSettles ==
  ASSUME TurnState, NEW t, DraftTurn(t)
  PROVE  Settled
  BY OpenSceneSound, DraftingSettles, IntakeSettles DEF DraftTurn

-----------------------------------------------------------------------------
(* The active task                                                         *)

LEMMA StreamChangeSettles ==
  ASSUME TurnState, NEW s, SceneSound(s), InFlow(s), NEW t, StreamChange(s, t)
  PROVE  Settled
<1>1. PICK to \in Agents \ {s.view.agent} :
        Returns(Propose(s.ledger, clock, s.view.agent, to, NoCmd),
                Plan(s.view.agent, "switch_confirm", s.view))
  BY DEF StreamChange
<1>2. s.view.agent \in Agents /\ s.view \in Task /\ Tracks(s.ledger) /\ clock \in Nat
  BY SceneFacts DEF TurnState, SoundState
<1> DEFINE left == Propose(s.ledger, clock, s.view.agent, to, NoCmd)
<1>3. Carries(left)
  BY <1>2, ProposeCarries
<1> HIDE DEF left
<1>4. Leaves(left, Plan(s.view.agent, "switch_confirm", s.view))
  BY <1>2, <1>3, LeavesCalm DEF Modes
<1> QED
  BY <1>1, <1>4, ReturnsSettles DEF left

LEMMA ConceptLeaveSettles ==
  ASSUME TurnState, NEW s, SceneSound(s), NEW t, ConceptLeave(s, t)
  PROVE  Settled
<1> DEFINE ended == EndTask(s.ledger, s.view, Bot0, "task_superseded")
<1>1. PICK to \in Agents :
        Returns(OpensFor(ended, to), Plan(to, "active_task", TaskFor(to)))
  BY DEF ConceptLeave
<1>2. Carries(ended) /\ clock \in Nat
  BY EndedCarries DEF EndEvents, TurnState, SoundState
<1> HIDE DEF ended
<1> QED
  BY <1>1, <1>2, LeavesFor, ReturnsSettles

\* Parking the active task and opening one for another agent.
LEMMA TransferLeaves ==
  ASSUME TurnState, NEW s, SceneSound(s), NEW to \in Agents
  PROVE  Leaves(OpensFor(Suspend(s.ledger, clock, "other"), to),
                Plan(to, "active_task", TaskFor(to)))
<1>1. Carries(Suspend(s.ledger, clock, "other")) /\ clock \in Nat
  BY ParkedCarries
<1> QED
  BY <1>1, LeavesFor

LEMMA NewTaskSettles ==
  ASSUME TurnState, NEW s, SceneSound(s), InFlow(s), NEW t, InputSound(t),
         NewTaskWhileActive(s, t)
  PROVE  Settled
<1>1. \A mode \in {"active_task", "continue"} :
        Leaves(s.ledger, Plan(s.view.agent, mode, s.view))
  BY SceneFacts, LeavesView DEF Modes
<1>2. Leaves(OpensFor(Suspend(s.ledger, clock, "other"), t.route),
             Plan(t.route, "active_task", TaskFor(t.route)))
  BY TransferLeaves DEF InputSound
<1>3. \/ \E mode \in {"active_task", "continue"} :
           Returns(s.ledger, Plan(s.view.agent, mode, s.view))
      \/ Returns(OpensFor(Suspend(s.ledger, clock, "other"), t.route),
                 Plan(t.route, "active_task", TaskFor(t.route)))
  BY DEF NewTaskWhileActive
<1> QED
  BY <1>1, <1>2, <1>3, ReturnsSettles

LEMMA AbandonSettles ==
  ASSUME TurnState, NEW s, SceneSound(s), InFlow(s), NEW t, AbandonActive(s, t)
  PROVE  Settled
<1> DEFINE ended == EndTask(s.ledger, s.view, s.view.agent, "task_abandoned")
<1>1. Leaves(s.ledger, Plan(s.view.agent, "continue", s.view))
  BY SceneFacts, LeavesView DEF Modes
<1>2. Carries(ended)
  BY EndedCarries DEF EndEvents
<1> HIDE DEF ended
<1>3. Leaves(ended, Plan(Bot0, "command", NoTask))
  BY <1>2, Constants, LeavesNone DEF Modes
<1> QED
  BY <1>1, <1>3, ReturnsSettles DEF AbandonActive, ended

\* The guard is asked before the transfer is made and recorded.
LEMMA HandoffSettles ==
  ASSUME TurnState, NEW s, SceneSound(s), InFlow(s), NEW t, InputSound(t),
         HandoffActive(s, t)
  PROVE  Settled
<1> DEFINE to == HandoffTo(t)
           left == OpensFor(Suspend(s.ledger, clock, "other"), to)
           p == Plan(to, "active_task", TaskFor(to))
<1>1. to \in Agents /\ s.view.agent \in Agents
  BY SceneFacts DEF HandoffTo, InputSound
<1>2. Leaves(left, p)
  <2> HIDE DEF to
  <2> QED
    BY <1>1, TransferLeaves
<1>3. Leaves(s.ledger, Plan(Bot0, "detour", s.view))
  BY Constants, LeavesView DEF Modes
<1>4. \/ Returns(s.ledger, Plan(Bot0, "detour", s.view))
      \/ /\ ~WouldPingPong(trace, s.view.agent, to)
         /\ Commit("decide_turn", left) /\ plan' = p /\ proposal' = NoAgent
         /\ trace' \in {trace, PushHandoff(trace, s.view.agent, to)}
  BY DEF HandoffActive
<1> HIDE DEF to, left, p
<1>5. CASE Returns(s.ledger, Plan(Bot0, "detour", s.view))
  BY <1>3, <1>5, ReturnsSettles
<1>6. CASE /\ ~WouldPingPong(trace, s.view.agent, to)
           /\ Commit("decide_turn", left) /\ plan' = p /\ proposal' = NoAgent
           /\ trace' \in {trace, PushHandoff(trace, s.view.agent, to)}
  <2>1. ledger' = left /\ collided' = "none"
    BY <1>2, <1>6 DEF Commit, Leaves, Filed
  <2>2. SoundState'
    BY <1>2, <1>6, CommitKeeps DEF TurnState, Ops, Leaves, Filed
  <2>3. TraceSound'
    BY <1>1, <1>6, GuardedPushKeepsNoBounce DEF TurnState, TraceSound, NoBounce
  <2>4. PlanSound' /\ ProposalSound'
    BY <1>2, <1>6 DEF PlanSound, ProposalSound, Leaves
  <2> QED
    BY <1>2, <1>6, <2>1, <2>2, <2>3, <2>4 DEF Settled, Leaves, TurnsNeverCollide
<1> QED
  BY <1>4, <1>5, <1>6

\* A create continued as the advisor's takes a task without an id.
LEMMA AdvisorContinues ==
  ASSUME TurnState, NEW s, SceneSound(s), InFlow(s), s.view.agent # Advisor
  PROVE  Leaves(Phases(s.ledger, Advisor), Plan(Advisor, "active_task", s.view))
<1> DEFINE left == Phases(s.ledger, Advisor)
           p == Plan(Advisor, "active_task", s.view)
<1>1. s.view.agent = s.ledger.active.agent
  BY NoTaskIsNone DEF SceneSound, InFlow
<1>2. /\ Filed(left) /\ Reached(left)
      /\ left.active.agent = Advisor /\ left.active.id = NoTaskId
  <2> DEFINE l == s.ledger
  <2>1. Filed(l) /\ Reached(l) /\ Advisor \in Agents /\ l.active.agent # Advisor
    BY <1>1, SceneFacts, Constants DEF Tracks
  <2> HIDE DEF l
  <2>2. /\ Filed(Phases(l, Advisor)) /\ Reached(Phases(l, Advisor))
        /\ Phases(l, Advisor).active.agent = Advisor
    BY <2>1, PhasesWrites
  <2>3. Phases(l, Advisor).active.id = NoTaskId
    BY <2>1, PhasesWrites
  <2> QED
    BY <2>2, <2>3 DEF l
<1>3. p \in Plans /\ p.agent = Advisor /\ p.owner = s.view.agent
  BY SceneFacts, Constants, PlanIsPlan DEF Modes
<1> HIDE DEF left, p
<1> QED
  BY <1>2, <1>3 DEF Leaves, Accounts, Suits, left, p

LEMMA ContinueSettles ==
  ASSUME TurnState, NEW s, SceneSound(s), InFlow(s), NEW t, InputSound(t),
         ContinueActive(s, t)
  PROVE  Settled
<1> DEFINE agent == Continuer(s, t)
<1>1. s.view.agent \in Agents /\ agent \in {s.view.agent, Advisor} /\ agent \in Agents
  BY SceneFacts, Constants DEF Continuer
<1>2. /\ Leaves(s.ledger, Plan(Bot0, "detour", s.view))
      /\ Leaves(s.ledger, Plan(t.route, "detour", s.view))
      /\ Leaves(s.ledger, Plan(agent, "active_task", s.view))
  <2> HIDE DEF agent
  <2> QED
    BY <1>1, Constants, LeavesView DEF InputSound, Modes
<1>3. Leaves(Phases(s.ledger, s.view.agent), Plan(s.view.agent, "active_task", s.view))
  <2> DEFINE new == Scene(Phases(s.ledger, s.view.agent), s.view)
  <2>1. SceneSound(new)
    BY PhasedSceneSound
  <2>2. new.ledger = Phases(s.ledger, s.view.agent) /\ new.view = s.view
    BY SceneFields
  <2> HIDE DEF new
  <2>3. Leaves(new.ledger, Plan(s.view.agent, "active_task", new.view))
    BY <1>1, <2>1, LeavesView DEF Modes
  <2> QED
    BY <2>2, <2>3
<1>4. Leaves(Phases(s.ledger, agent), Plan(agent, "active_task", s.view))
  BY <1>1, <1>3, AdvisorContinues
<1>5. \/ Returns(s.ledger, Plan(Bot0, "detour", s.view))
      \/ Returns(s.ledger, Plan(agent, "active_task", s.view))
      \/ Returns(Phases(s.ledger, agent), Plan(agent, "active_task", s.view))
      \/ Returns(Phases(s.ledger, s.view.agent), Plan(s.view.agent, "active_task", s.view))
      \/ Returns(s.ledger, Plan(t.route, "detour", s.view))
  BY DEF ContinueActive
<1> HIDE DEF agent
<1> QED
  BY <1>2, <1>3, <1>4, <1>5, ReturnsSettles

LEMMA ActiveTurnSettles ==
  ASSUME TurnState, NEW t, InputSound(t), ActiveTurn(t)
  PROVE  Settled
<1> DEFINE s == HealedScene(FlowScene(t), t)
<1>1. SceneSound(s) /\ InFlow(s)
  BY OpenSceneSound, HealedSceneSound DEF ActiveTurn
<1>2. \/ StreamChange(s, t) \/ ConceptLeave(s, t) \/ NewTaskWhileActive(s, t)
      \/ AbandonActive(s, t) \/ HandoffActive(s, t) \/ ContinueActive(s, t)
  BY DEF ActiveTurn
<1> HIDE DEF s
<1> QED
  BY <1>1, <1>2, StreamChangeSettles, ConceptLeaveSettles, NewTaskSettles, AbandonSettles,
     HandoffSettles, ContinueSettles

-----------------------------------------------------------------------------
(* No active task                                                          *)

\* The view is empty: there was no task, a row ended it, or its end was refused.
LEMMA ResumeLeaves ==
  ASSUME NEW s, SceneSound(s), ~InFlow(s), NEW found \in s.ledger.suspended,
         NEW agent \in Agents, NEW task \in Task
  PROVE  Leaves(Resume(s.ledger, found), Plan(agent, "resume", task))
<1> DEFINE left == Resume(s.ledger, found)
           p == Plan(agent, "resume", task)
<1>1. Sound(s.ledger) /\ found \in Parked /\ s.ledger.suspended = ledger.suspended
  BY SceneFacts DEF SceneSound, Sound, Typed, Ledger
<1>2. Sound(left)
  BY <1>1, ResumeSound
<1>3. left.journal = s.ledger.journal /\ left.active = found.task
  BY <1>1, ResumeWrites
<1>4. p \in Plans /\ p.mode = "resume"
  BY PlanIsPlan DEF Modes
<1> HIDE DEF left, p
<1>5. HasActive(left)
  BY <1>1, <1>3 DEF HasActive, Parked
<1>6. Filed(left)
  BY <1>2, <1>3, <1>5, SceneFacts DEF Filed, Tracks
<1>7. Accounts(left)
  BY <1>1, <1>3 DEF Accounts, SceneSound, RowNames
<1>8. Reached(left)
  BY <1>1, SceneFacts, ResumeReached DEF Tracks, left
<1> QED
  BY <1>4, <1>6, <1>7, <1>8 DEF Leaves, Suits, left, p

LEMMA ResumeSettles ==
  ASSUME TurnState, NEW s, SceneSound(s), ~InFlow(s), NEW t, ResumeSuspended(s, t)
  PROVE  Settled
<1>1. PICK entry \in Resumable(s, t) :
        \E found \in First(ResumeMatches(s.ledger, NoTaskId, entry.task.agent)) :
          Returns(Resume(s.ledger, found), Plan(entry.task.agent, "resume", entry.task))
  BY DEF ResumeSuspended
<1>2. PICK found \in First(ResumeMatches(s.ledger, NoTaskId, entry.task.agent)) :
        Returns(Resume(s.ledger, found), Plan(entry.task.agent, "resume", entry.task))
  BY <1>1
<1>3. entry \in s.ledger.suspended /\ found \in s.ledger.suspended
  BY <1>1, <1>2 DEF Resumable, First, ResumeMatches
<1>4. entry.task \in Task /\ entry.task.agent \in Agents
  BY <1>3, SceneFacts DEF Sound, Typed, Ledger, Parked, Task
<1> QED
  BY <1>2, <1>3, <1>4, ResumeLeaves, ReturnsSettles

LEMMA DefaultSettles ==
  ASSUME TurnState, NEW s, SceneSound(s), NEW t, InputSound(t), Default(s, t)
  PROVE  Settled
<1> DEFINE mode == IF t.route = Bot0 THEN "fresh" ELSE "active_task"
<1>1. Leaves(s.ledger, Plan(t.route, mode, NoTask))
  BY SceneFacts, LeavesNone DEF InputSound, Modes
<1>2. /\ Commit("decide_turn", s.ledger) /\ plan' = Plan(t.route, mode, NoTask)
      /\ trace' = trace /\ proposal' \in {t.route, NoAgent}
  BY DEF Default
<1> HIDE DEF mode
<1>3. ledger' = s.ledger /\ collided' = "none"
  BY <1>1, <1>2 DEF Commit, Leaves, Filed
<1>4. SoundState'
  BY <1>1, <1>2, CommitKeeps DEF TurnState, Ops, Leaves, Filed
<1>5. TraceSound' /\ PlanSound' /\ ProposalSound'
  BY <1>1, <1>2 DEF InputSound, TurnState, TraceSound, PlanSound, ProposalSound, NoBounce,
                    Leaves
<1> QED
  BY <1>1, <1>2, <1>3, <1>4, <1>5 DEF Settled, Leaves, TurnsNeverCollide

LEMMA IdleTurnSettles ==
  ASSUME TurnState, NEW t, InputSound(t), IdleTurn(t)
  PROVE  Settled
<1> DEFINE s == FlowScene(t)
<1>1. SceneSound(s)
  BY OpenSceneSound
<1>2. \/ Simulate(s, t)
      \/ ~InFlow(s) /\ (ResumeSuspended(s, t) \/ Default(s, t))
  BY DEF IdleTurn
<1> HIDE DEF s
<1>3. CASE Simulate(s, t)
  <2>1. Leaves(s.ledger, Plan(Bot0, "continue", NoTask))
    BY <1>1, SceneFacts, Constants, LeavesNone DEF Modes
  <2> QED
    BY <1>3, <2>1, ReturnsSettles DEF Simulate
<1>4. CASE ~InFlow(s) /\ (ResumeSuspended(s, t) \/ Default(s, t))
  BY <1>1, <1>4, ResumeSettles, DefaultSettles
<1> QED
  BY <1>2, <1>3, <1>4

LEMMA DecideSettles ==
  ASSUME TurnState, NEW t \in Turns, Decide(t)
  PROVE  Settled
<1>1. InputSound(t)
  BY TurnAssumption DEF InputSound
<1> QED
  BY <1>1, CommandTurnSettles, GateTurnSettles, DraftTurnSettles, ActiveTurnSettles,
     IdleTurnSettles DEF Decide

-----------------------------------------------------------------------------
(* The other turns                                                         *)

WorkOps == {"begin_task", "complete_task", "suspend_active", "resolve_switch",
            "set_pending_question"}

\* What an operation of the dispatched agent may leave.
WorkLeaves(new) == /\ HasActive(new) \/ new.active = NoTask
                   /\ ~StaleTaskIds => Accounts(new)

LEMMA KeptAccounts ==
  ASSUME NEW l, ledger.active.id # NoTaskId => Kept(ledger, l, ledger.active.id)
  PROVE  Accounts(l)
  BY DEF Accounts, Kept, RowNames

LEMMA SameTaskAccounts ==
  ASSUME NEW l, l.active = ledger.active
  PROVE  Accounts(l)
  BY DEF Accounts, LiveIds, LiveTasks

LEMMA BeginLeaves ==
  ASSUME TurnState, NEW b \in CallArg, NEW cmd \in Cmds \cup {NoCmd}
  PROVE  WorkLeaves(Begin(ledger, clock, b, cmd))
<1> DEFINE new == Begin(ledger, clock, b, cmd)
<1>1. Sound(ledger) /\ clock \in Nat /\ b.agent # NoAgent
  BY AgentAssumption DEF TurnState, SoundState, CallArg
<1>2. new.active.agent = b.agent
  <2>1. new.active = BegunTask(ledger, clock, b)
    BY <1>1, BeginWrites
  <2> QED
    BY <2>1 DEF BegunTask
<1>3. ledger.active.id # NoTaskId => Kept(ledger, new, ledger.active.id)
  BY <1>1, BeginKeeps DEF LiveIds, LiveTasks
<1> HIDE DEF new
<1> QED
  BY <1>1, <1>2, <1>3, KeptAccounts DEF WorkLeaves, HasActive, new

LEMMA CompleteLeaves ==
  ASSUME TurnState, NEW caller \in Agents, NEW type \in EndEvents,
         NEW id \in CallerTaskIds, NEW cmd \in Cmds \cup {NoCmd}
  PROVE  WorkLeaves(Complete(ledger, caller, type, id, cmd))
<1> DEFINE new == Complete(ledger, caller, type, id, cmd)
<1>1. Sound(ledger) /\ id \in Nat
  BY DEF TurnState, SoundState, CallerTaskIds, NoTaskId, Sound, Typed, Ledger, Task
<1>2. new.active = NoTask
  BY <1>1, CompleteWrites
<1>3. PICK row : /\ Wrote(ledger, new, row)
                 /\ row.task = IF id # NoTaskId THEN id ELSE ledger.active.id
  BY <1>1, CompleteWrites
<1>4. row \in new.journal /\ row \notin ledger.journal
  BY <1>1, <1>3, RowIsNew
<1> HIDE DEF new
<1>5. ~StaleTaskIds => Kept(ledger, new, ledger.active.id)
  BY <1>3, <1>4 DEF CallerTaskIds, Kept
<1> QED
  BY <1>2, <1>5, KeptAccounts DEF WorkLeaves, new

LEMMA SuspendLeaves ==
  ASSUME TurnState, HasActive(ledger), NEW why \in {"detour", "other"}
  PROVE  WorkLeaves(Suspend(ledger, clock, why))
<1> DEFINE new == Suspend(ledger, clock, why)
<1>1. Sound(ledger) /\ clock \in Nat
  BY DEF TurnState, SoundState
<1>2. new.active = NoTask
  BY <1>1, SuspendWrites
<1>3. ledger.active.id # NoTaskId => Kept(ledger, new, ledger.active.id)
  BY <1>1, SuspendKeeps
<1> HIDE DEF new
<1> QED
  BY <1>2, <1>3, KeptAccounts DEF WorkLeaves, new

LEMMA ResolveLeaves ==
  ASSUME TurnState, HasSwitch(ledger), NEW accepted \in BOOLEAN, NEW b \in CallArg,
         NEW cmd \in Cmds \cup {NoCmd}
  PROVE  WorkLeaves(Resolve(ledger, clock, accepted, FALSE, b, cmd))
<1> DEFINE new == Resolve(ledger, clock, accepted, FALSE, b, cmd)
           parked == IF accepted THEN Suspend(ledger, clock, "other") ELSE ledger
<1>1. Sound(ledger) /\ clock \in Nat /\ (HasActive(ledger) \/ ledger.active = NoTask)
  BY DEF TurnState, SoundState, Filed
<1>2. Compound(ledger, clock, accepted, FALSE, b, cmd, new)
  BY <1>1, ResolveStages
<1>3. ledger.active.id # NoTaskId => Kept(ledger, new, ledger.active.id)
  BY <1>1, ResolveKeeps
<1> HIDE DEF new
<1>4. new.active = parked.active
  BY <1>2 DEF Compound, ClearedFrom, Closes
<1>5. parked.active = NoTask \/ HasActive(parked)
  <2>1. CASE ~accepted \/ ~HasActive(ledger)
    BY <1>1, <2>1 DEF Suspend
  <2>2. CASE accepted /\ HasActive(ledger)
    <3>1. Suspend(ledger, clock, "other").active = NoTask
      BY <1>1, <2>2, SuspendWrites
    <3> QED
      BY <2>2, <3>1
  <2> QED
    BY <2>1, <2>2
<1> HIDE DEF parked
<1> QED
  BY <1>3, <1>4, <1>5, KeptAccounts DEF WorkLeaves, HasActive, new

LEMMA WorkWrites ==
  ASSUME TurnState, Work
  PROVE  WritesNothing \/ \E op \in WorkOps : \E new : Commit(op, new) /\ WorkLeaves(new)
<1>1. /\ BeginArgs \subseteq CallArg /\ EndReasons \subseteq EndEvents
      /\ Enders \subseteq Agents /\ SuspendReasons \subseteq {"detour", "other"}
      /\ HandoffArg(Bot0, NoRef) \in CallArg
  BY CallAssumption, AgentAssumption, HandoffArgs
<1>2. ASSUME NEW op \in WorkOps, NEW new, Commit(op, new), WorkLeaves(new)
      PROVE  \E o \in WorkOps : \E n : Commit(o, n) /\ WorkLeaves(n)
  BY <1>2
<1>3. CASE BeginTask
  BY <1>1, <1>2, <1>3, BeginLeaves DEF BeginTask, WorkOps
<1>4. CASE CompleteTask
  BY <1>1, <1>2, <1>4, CompleteLeaves DEF CompleteTask, WorkOps
<1>5. CASE SuspendActive
  BY <1>1, <1>2, <1>5, SuspendLeaves DEF SuspendActive, WorkOps
<1>6. CASE SetPendingQuestion
  <2> DEFINE new == [ledger EXCEPT !.question = TRUE, !.rev = @ + 1]
  <2>1. new.active = ledger.active
    BY DEF TurnState, Filed, Sound, Typed, Ledger
  <2>2. Commit("set_pending_question", new)
    BY <1>6 DEF SetPendingQuestion
  <2> HIDE DEF new
  <2>3. WorkLeaves(new)
    BY <2>1, SameTaskAccounts DEF WorkLeaves, TurnState, Filed, HasActive
  <2> QED
    BY <1>2, <2>2, <2>3 DEF WorkOps
<1>7. CASE ResolveSwitch
  BY <1>1, <1>2, <1>7, ResolveLeaves DEF ResolveSwitch, WorkOps
<1> QED
  BY <1>3, <1>4, <1>5, <1>6, <1>7 DEF Work

LEMMA WorkSettles ==
  ASSUME TurnState, Work
  PROVE  TurnState' /\ (~StaleTaskIds => Accounts(ledger'))
<1>1. SoundState'
  BY NextSound DEF Work, Next, TurnState
<1>2. /\ Filed(ledger') /\ collided' \in WorkOps \cup {"none"}
      /\ ~StaleTaskIds => Accounts(ledger')
  <2>1. CASE WritesNothing
    BY <2>1, SameTaskAccounts DEF WritesNothing, TurnState
  <2>2. CASE \E op \in WorkOps : \E new : Commit(op, new) /\ WorkLeaves(new)
    <3>0. PICK op \in WorkOps : \E new : Commit(op, new) /\ WorkLeaves(new)
      BY <2>2
    <3>1. PICK new : Commit(op, new) /\ WorkLeaves(new)
      BY <3>0
    <3>2. CASE JournalKeysUnique(new.journal)
      BY <1>1, <3>1, <3>2 DEF Commit, WorkLeaves, Filed, SoundState, Sound, Typed,
                              OwnerNamed, HasActive, RowsBelow
    <3>3. CASE ~JournalKeysUnique(new.journal)
      BY <3>1, <3>3, SameTaskAccounts DEF Commit, TurnState
    <3> QED
      BY <3>2, <3>3
  <2> QED
    BY <2>1, <2>2, WorkWrites
<1>3. Filed(ledger)' /\ Suits(ledger, plan)'
  BY <1>2, NoTaskIsNone DEF Filed, Sound, Typed, OwnerNamed, HasActive, RowsBelow,
     JournalKeysUnique, Suits, Work, NoPlan, Plan
<1> QED
  BY <1>1, <1>2, <1>3 DEF Work, TurnState, TraceSound, PlanSound, ProposalSound, NoBounce,
                          TurnsNeverCollide, WorkOps

\* admit_at_dispatch begins only where no task is active.
LEMMA AdmitSettles ==
  ASSUME TurnState, AdmitAtDispatch
  PROVE  TurnState' /\ Accounts(ledger') /\ Reached(ledger')
<1> DEFINE new == Opens(ledger, proposal, LedgerKind(proposal), AdmittedRef[proposal], "absent")
<1>1. proposal \in Agents /\ clock \in Nat
  BY DEF AdmitAtDispatch, TurnState, ProposalSound, SoundState
<1>2. Carries(ledger)
  BY ReachedSelf, TracksCarries DEF Tracks, TurnState
<1>3. Carries(new)
  BY <1>1, <1>2, Constants, LeavesNew DEF GivenPayloads, Modes
<1>4. CASE HasActive(ledger)
  <2>1. WritesNothing
    BY <1>4 DEF AdmitAtDispatch
  <2>2. SoundState'
    BY <2>1, IdleKeeps DEF TurnState
  <2>3. ledger' = ledger /\ collided' = "none"
    BY <2>1 DEF WritesNothing
  <2>4. Accounts(ledger') /\ Reached(ledger')
    BY <2>3, SameTaskAccounts, ReachedSelf
  <2> QED
    BY <2>2, <2>3, <2>4, NoTaskIsNone
    DEF AdmitAtDispatch, TurnState, TraceSound, PlanSound, ProposalSound, NoBounce, Filed,
        Sound, Typed, OwnerNamed, HasActive, RowsBelow, JournalKeysUnique, Suits, NoPlan,
        Plan, TurnsNeverCollide
<1>5. CASE ~HasActive(ledger)
  <2>1. Commit("admit_at_dispatch", new)
    BY <1>5 DEF AdmitAtDispatch
  <2> HIDE DEF new
  <2>2. SoundState'
    BY <1>3, <2>1, CommitKeeps DEF TurnState, Ops, Carries, Filed
  <2>3. ledger' = new /\ collided' = "none"
    BY <1>3, <2>1 DEF Commit, Carries, Filed
  <2>4. Filed(ledger') /\ Accounts(ledger') /\ Reached(ledger')
    BY <1>3, <2>3, CarriesAccounts DEF Carries
  <2> QED
    BY <2>2, <2>3, <2>4, NoTaskIsNone
    DEF AdmitAtDispatch, TurnState, TraceSound, PlanSound, ProposalSound, NoBounce, Filed,
        Sound, Typed, OwnerNamed, HasActive, RowsBelow, JournalKeysUnique, Suits, NoPlan,
        Plan, TurnsNeverCollide
<1> QED
  BY <1>4, <1>5

LEMMA AnswerSettles ==
  ASSUME TurnState, Answer
  PROVE  TurnState' /\ Accounts(ledger')
<1>1. SoundState'
  BY IdleKeeps DEF Answer, TurnState
<1>2. ledger' = ledger /\ collided' = "none"
  BY DEF Answer, WritesNothing
<1> QED
  BY <1>1, <1>2, SameTaskAccounts, NoTaskIsNone
  DEF Answer, TurnState, TraceSound, PlanSound, ProposalSound, NoBounce, Filed,
      Sound, Typed, OwnerNamed, HasActive, RowsBelow, JournalKeysUnique, Suits, NoPlan,
      Plan, TurnsNeverCollide

LEMMA DecideKeeps ==
  ASSUME TurnState, NEW t \in Turns, Decide(t)
  PROVE  TurnState' /\ Accounts(ledger')
<1>1. Settled
  BY DecideSettles
<1>2. since' \in Nat
  BY DEF Decide, TurnState, SoundState, Sound, Typed, Ledger
<1>3. Filed(ledger)' /\ Suits(ledger, plan)'
  BY <1>1 DEF Settled, Filed, Sound, Typed, OwnerNamed, HasActive, RowsBelow,
              JournalKeysUnique, Suits
<1> QED
  BY <1>1, <1>2, <1>3 DEF Settled, TurnState

-----------------------------------------------------------------------------
(* The specification                                                       *)

LEMMA TurnInitSound == TurnInit => TurnState
<1> SUFFICES ASSUME TurnInit PROVE TurnState
  OBVIOUS
<1>1. /\ ledger \in Starts /\ clock = 0 /\ collided = "none" /\ plan = NoPlan
      /\ since = ledger.minted /\ proposal = NoAgent /\ trace \in Histories
  BY DEF TurnInit
<1>2. Filed(ledger) /\ ledger.minted \in Nat
  BY <1>1, TurnAssumption DEF Filed, Sound, Typed, OwnerNamed, RowsBelow, Ledger
<1>3. TraceSound
  BY <1>1, TurnAssumption DEF TraceSound, Hops
<1>4. Suits(ledger, plan) /\ TurnsNeverCollide
  BY <1>1 DEF Suits, NoPlan, Plan, TurnsNeverCollide
<1> QED
  BY <1>1, <1>2, <1>3, <1>4 DEF TurnState, SoundState, Filed, Ops, PlanSound, ProposalSound

LEMMA TurnNextSound == TurnState /\ TurnNext => TurnState'
  BY DecideKeeps, AdmitSettles, WorkSettles, AnswerSettles DEF TurnNext, DecideTurn

LEMMA TurnStateAlways == TurnSpec => []TurnState
<1>1. TurnState /\ UNCHANGED turnVars => TurnState'
  BY DEF TurnState, SoundState, Filed, Sound, Typed, OwnerNamed, HasActive, RowsBelow,
         JournalKeysUnique, TraceSound, NoBounce, PlanSound, ProposalSound, Suits,
         TurnsNeverCollide, turnVars
<1> QED
  BY <1>1, TurnInitSound, TurnNextSound, PTL DEF TurnSpec

\* Type correctness of decide_turn: whatever way a decision returns, the ledger keeps
\* its types and the plan names an agent.
THEOREM DecisionTyping == TurnSpec => []DecideTypeOK
<1>1. TurnState => DecideTypeOK
  BY DEF TurnState, SoundState, Sound, Typed, TypeOK, TraceSound, Hops, PlanSound, Plans,
         ProposalSound, DecideTypeOK
<1> QED
  BY <1>1, TurnStateAlways, PTL

\* handoff_guard: the transfers that decide_turn records never bounce, whichever of
\* them fail to be recorded.
THEOREM TransfersDoNotBounce == TurnSpec => []HandoffsDoNotBounce
<1>1. TurnState => HandoffsDoNotBounce
  BY DEF TurnState, TraceSound, HandoffsDoNotBounce
<1> QED
  BY <1>1, TurnStateAlways, PTL

\* _sync_agent_type_column: however many operations a decision combines, the column
\* that routing reads names the active task's agent when it is done.
THEOREM DecisionsKeepSummary == TurnSpec => []SummaryMatchesOwner
<1>1. TurnState => SummaryMatchesOwner
  BY DEF TurnState, SoundState, Sound, OwnerNamed, SummaryMatchesOwner
<1> QED
  BY <1>1, TurnStateAlways, PTL

\* append_control_event inside one decision: the rows of several operations written in
\* one transaction never share a key with each other or with the journal's.
THEOREM DecisionsNeverCollide == TurnSpec => []TurnsNeverCollide
<1>1. TurnState => TurnsNeverCollide
  BY DEF TurnState
<1> QED
  BY <1>1, TurnStateAlways, PTL

\* decide_turn's plan and its writes agree on every path: an agent is handed a task of
\* its own only while that task, of that kind, is the ledger's active one.
THEOREM PlansTellTheTruth == TurnSpec => []PlanNamesOwner
<1>1. TurnState => PlanNamesOwner
  BY DEF TurnState, Suits, PlanNamesOwner
<1> QED
  BY <1>1, TurnStateAlways, PTL

\* A decision loses no task: where callers complete with the active task's id, the task
\* that was active is still live after any step, a row of that step names it, or the
\* step is one of the two exceptions of WorkIsAccountedFor.
THEOREM DecisionsLoseNoWork == ASSUME ~StaleTaskIds PROVE TurnSpec => WorkIsAccountedFor
<1>1. ASSUME TurnState, [TurnNext]_turnVars
      PROVE  Accounts(ledger')
  <2>1. CASE UNCHANGED turnVars
    BY <2>1, SameTaskAccounts DEF turnVars
  <2> QED
    BY <1>1, <2>1, DecideKeeps, AdmitSettles, WorkSettles, AnswerSettles
    DEF TurnNext, DecideTurn
<1>2. TurnState /\ [TurnNext]_turnVars =>
        [/\ ledger.active.id # NoTaskId
         /\ ledger.active.id \notin LiveIds(ledger')
         => \/ \E e \in NewRows : ledger.active.id \in {e.task, e.other}
            \/ ledger'.active.id = NoTaskId /\ ledger'.active.agent = Advisor
            \/ Resumed /\ CompleteRefused(ledger, ledger.active.agent)]_turnVars
  BY <1>1 DEF Accounts, RowNames, NewRows, Resumed
<1> QED
  BY <1>2, TurnStateAlways, PTL DEF TurnSpec, WorkIsAccountedFor

-----------------------------------------------------------------------------
(* Answers at a gate                                                       *)

\* The task of the turn is the active one still, with the agent it had.
Stays(l) == /\ l.active.id = ledger.active.id
            /\ l.active.agent = ledger.active.agent

LEMMA ReturnsStays ==
  ASSUME NEW l, Stays(l), NEW p, Returns(l, p)
  PROVE  Stays(ledger')
  BY DEF Returns, Commit, Stays

\* Read as a continue, as unclear or as a handoff to nobody, an answer to a gate claims
\* nothing, ends nothing and goes to nobody.
LEMMA GateAnswerIsMild ==
  ASSUME NEW t \in GateAnswers, NEW s
  PROVE  /\ ~ClaimsTask(s, t) /\ ~FreshSpec(s, t) /\ ~HandsOff(t)
         /\ t.intent # "abandon" /\ ~LeavesConcept(s, t)
<1>1. t.awaiting = "gate" /\ t.intent \in {"continue", "unclear", "none", "handoff"}
      /\ (t.intent = "handoff" => t.target = NoAgent)
  BY DEF GateAnswers
<1>2. t.intent \in RelativeIntents(t.act)
  BY TurnAssumption DEF GateAnswers
<1>3. t.act # "draft"
  BY <1>1, <1>2 DEF RelativeIntents, Continues
<1> QED
  BY <1>1, <1>3 DEF ClaimsTask, RouteClaims, FreshSpec, MidFlight, HandsOff, LeavesConcept

\* S2 precedence: while a specialist's task waits at a gate, such an answer leaves the
\* task active under its own agent, wherever the router pointed (GateAnswersStay).
THEOREM GateOwnersStay == TurnSpec => GateAnswersStay
<1>1. ASSUME TurnState, ledger.active.agent # Bot0, NEW t \in GateAnswers, ActiveTurn(t)
      PROVE  Stays(ledger')
  <2> DEFINE s == HealedScene(FlowScene(t), t)
  <2>1. SceneSound(s) /\ InFlow(s)
    BY <1>1, OpenSceneSound, HealedSceneSound DEF ActiveTurn
  <2>2. StreamChange(s, t) \/ ContinueActive(s, t)
    <3>1. \/ StreamChange(s, t) \/ ConceptLeave(s, t) \/ NewTaskWhileActive(s, t)
          \/ AbandonActive(s, t) \/ HandoffActive(s, t) \/ ContinueActive(s, t)
      BY <1>1 DEF ActiveTurn
    <3> HIDE DEF s
    <3> QED
      BY <1>1, <3>1, GateAnswerIsMild
      DEF ConceptLeave, NewTaskWhileActive, AbandonActive, HandoffActive
  <2> HIDE DEF s
  <2>3. /\ Stays(s.ledger) /\ Filed(s.ledger) /\ s.view.agent \in Agents
        /\ s.view.agent = s.ledger.active.agent /\ s.view.agent # Bot0
    BY <1>1, <2>1, SceneFacts, NoTaskIsNone DEF SceneSound, InFlow, Stays, Tracks
  <2>4. CASE StreamChange(s, t)
    <3>1. PICK to \in Agents :
            Returns(Propose(s.ledger, clock, s.view.agent, to, NoCmd),
                    Plan(s.view.agent, "switch_confirm", s.view))
      BY <2>4 DEF StreamChange
    <3> DEFINE left == Propose(s.ledger, clock, s.view.agent, to, NoCmd)
    <3>2. left.active = s.ledger.active
      BY <1>1, <2>3, ProposeWrites DEF Filed, TurnState, SoundState
    <3> HIDE DEF left
    <3>3. Stays(left)
      BY <2>3, <3>2 DEF Stays
    <3> QED
      BY <3>1, <3>3, ReturnsStays DEF left
  <2>5. CASE ContinueActive(s, t)
    <3>1. Continuer(s, t) = s.view.agent
      BY <2>3 DEF Continuer, CreateContinues
    <3>2. \E p : Returns(s.ledger, p) \/ Returns(Phases(s.ledger, s.view.agent), p)
      BY <2>5, <3>1 DEF ContinueActive
    <3> DEFINE left == Phases(s.ledger, s.view.agent)
    <3>3. Stays(left)
      <4> DEFINE l == s.ledger
                 agent == s.view.agent
      <4>1. Filed(l) /\ agent \in Agents /\ l.active.agent = agent /\ Stays(l)
        BY <2>3
      <4> HIDE DEF l, agent
      <4>2. Phases(l, agent).active.agent = agent
        BY <4>1, PhasesWrites
      <4>3. Phases(l, agent).active.id = l.active.id
        BY <4>1, PhasesWrites
      <4> QED
        BY <4>1, <4>2, <4>3 DEF Stays, l, agent
    <3> HIDE DEF left
    <3> QED
      BY <2>3, <3>2, <3>3, ReturnsStays DEF left
  <2> QED
    BY <2>2, <2>4, <2>5
<1>2. TurnState /\ [TurnNext]_turnVars =>
        [ HasActive(ledger) /\ ledger.active.agent # Bot0
          => \A t \in GateAnswers :
               ActiveTurn(t) => /\ ledger'.active.id = ledger.active.id
                                /\ ledger'.active.agent = ledger.active.agent]_turnVars
  BY <1>1 DEF Stays
<1> QED
  BY <1>2, TurnStateAlways, PTL DEF TurnSpec, GateAnswersStay

-----------------------------------------------------------------------------
(* Decisions are operations of the ledger                                  *)

\* What a turn writes, however many operations it combines, one operation after the
\* other leaves.
LEMMA TurnReached ==
  ASSUME TurnState, TurnNext
  PROVE  Reached(ledger')
<1>1. CASE DecideTurn
  BY <1>1, DecideSettles DEF DecideTurn, Settled
<1>2. CASE AdmitAtDispatch
  BY <1>2, AdmitSettles
<1>3. CASE Work
  <2>1. SoundState /\ Next
    BY <1>3 DEF Work, Next, TurnState
  <2>2. Fenced(ledger, ledger')
    BY <2>1, NextFenced
  <2>3. CASE Rests
    BY <2>3, ReachedSelf DEF Rests
  <2>4. ASSUME NEW op, Writes(op) PROVE Reached(ledger')
    <3>1. PICK new : Result(op, ledger, clock, new) /\ Commit(op, new)
      BY <2>4 DEF Writes
    <3>2. CASE ledger' = new
      <4>1. Operates(ledger, new)
        BY <2>2, <3>1, <3>2 DEF Operates
      <4> QED
        BY <3>2, <4>1, ReachedSelf, ReachedStep
    <3>3. CASE ledger' = ledger
      BY <3>3, ReachedSelf
    <3> QED
      BY <3>1, <3>2, <3>3 DEF Commit
  <2> QED
    BY <2>1, <2>3, <2>4, NextWrites
<1>4. CASE Answer
  BY <1>4, ReachedSelf DEF Answer, WritesNothing
<1> QED
  BY <1>1, <1>2, <1>3, <1>4 DEF TurnNext

\* The operations keep a ledger sound, each of them and so all of them.
LEMMA ResultSound ==
  ASSUME NEW l, Sound(l), NEW now \in Nat, NEW op, NEW new, Result(op, l, now, new)
  PROVE  Sound(new)
<1>1. CASE Begins(l, now, new)
  BY <1>1, BeginSound DEF Begins
<1>2. CASE \E b \in CallArg : new = Phase(l, b)
  BY <1>2, PhaseSound
<1>3. CASE \E why \in {"detour", "other"} : new = Suspend(l, now, why)
  BY <1>3, SuspendSound
<1>4. CASE \E t \in l.suspended : new = Resume(l, t) \/ new = Drop(l, t)
  BY <1>4, ResumeSound, DropSound
<1>5. CASE Completes(l, new)
  BY <1>5, CompleteSound DEF Completes
<1>6. CASE Proposes(l, now, new)
  BY <1>6, ProposeSound DEF Proposes
<1>7. CASE Resolves(l, now, FALSE, new) \/ Resolves(l, now, TRUE, new)
  BY <1>7, ResolveSound DEF Resolves
<1>8. CASE Transfers(l, now, new)
  BY <1>8, HandoffAcceptSound, HandoffTransferSound DEF Transfers
<1>9. CASE Quiet(l, new) /\ Sound(new)
  BY <1>9
<1>10. CASE new = Prune(l, now)
  BY <1>10, PruneSound
<1> QED
  BY <1>1, <1>2, <1>3, <1>4, <1>5, <1>6, <1>7, <1>8, <1>9, <1>10 DEF Result

LEMMA ReachedFenced ==
  ASSUME SoundState, NEW new, Reached(new)
  PROVE  Fenced(ledger, new)
<1> DEFINE S == {l \in Ledger : Sound(l) /\ Fenced(ledger, l)}
<1>1. ledger \in S /\ ledger.rev \in Nat
  BY RevisionIsNumber, StillFenced DEF SoundState
<1>2. Closed(S)
  <2> SUFFICES ASSUME NEW l \in S, NEW after, Operates(l, after) PROVE after \in S
    BY DEF Closed
  <2>1. PICK op : Result(op, l, clock, after)
    BY DEF Operates
  <2>2. Sound(after)
    BY <2>1, ResultSound DEF SoundState
  <2>3. Fenced(ledger, after)
    BY <1>1, FencedJoins DEF Operates
  <2> QED
    BY <2>2, <2>3, RevisionIsNumber
<1> HIDE DEF S
<1>3. new \in S
  BY <1>1, <1>2 DEF Reached
<1> QED
  BY <1>3 DEF S

LEMMA ReachedStory ==
  ASSUME SoundState, Story(ledger), NEW new, Reached(new)
  PROVE  Story(new)
<1> DEFINE S == {l \in Ledger : Story(l)}
<1>1. ledger \in S
  BY RevisionIsNumber DEF SoundState
<1>2. Closed(S)
  <2> SUFFICES ASSUME NEW l \in S, NEW after, Operates(l, after) PROVE after \in S
    BY DEF Closed
  <2>1. PICK op : Result(op, l, clock, after)
    BY DEF Operates
  <2>2. Story(after)
    BY <2>1, ResultStory DEF SoundState
  <2> QED
    BY <2>2, StoryNumbers DEF Story
<1> HIDE DEF S
<1>3. new \in S
  BY <1>1, <1>2 DEF Reached
<1> QED
  BY <1>3 DEF S


\* get_control_revision under the compound writes of decide_turn: a decision that pauses,
\* completes, hands off and begins in one transaction never leaves other control keys
\* under the revision it was issued against, and never lowers it.
THEOREM DecisionsAreFenced == TurnSpec => RevisionCoversControl
<1>1. TurnState /\ [TurnNext]_turnVars
      => [/\ Control(ledger') # Control(ledger) => ledger'.rev > ledger.rev
          /\ ledger'.rev >= ledger.rev]_vars
  <2> SUFFICES ASSUME TurnState, TurnNext
               PROVE  /\ Control(ledger') # Control(ledger) => ledger'.rev > ledger.rev
                      /\ ledger'.rev >= ledger.rev
    BY DEF turnVars, vars
  <2>1. Fenced(ledger, ledger')
    BY TurnReached, ReachedFenced DEF TurnState
  <2> QED
    BY <2>1 DEF Fenced
<1> QED
  BY <1>1, TurnStateAlways, PTL DEF TurnSpec, RevisionCoversControl

\* Turns that start from ledgers the operations left (StoryAlways: such a ledger has a
\* story) leave only such ledgers.
ToldState == TurnState /\ Story(ledger)

LEMMA ToldAlways ==
  ASSUME \A l \in Starts : Story(l)
  PROVE  TurnSpec => []ToldState
<1>1. TurnInit => ToldState
  BY TurnInitSound DEF TurnInit, ToldState
<1>2. ToldState /\ [TurnNext]_turnVars => ToldState'
  <2> SUFFICES ASSUME ToldState, [TurnNext]_turnVars PROVE ToldState'
    OBVIOUS
  <2>1. Story(ledger)' <=> Story(ledger')
    BY DEF Story, Housed, Sound, Typed, OwnerNamed, HasActive, RowsBelow, Homes, IdsMinted,
           OneHome, OneStream, Journaled, RowOf, Queued, Dated, Matched, AllOpen, IsOpen,
           LiveTasks, HasSwitch
  <2>2. TurnState'
    <3>1. CASE TurnNext
      BY <3>1, TurnNextSound DEF ToldState
    <3>2. CASE UNCHANGED turnVars
      BY <3>2 DEF ToldState, TurnState, SoundState, Filed, Sound, Typed, OwnerNamed,
                  HasActive, RowsBelow, JournalKeysUnique, TraceSound, NoBounce, PlanSound,
                  ProposalSound, Suits, TurnsNeverCollide, turnVars
    <3> QED
      BY <3>1, <3>2
  <2>3. Story(ledger')
    <3>1. CASE TurnNext
      BY <3>1, TurnReached, ReachedStory DEF ToldState, TurnState
    <3>2. CASE UNCHANGED turnVars
      BY <3>2 DEF ToldState, turnVars, vars
    <3> QED
      BY <3>1, <3>2
  <2> QED
    BY <2>1, <2>2, <2>3 DEF ToldState
<1> QED
  BY <1>1, <1>2, PTL DEF TurnSpec

\* suspend_active, resume_task and begin_task in one transaction: however a decision
\* combines them, no task ends up both active and parked or parked twice under one id.
THEOREM DecisionsKeepHomes ==
  ASSUME \A l \in Starts : Story(l)
  PROVE  TurnSpec => []OneHomePerTask
<1>1. ToldState => OneHomePerTask
  BY DEF ToldState, Story, Housed, Homes, OneHome, OneHomePerTask
<1> QED
  BY <1>1, ToldAlways, PTL

\* The dedupe rule of suspend_active across the detours of a decision: a draft paused to
\* make room for the next one never stands beside another entry of its kind and ref.
THEOREM DecisionsKeepStreams ==
  ASSUME \A l \in Starts : Story(l)
  PROVE  TurnSpec => []OnePausedPerStream
<1>1. ToldState => OnePausedPerStream
  BY DEF ToldState, Story, Housed, Homes, OneStream, OnePausedPerStream
<1> QED
  BY <1>1, ToldAlways, PTL

\* B-240 for the pauses a decision makes on its own: each of them has its row.
THEOREM DecisionsJournalPauses ==
  ASSUME \A l \in Starts : Story(l)
  PROVE  TurnSpec => []PausedAreJournaled
<1>1. ToldState => PausedAreJournaled
  BY DEF ToldState, Story, Housed, Homes, Journaled, RowOf, PausedAreJournaled
<1> QED
  BY <1>1, ToldAlways, PTL

\* The switches that decide_turn proposes, accepts and hands over in one step: none is
\* accepted that the journal does not show proposed between the same agents.
THEOREM DecisionsAcceptProposed ==
  ASSUME \A l \in Starts : Story(l)
  PROVE  TurnSpec => []AcceptedWasProposed
<1>1. ToldState => AcceptedWasProposed
  BY DEF ToldState, Story, Matched, AcceptedWasProposed, SwitchEvents
<1> QED
  BY <1>1, ToldAlways, PTL

\* A decision that drops, resumes or replaces a task leaves no live task that its own
\* journal has ended, where callers complete with the id of the active task.
THEOREM DecisionsKeepLiveOpen ==
  ASSUME \A l \in Starts : Story(l), ~StaleTaskIds
  PROVE  TurnSpec => []LiveTaskIsOpen
<1>1. ToldState => LiveTaskIsOpen
  BY DEF ToldState, Story, AllOpen, IsOpen, LiveTaskIsOpen
<1> QED
  BY <1>1, ToldAlways, PTL
=============================================================================
