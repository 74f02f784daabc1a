---------------------------- MODULE ReplayProofs ----------------------------
(***************************************************************************)
(* Why a journal without gaps can be replayed.                             *)
(*                                                                         *)
(* Both reducers read the rows in the order of their numbers.  First, what *)
(* reading one row more does: the fold over a longer journal begins with   *)
(* the fold over the shorter one.  Then, what each operation writes: a row *)
(* that takes the views to the new ledger, or a revision without a row.    *)
(***************************************************************************)
EXTENDS ProjectionReplay, JournalProofs, WellFoundedInduction

-----------------------------------------------------------------------------
(* The fold                                                                *)

Blank == [control |-> EmptyView, hints |-> EmptyView]

\* v gives the views after each of the first n numbers.
Folds(l, n, v) ==
  v = [k \in 0 .. n |-> IF k = 0 THEN Blank ELSE Advanced(l, v[k - 1], k)]

LEMMA LeastNumber ==
  ASSUME NEW T \in SUBSET Nat, T # {}
  PROVE  \E n \in T : \A m \in T : n <= m
<1> DEFINE less == OpToRel(<, Nat)
<1>1. IsWellFoundedOn(less, Nat)
  BY NatLessThanWellFounded, Zenon
<1> HIDE DEF less
<1>2. PICK n \in T : \A m \in T : <<m, n>> \notin less
  BY <1>1, WFMin
<1>3. \A m \in T : ~(m < n)
  BY <1>2 DEF OpToRel, less
<1> QED
  BY <1>3

LEMMA FoldExists ==
  ASSUME NEW l, NEW n \in Nat
  PROVE  \E v : Folds(l, n, v)
<1> DEFINE T == {k \in Nat : ~\E v : Folds(l, k, v)}
<1> SUFFICES ASSUME T # {} PROVE FALSE
  OBVIOUS
<1>1. PICK k \in T : \A m \in T : k <= m
  BY LeastNumber
<1>2. CASE k = 0
  <2> DEFINE v == [i \in 0 .. 0 |-> Blank]
  <2>1. Folds(l, 0, v)
    BY DEF Folds
  <2> QED
    BY <1>1, <1>2, <2>1
<1>3. CASE k # 0
  <2>1. k - 1 \in Nat /\ k - 1 \notin T
    BY <1>1, <1>3
  <2>2. PICK u : Folds(l, k - 1, u)
    BY <2>1
  <2> DEFINE v == [i \in 0 .. k |-> IF i = k THEN Advanced(l, u[k - 1], k) ELSE u[i]]
  <2>3. \A i \in 0 .. k - 1 : u[i] = IF i = 0 THEN Blank ELSE Advanced(l, u[i - 1], i)
    BY <2>2 DEF Folds
  <2>4. \A i \in 0 .. k - 1 : v[i] = u[i]
    BY <2>1
  <2>5. \A i \in 0 .. k : v[i] = IF i = 0 THEN Blank ELSE Advanced(l, v[i - 1], i)
    <3> SUFFICES ASSUME NEW i \in 0 .. k
                 PROVE  v[i] = IF i = 0 THEN Blank ELSE Advanced(l, v[i - 1], i)
      OBVIOUS
    <3>1. CASE i = k
      <4>1. v[i] = Advanced(l, u[k - 1], k) /\ v[k - 1] = u[k - 1]
        BY <2>1, <2>4, <3>1
      <4> QED
        BY <1>3, <3>1, <4>1
    <3>2. CASE i # k
      <4>1. i \in 0 .. k - 1 /\ (i # 0 => i - 1 \in 0 .. k - 1)
        BY <2>1, <3>2
      <4> QED
        BY <2>3, <2>4, <4>1
    <3> QED
      BY <3>1, <3>2
  <2>6. v = [i \in 0 .. k |-> v[i]]
    OBVIOUS
  <2> HIDE DEF v
  <2>7. Folds(l, k, v)
    BY <2>5, <2>6 DEF Folds
  <2> QED
    BY <1>1, <2>7
<1> QED
  BY <1>2, <1>3

LEMMA ViewsFold ==
  ASSUME NEW l, l.rev \in Nat
  PROVE  Folds(l, l.rev, Views(l))
<1>1. PICK v : Folds(l, l.rev, v)
  BY FoldExists
<1>2. Views(l) = CHOOSE u : u = [k \in 0 .. l.rev |-> IF k = 0 THEN Blank
                                                  ELSE Advanced(l, u[k - 1], k)]
  BY DEF Views, Blank
<1> QED
  BY <1>1, <1>2 DEF Folds

RowsAt(l, n) == {e \in l.journal : e.seq = n}

\* Two journals with the same rows up to a number reduce to the same views there.
LEMMA FoldsAgree ==
  ASSUME NEW l, NEW new, NEW m \in Nat, NEW n \in Nat, m <= n,
         NEW u, Folds(l, m, u), NEW v, Folds(new, n, v),
         \A k \in 1 .. m : RowsAt(l, k) = RowsAt(new, k)
  PROVE  u[m] = v[m]
<1> DEFINE T == {k \in 0 .. m : u[k] # v[k]}
<1>1. /\ \A k \in 0 .. m : u[k] = IF k = 0 THEN Blank ELSE Advanced(l, u[k - 1], k)
      /\ \A k \in 0 .. n : v[k] = IF k = 0 THEN Blank ELSE Advanced(new, v[k - 1], k)
  BY DEF Folds
<1>2. \A k \in 1 .. m : \A views : Advanced(l, views, k) = Advanced(new, views, k)
  BY DEF Advanced, RowsAt
<1>3. SUFFICES ASSUME T # {} PROVE FALSE
  OBVIOUS
<1>4. PICK k \in T : \A j \in T : k <= j
  <2>1. T \in SUBSET Nat
    OBVIOUS
  <2> HIDE DEF T
  <2> QED
    BY <1>3, <2>1, LeastNumber
<1>5. k # 0 /\ k - 1 \in 0 .. m /\ k - 1 \notin T /\ k \in 1 .. m /\ k \in 0 .. n
  BY <1>1, <1>4
<1>6. u[k] = Advanced(l, u[k - 1], k) /\ v[k] = Advanced(new, v[k - 1], k)
  BY <1>1, <1>5
<1> QED
  BY <1>2, <1>4, <1>5, <1>6

\* What reading one row more does.
LEMMA RowAdvances ==
  ASSUME NEW l, l.rev \in Nat, \A e \in l.journal : e.seq \in 1 .. l.rev,
         NEW new, new.rev = l.rev + 1,
         NEW row, row.seq = new.rev, new.journal = l.journal \cup {row}
  PROVE  Reduced(new) = [control |-> Rebuilt(Reduced(l).control, row),
                         hints |-> Hinted(Reduced(l).hints, row)]
<1>1. Folds(l, l.rev, Views(l)) /\ Folds(new, new.rev, Views(new))
  BY ViewsFold
<1>2. \A k \in 1 .. l.rev : RowsAt(l, k) = RowsAt(new, k)
  BY DEF RowsAt
<1>3. Views(new)[l.rev] = Views(l)[l.rev]
  BY <1>1, <1>2, FoldsAgree
<1>4. new.rev \in 0 .. new.rev /\ new.rev # 0 /\ new.rev - 1 = l.rev
  OBVIOUS
<1>5. Views(new)[new.rev] = Advanced(new, Views(new)[new.rev - 1], new.rev)
  BY <1>1, <1>4 DEF Folds
<1>6. {e \in new.journal : e.seq = new.rev} = {row}
  BY <1>4
<1>7. Advanced(new, Reduced(l), new.rev)
        = [control |-> Rebuilt(Reduced(l).control, row),
           hints |-> Hinted(Reduced(l).hints, row)]
  <2>1. (CHOOSE e \in {row} : TRUE) = row
    OBVIOUS
  <2> QED
    BY <1>6, <2>1 DEF Advanced
<1> QED
  BY <1>3, <1>4, <1>5, <1>7 DEF Reduced

\* Nothing read, nothing rebuilt.
LEMMA BlankReduced ==
  ASSUME NEW l, l.rev = 0
  PROVE  Reduced(l) = Blank
  BY ViewsFold DEF Folds, Reduced

\* The views depend on the rows and the revision alone.
LEMMA SameReduced ==
  ASSUME NEW l, l.rev \in Nat, NEW new, new.rev = l.rev, new.journal = l.journal
  PROVE  Reduced(new) = Reduced(l)
<1>1. Folds(l, l.rev, Views(l)) /\ Folds(new, l.rev, Views(new))
  BY ViewsFold
<1>2. \A k \in 1 .. l.rev : RowsAt(l, k) = RowsAt(new, k)
  BY DEF RowsAt
<1>3. Views(l)[l.rev] = Views(new)[l.rev]
  BY <1>1, <1>2, FoldsAgree
<1> QED
  BY <1>3 DEF Reduced

-----------------------------------------------------------------------------
(* Journals without gaps                                                   *)

\* Every number up to the revision has its row, and no row accepts a switch.
Unbroken(l) ==
  /\ \A n \in 1 .. l.rev : RowsAt(l, n) # {}
  /\ \A e \in l.journal : e.type # "switch_accepted"

\* As many rows as revisions, each with a number of its own: none is missing.
LEMMA GaplessUnbroken ==
  ASSUME NEW l, Sound(l), JournalKeysUnique(l.journal), Gapless(l)
  PROVE  Unbroken(l)
<1> DEFINE number == [e \in l.journal |-> e.seq]
           numbers == 1 .. l.rev
<1>1. l.rev \in Nat /\ \A e \in l.journal : e.seq \in numbers
  BY RevisionIsNumber DEF Sound, RowsBelow
<1>2. number \in Injection(l.journal, numbers)
  BY <1>1 DEF Injection, IsInjective, JournalKeysUnique
<1>3. IsFiniteSet(numbers) /\ Cardinality(numbers) = l.rev
  BY <1>1, FS_Interval
<1>4. number \in Surjection(l.journal, numbers)
  <2> HIDE DEF number, numbers
  <2> QED
    BY <1>2, <1>3, FS_Injection DEF Gapless
<1>5. \A n \in numbers : \E e \in l.journal : number[e] = n
  BY <1>4 DEF Surjection
<1> QED
  BY <1>5 DEF Unbroken, RowsAt, Gapless

\* A later ledger has the rows of the earlier one, and others above its revision.
Adds(l, new) ==
  /\ l.journal \subseteq new.journal
  /\ \A e \in new.journal : e \in l.journal \/ e.seq > l.rev
  /\ new.rev \in Nat /\ new.rev >= l.rev

LEMMA AddsJoins ==
  ASSUME NEW l, NEW mid, NEW new, l.rev \in Nat, Adds(l, mid), Adds(mid, new),
         \A e \in new.journal : e.seq \in Nat
  PROVE  Adds(l, new)
  BY DEF Adds

\* What is missing stays missing.
LEMMA AddsUnbroken ==
  ASSUME NEW l, NEW new, l.rev \in Nat, Adds(l, new), Unbroken(new)
  PROVE  Unbroken(l)
<1>1. \A n \in 1 .. l.rev : n \in 1 .. new.rev /\ RowsAt(new, n) = RowsAt(l, n)
  BY DEF Adds, RowsAt
<1> QED
  BY <1>1 DEF Unbroken, Adds

LEMMA WroteAdds ==
  ASSUME NEW l, l.rev \in Nat, NEW new, NEW row, Wrote(l, new, row)
  PROVE  Adds(l, new)
  BY DEF Wrote, Adds

LEMMA QuietAdds ==
  ASSUME NEW l, NEW new, Quiet(l, new)
  PROVE  Adds(l, new)
  BY DEF Quiet, Adds

LEMMA ExpiredAdds ==
  ASSUME NEW l, l.rev \in Nat, NEW new, NEW now, NEW rows, Expired(l, new, now, rows)
  PROVE  Adds(l, new)
  BY DEF Expired, Adds

\* A revision above the rows is a revision without one.
LEMMA SilentBreaks ==
  ASSUME NEW l, Sound(l), NEW new, new.journal = l.journal,
         new.rev \in Nat, new.rev > l.rev
  PROVE  ~Unbroken(new)
<1>1. l.rev \in Nat /\ \A e \in l.journal : e.seq \in 1 .. l.rev
  BY RevisionIsNumber DEF Sound, RowsBelow
<1>2. new.rev \in 1 .. new.rev
  BY <1>1
<1>3. RowsAt(new, new.rev) = {}
  BY <1>1 DEF RowsAt
<1> QED
  BY <1>2, <1>3 DEF Unbroken

\* A row that leaves out a number.
LEMMA LeapBreaks ==
  ASSUME NEW l, Sound(l), NEW new, NEW row, Wrote(l, new, row), new.rev > l.rev + 1
  PROVE  ~Unbroken(new)
<1>1. l.rev \in Nat /\ \A e \in l.journal : e.seq \in 1 .. l.rev
  BY RevisionIsNumber DEF Sound, RowsBelow
<1>2. l.rev + 1 \in 1 .. new.rev
  BY <1>1 DEF Wrote
<1>3. RowsAt(new, l.rev + 1) = {}
  BY <1>1 DEF RowsAt, Wrote
<1> QED
  BY <1>2, <1>3 DEF Unbroken

LEMMA AcceptBreaks ==
  ASSUME NEW l, NEW row \in l.journal, row.type = "switch_accepted"
  PROVE  ~Unbroken(l)
  BY DEF Unbroken

-----------------------------------------------------------------------------
(* The views and the ledger                                                *)

Agrees(l) ==
  Unbroken(l) => /\ l.suspended = {}
                 /\ Reduced(l).control \in View /\ Reduced(l).hints \in View
                 /\ Equivalent(l, Reduced(l).control) /\ SameActive(l, Reduced(l).hints)

\* The write of one row, the next number, and what the row says of the ledger.
Follows(l, new, row) ==
  /\ Wrote(l, new, row) /\ new.rev = l.rev + 1 /\ new.suspended = l.suspended
  /\ \/ /\ row.type = "task_began" /\ new.pending = l.pending /\ HasActive(new)
        /\ row.task = new.active.id /\ row.agent = new.active.agent
        /\ row.kind = new.active.kind
     \/ /\ row.type \in EndEvents
        /\ new.active = NoTask /\ new.pending = NoSwitch
     \/ /\ row.type = "switch_proposed" /\ new.active = l.active /\ HasSwitch(new)
     \/ /\ row.type = "switch_declined" /\ new.active = l.active /\ new.pending = NoSwitch

Stays(l, new) ==
  /\ new.rev = l.rev /\ new.journal = l.journal /\ new.suspended = l.suspended
  /\ new.active = l.active /\ new.pending = l.pending

Continues(l, new) ==
  Stays(l, new) \/ ~Unbroken(new) \/ \E row : Follows(l, new, row)

LEMMA EmptyIsView ==
  /\ EmptyView \in View
  /\ \A l : l.active = NoTask => SameActive(l, EmptyView)
  BY DEF EmptyView, View, NoTaskId, SameActive, HasActive, NoTask

\* The views after the row of a begun task show that task.
LEMMA OwnedShows ==
  ASSUME NEW l, HasActive(l), NEW v \in View, NEW row \in JournalRow,
         row.task = l.active.id, row.agent = l.active.agent, row.kind = l.active.kind
  PROVE  LET new == Owned(v, row, row.agent)
         IN new \in View /\ SameActive(l, new) /\ new.switch = v.switch
<1> DEFINE new == Owned(v, row, row.agent)
<1>1. /\ new \in View /\ new.switch = v.switch
      /\ new.id = row.task /\ new.agent = row.agent /\ new.kind = row.kind
  BY DEF View, JournalRow, Owned
<1> HIDE DEF new
<1> QED
  BY <1>1 DEF SameActive, HasActive, new

LEMMA FollowsAgrees ==
  ASSUME NEW l, Sound(l), Agrees(l), NEW new, NEW row, Follows(l, new, row)
  PROVE  Agrees(new)
<1> SUFFICES ASSUME Unbroken(new) PROVE Agrees(new)
  BY DEF Agrees
<1>1. l.rev \in Nat /\ \A e \in l.journal : e.seq \in 1 .. l.rev
  BY RevisionIsNumber DEF Sound, RowsBelow
<1>2. Unbroken(l)
  BY <1>1, WroteAdds, AddsUnbroken DEF Follows
<1> DEFINE control == Reduced(l).control
           hints == Reduced(l).hints
           control2 == Reduced(new).control
           hints2 == Reduced(new).hints
<1>3. control2 = Rebuilt(control, row) /\ hints2 = Hinted(hints, row)
  <2>1. Reduced(new) = [control |-> Rebuilt(control, row), hints |-> Hinted(hints, row)]
    BY <1>1, RowAdvances DEF Follows, Wrote
  <2> HIDE DEF control, hints
  <2> QED
    BY <2>1
<1>4. /\ l.suspended = {} /\ control \in View /\ hints \in View
      /\ SameActive(l, control) /\ (HasSwitch(l) <=> control.switch) /\ SameActive(l, hints)
  BY <1>2 DEF Agrees, Equivalent
<1>5. SUFFICES /\ control2 \in View /\ hints2 \in View
               /\ SameActive(new, control2) /\ (HasSwitch(new) <=> control2.switch)
               /\ SameActive(new, hints2)
  BY <1>4 DEF Agrees, Equivalent, Follows
<1> HIDE DEF control, hints, control2, hints2
<1>6. row \in JournalRow
  BY DEF Follows, Wrote
<1>7. CASE row.type = "task_began"
  <2>1. control2 = Owned(control, row, row.agent) /\ hints2 = Owned(hints, row, row.agent)
    BY <1>3, <1>7 DEF Rebuilt, Hinted, EndEvents
  <2>2. /\ HasActive(new) /\ row.task = new.active.id /\ row.agent = new.active.agent
        /\ row.kind = new.active.kind /\ new.pending = l.pending
    BY <1>7 DEF Follows, EndEvents
  <2> QED
    BY <1>4, <1>6, <2>1, <2>2, OwnedShows DEF HasSwitch
<1>8. CASE row.type \in EndEvents
  <2>1. control2 = EmptyView /\ hints2 = EmptyView
    BY <1>3, <1>8 DEF Rebuilt, Hinted, EndEvents
  <2>2. new.active = NoTask /\ ~HasSwitch(new)
    BY <1>8 DEF Follows, EndEvents, HasSwitch, NoSwitch
  <2> QED
    BY <2>1, <2>2, EmptyIsView DEF EmptyView
<1>9. CASE row.type \in {"switch_proposed", "switch_declined"}
  <2> DEFINE switched == [control EXCEPT !.switch = (row.type = "switch_proposed")]
  <2>1. control2 = switched /\ hints2 = hints
    BY <1>3, <1>9 DEF Rebuilt, Hinted, EndEvents
  <2>2. /\ switched \in View /\ switched.switch = (row.type = "switch_proposed")
        /\ switched.id = control.id /\ switched.agent = control.agent
        /\ switched.kind = control.kind
    BY <1>4 DEF View
  <2>3. new.active = l.active /\ (HasSwitch(new) <=> row.type = "switch_proposed")
    BY <1>9 DEF Follows, EndEvents, HasSwitch, NoSwitch
  <2> HIDE DEF switched
  <2> QED
    BY <1>4, <2>1, <2>2, <2>3 DEF SameActive, HasActive
<1> QED
  BY <1>7, <1>8, <1>9 DEF Follows

LEMMA ContinuesAgrees ==
  ASSUME NEW l, Sound(l), Agrees(l), NEW new, Continues(l, new)
  PROVE  Agrees(new)
<1>1. CASE Stays(l, new)
  <2>1. Reduced(new) = Reduced(l) /\ (Unbroken(new) <=> Unbroken(l))
    BY <1>1, SameReduced, RevisionIsNumber DEF Stays, Unbroken, RowsAt
  <2> QED
    BY <1>1, <2>1 DEF Agrees, Stays, Equivalent, SameActive, HasActive, HasSwitch
<1>2. CASE ~Unbroken(new)
  BY <1>2 DEF Agrees
<1> QED
  BY <1>1, <1>2, FollowsAgrees DEF Continues

-----------------------------------------------------------------------------
(* The operations                                                          *)

LEMMA BeginContinues ==
  ASSUME NEW l, Sound(l), NEW now \in Nat, NEW b \in CallArg, NEW cmd \in Cmds \cup {NoCmd}
  PROVE  Continues(l, Begin(l, now, b, cmd)) /\ Adds(l, Begin(l, now, b, cmd))
<1> DEFINE new == Begin(l, now, b, cmd)
<1>1. /\ new.active = BegunTask(l, now, b) /\ new.suspended = l.suspended
      /\ new.pending = l.pending /\ new.rev = l.rev + 1
  BY BeginWrites
<1>2. PICK row : /\ Wrote(l, new, row) /\ row.type = "task_began"
                 /\ row.task = new.active.id /\ row.agent = new.active.agent
                 /\ row.kind = new.active.kind
  BY BeginWrites
<1>3. BegunTask(l, now, b).agent # NoAgent
  BY AgentAssumption DEF BegunTask, CallArg
<1> HIDE DEF new
<1>4. Follows(l, new, row)
  BY <1>1, <1>2, <1>3 DEF Follows, HasActive
<1>5. Adds(l, new)
  BY <1>2, WroteAdds, RevisionIsNumber
<1> QED
  BY <1>4, <1>5 DEF Continues, new

LEMMA CompleteContinues ==
  ASSUME NEW l, Sound(l), NEW caller \in Agents \cup {NoAgent}, NEW type \in EndEvents,
         NEW id \in Nat, NEW cmd \in Cmds \cup {NoCmd}
  PROVE  Continues(l, Complete(l, caller, type, id, cmd))
<1> DEFINE new == Complete(l, caller, type, id, cmd)
<1>1. /\ new.active = NoTask /\ new.pending = NoSwitch
      /\ new.suspended = l.suspended /\ new.rev = l.rev + 1
  BY CompleteWrites
<1>2. PICK row : Wrote(l, new, row) /\ row.type = type
  <2>1. \E row : Wrote(l, Complete(l, caller, type, id, cmd), row) /\ row.type = type
    BY CompleteWrites, SMTT(30)
  <2> QED
    BY <2>1
<1> HIDE DEF new
<1>3. Follows(l, new, row)
  BY <1>1, <1>2 DEF Follows
<1> QED
  BY <1>3 DEF Continues, new

LEMMA ProposeContinues ==
  ASSUME NEW l, Sound(l), NEW now \in Nat, NEW from \in Agents, NEW to \in Agents,
         NEW cmd \in Cmds \cup {NoCmd}
  PROVE  Continues(l, Propose(l, now, from, to, cmd))
<1> DEFINE new == Propose(l, now, from, to, cmd)
<1>1. /\ new.active = l.active /\ new.suspended = l.suspended
      /\ new.pending.to = to /\ new.rev = l.rev + 1
  BY ProposeWrites
<1>2. PICK row : Wrote(l, new, row) /\ row.type = "switch_proposed"
  BY ProposeWrites
<1> HIDE DEF new
<1>3. Follows(l, new, row)
  BY <1>1, <1>2, AgentAssumption DEF Follows, HasSwitch
<1> QED
  BY <1>3 DEF Continues, new

\* update_phase, resume_task, drop_suspended_task and suspend_active leave a number out.
LEMMA GapContinues ==
  ASSUME NEW l, Sound(l), NEW now \in Nat, NEW t, NEW b
  PROVE  /\ ~Unbroken(Phase(l, b)) /\ ~Unbroken(Resume(l, t)) /\ ~Unbroken(Drop(l, t))
         /\ HasActive(l) => \A why \in {"detour", "other"} : ~Unbroken(Suspend(l, now, why))
<1>1. l \in Ledger /\ l.rev \in Nat
  BY RevisionIsNumber
<1>2. Phase(l, b).journal = l.journal /\ Phase(l, b).rev = l.rev + 1
  BY PhaseWrites
<1>3. Resume(l, t).journal = l.journal /\ Resume(l, t).rev = l.rev + 2
  BY ResumeWrites
<1>4. Drop(l, t).journal = l.journal /\ Drop(l, t).rev = l.rev + 1
  BY <1>1 DEF Drop, Ledger
<1>5. ASSUME HasActive(l), NEW why \in {"detour", "other"}
      PROVE  ~Unbroken(Suspend(l, now, why))
  <2>1. Suspend(l, now, why).rev = l.rev + 2
    BY <1>1, <1>5 DEF Suspend, AppendEvent, Ledger
  <2>2. PICK row : Wrote(l, Suspend(l, now, why), row)
    BY <1>5, SuspendWrites
  <2> QED
    BY <1>1, <2>1, <2>2, LeapBreaks
<1> QED
  BY <1>1, <1>2, <1>3, <1>4, <1>5, SilentBreaks

LEMMA ResolveContinues ==
  ASSUME NEW l, Sound(l), HasSwitch(l), NEW now \in Nat, NEW accepted \in BOOLEAN,
         NEW begins \in BOOLEAN, begins => accepted, NEW b \in CallArg,
         NEW cmd \in Cmds \cup {NoCmd}
  PROVE  /\ accepted => ~Unbroken(Resolve(l, now, accepted, begins, b, cmd))
         /\ Continues(l, Resolve(l, now, accepted, begins, b, cmd))
<1> DEFINE new == Resolve(l, now, accepted, begins, b, cmd)
           parked == IF accepted THEN Suspend(l, now, "other") ELSE l
<1>1. Compound(l, now, accepted, begins, b, cmd, new)
  BY ResolveStages
<1> HIDE DEF new
<1>2. PICK cleared, arg, row :
        /\ Sound(cleared) /\ ClearedFrom(cleared, parked) /\ arg \in CallArg
        /\ Closes(IF begins THEN Begin(cleared, now, arg, NoCmd) ELSE cleared, new, row)
        /\ row.type = (IF accepted THEN "switch_accepted" ELSE "switch_declined")
  BY <1>1, Zenon DEF Compound
<1>3. CASE accepted
  <2>1. row \in new.journal
    BY <1>2 DEF Closes
  <2>2. ~Unbroken(new)
    BY <1>2, <1>3, <2>1 DEF Unbroken
  <2> QED
    BY <2>2 DEF Continues, new
<1>4. CASE ~accepted
  <2>1. l.rev \in Nat
    BY RevisionIsNumber
  <2>2. ClearedFrom(cleared, l) /\ Closes(cleared, new, row) /\ row.type = "switch_declined"
    BY <1>2, <1>4
  <2>3. row \in JournalRow
    <3>1. row \in new.journal /\ Sound(new)
      BY <1>2, ResolveSound DEF Closes, new
    <3> QED
      BY <3>1 DEF Sound, Typed, Ledger
  <2>4. Follows(l, new, row)
    BY <2>1, <2>2, <2>3 DEF Follows, Wrote, Closes, ClearedFrom
  <2> QED
    BY <1>4, <2>4 DEF Continues, new
<1> QED
  BY <1>3, <1>4

LEMMA HandoffContinues ==
  ASSUME NEW l, Sound(l), NEW now \in Nat, NEW target \in Agents, NEW current \in Agents
  PROVE  Continues(l, HandoffTransfer(l, now, target, current))
<1> DEFINE parked == IF current \notin {target, Bot0} THEN Suspend(l, now, "other") ELSE l
           resolved == IF HasSwitch(parked)
                       THEN Resolve(parked, now, TRUE, FALSE, HandoffArg(target, NoRef), NoCmd)
                       ELSE parked
           begun == Begin(resolved, now, HandoffArg(target, NoRef), NoCmd)
<1>1. HandoffTransfer(l, now, target, current) = IF target = Bot0 THEN resolved ELSE begun
  BY DEF HandoffTransfer
<1>2. HandoffArg(target, NoRef) \in CallArg
  BY HandoffArgs
<1>3. Sound(parked) /\ (parked = l \/ ~Unbroken(parked))
  <2>1. ~HasActive(l) => Suspend(l, now, "other") = l
    BY DEF Suspend
  <2> QED
    BY <2>1, SuspendSound, GapContinues
<1> HIDE DEF parked
<1>4. Sound(resolved) /\ (resolved = l \/ ~Unbroken(resolved))
  BY <1>2, <1>3, ResolveSound, ResolveContinues
<1> HIDE DEF resolved
<1>5. Continues(resolved, begun) /\ Adds(resolved, begun)
  BY <1>2, <1>4, BeginContinues
<1> HIDE DEF begun
<1>6. ~Unbroken(resolved) => ~Unbroken(begun)
  BY <1>4, <1>5, AddsUnbroken, RevisionIsNumber
<1> QED
  BY <1>1, <1>4, <1>5, <1>6 DEF Continues, Stays

\* The sweep, stage by stage: a journal without gaps has no suspended task to expire.
LEMMA PruneContinues ==
  ASSUME NEW l, Story(l), Agrees(l), NEW now \in Nat
  PROVE  Agrees(Prune(l, now))
<1> DEFINE lean == DropRedundant(l)
           settled == DropStaleSwitch(lean, now)
           swept == ExpireSuspended(settled, now)
<1>1. Prune(l, now) = ExpireActive(swept, now)
  BY DEF Prune
<1>2. /\ Story(lean) /\ Quiet(l, lean)
      /\ Story(settled) /\ Quiet(lean, settled) /\ Story(swept)
  BY SweepStory
<1>3. Sound(l) /\ Sound(lean) /\ Sound(settled) /\ Sound(swept)
  BY <1>2, StoryNumbers DEF Story
<1>4. Agrees(lean)
  <2>1. lean = l \/ lean.rev = l.rev + 1
    BY <1>3, RevisionIsNumber DEF DropRedundant, Ledger
  <2> HIDE DEF lean
  <2>2. lean = l \/ ~Unbroken(lean)
    BY <1>2, <1>3, <2>1, SilentBreaks, RevisionIsNumber DEF Quiet
  <2> QED
    BY <2>2 DEF Agrees
<1> HIDE DEF lean
<1>5. Agrees(settled)
  <2>1. settled = lean \/ settled.rev = lean.rev + 1
    BY <1>3, RevisionIsNumber DEF DropStaleSwitch, Ledger
  <2> HIDE DEF settled
  <2>2. settled = lean \/ ~Unbroken(settled)
    BY <1>2, <1>3, <2>1, SilentBreaks, RevisionIsNumber DEF Quiet
  <2> QED
    BY <1>4, <2>2 DEF Agrees
<1> HIDE DEF settled
<1>6. Agrees(swept)
  <2>1. PICK rows : Expired(settled, swept, now, rows)
    BY <1>3, ExpireWrites
  <2> HIDE DEF swept
  <2>2. CASE ~Unbroken(swept)
    BY <2>2 DEF Agrees
  <2>3. CASE Unbroken(swept)
    <3>1. Unbroken(settled)
      BY <1>3, <2>1, <2>3, ExpiredAdds, AddsUnbroken, RevisionIsNumber
    <3>2. settled.suspended = {}
      BY <1>5, <3>1 DEF Agrees
    <3>3. /\ swept.active = settled.active /\ swept.pending = settled.pending
          /\ swept.suspended = settled.suspended /\ swept.journal = settled.journal
          /\ swept.rev \in Nat /\ swept.rev >= settled.rev
      BY <2>1, <3>2 DEF Expired
    <3>4. swept.rev = settled.rev
      BY <1>3, <2>3, <3>3, SilentBreaks, RevisionIsNumber
    <3>5. Continues(settled, swept)
      BY <3>3, <3>4 DEF Continues, Stays
    <3> QED
      BY <1>3, <1>5, <3>5, ContinuesAgrees
  <2> QED
    BY <2>2, <2>3
<1> HIDE DEF swept
<1> DEFINE done == Complete(swept, swept.active.agent, "task_expired", NoTaskId, NoCmd)
<1>7. Continues(swept, done)
  BY <1>2, <1>3, StoryNumbers, CompleteContinues DEF Story, Task, NoTaskId, EndEvents
<1>8. Agrees(done)
  BY <1>3, <1>6, <1>7, ContinuesAgrees
<1>9. ExpireActive(swept, now) \in {swept, done}
  BY DEF ExpireActive
<1> HIDE DEF done
<1> QED
  BY <1>1, <1>6, <1>8, <1>9

LEMMA ResultAgrees ==
  ASSUME NEW l, Story(l), Agrees(l), NEW now \in Nat, NEW op, NEW new,
         Result(op, l, now, new), Fenced(l, new)
  PROVE  Agrees(new)
<1>1. Sound(l)
  BY StoryNumbers DEF Story
<1>2. SUFFICES Continues(l, new) \/ new = Prune(l, now)
  BY <1>1, ContinuesAgrees, PruneContinues
<1>3. CASE Begins(l, now, new)
  BY <1>1, <1>3, BeginContinues DEF Begins
<1>4. CASE \/ \E b \in CallArg : new = Phase(l, b)
           \/ HasActive(l) /\ \E why \in {"detour", "other"} : new = Suspend(l, now, why)
           \/ \E t \in l.suspended : new = Resume(l, t)
           \/ \E t \in l.suspended : new = Drop(l, t)
  BY <1>1, <1>4, GapContinues DEF Continues
<1>5. CASE Completes(l, new)
  BY <1>1, <1>5, CompleteContinues DEF Completes
<1>6. CASE Proposes(l, now, new)
  BY <1>1, <1>6, ProposeContinues DEF Proposes
<1>7. CASE Resolves(l, now, FALSE, new) \/ Resolves(l, now, TRUE, new)
  BY <1>1, <1>7, ResolveContinues DEF Resolves
<1>8. CASE Transfers(l, now, new)
  <2>1. PICK target \in Agents :
          \/ HasSwitch(l) /\ new = HandoffAccept(l, now, target)
          \/ \E current \in Agents : new = HandoffTransfer(l, now, target, current)
    BY <1>8 DEF Transfers
  <2>2. HandoffArg(target, HandoffRef[target]) \in CallArg
    BY RefAssumption, HandoffArgs
  <2>3. HasSwitch(l) => Continues(l, HandoffAccept(l, now, target))
    BY <1>1, <2>2, ResolveContinues DEF HandoffAccept
  <2> QED
    BY <1>1, <2>1, <2>3, HandoffContinues
<1>9. CASE Quiet(l, new) /\ Sound(new)
  <2>1. CASE new.rev > l.rev
    BY <1>1, <1>9, <2>1, SilentBreaks DEF Continues, Quiet
  <2>2. CASE ~(new.rev > l.rev)
    <3>1. new.rev = l.rev
      BY <1>1, <1>9, <2>2, RevisionIsNumber DEF Quiet
    <3>2. Control(new) = Control(l)
      BY <2>2 DEF Fenced
    <3> QED
      BY <1>9, <3>1, <3>2 DEF Continues, Stays, Control, Quiet
  <2> QED
    BY <2>1, <2>2
<1> QED
  BY <1>3, <1>4, <1>5, <1>6, <1>7, <1>8, <1>9 DEF Result

-----------------------------------------------------------------------------
(* The theorem                                                             *)

ReplayState == StoryState /\ Agrees(ledger)

LEMMA InitAgrees == Init => Agrees(ledger)
<1> SUFFICES ASSUME Init PROVE Agrees(ledger)
  OBVIOUS
<1>1. PICK agent \in {NoAgent, Bot0} : ledger = EmptyLedger(agent)
  BY DEF Init
<1>2. /\ ledger.suspended = {} /\ ledger.active = NoTask /\ ledger.pending = NoSwitch
      /\ ledger.rev = 0
  BY <1>1 DEF EmptyLedger
<1>3. Reduced(ledger).control = EmptyView /\ Reduced(ledger).hints = EmptyView
  BY <1>2, BlankReduced DEF Blank
<1>4. SameActive(ledger, EmptyView) /\ EmptyView \in View
  BY <1>2, EmptyIsView
<1>5. ~HasSwitch(ledger) /\ ~EmptyView.switch
  BY <1>2 DEF HasSwitch, NoSwitch, EmptyView
<1> QED
  BY <1>2, <1>3, <1>4, <1>5 DEF Agrees, Equivalent

LEMMA NextAgrees ==
  ASSUME ReplayState, Next
  PROVE  Agrees(ledger')
<1>1. Fenced(ledger, ledger')
  BY NextFenced DEF ReplayState, StoryState
<1>2. CASE Rests
  BY <1>2 DEF Rests, ReplayState
<1>3. ASSUME NEW op, Writes(op) PROVE Agrees(ledger')
  <2>1. PICK new : Result(op, ledger, clock, new) /\ Commit(op, new)
    BY <1>3 DEF Writes
  <2>2. CASE ledger' = new
    BY <1>1, <2>1, <2>2, ResultAgrees DEF ReplayState, StoryState, SoundState
  <2>3. CASE ledger' = ledger
    BY <2>3 DEF ReplayState
  <2> QED
    BY <2>1, <2>2, <2>3 DEF Commit
<1> QED
  BY <1>2, <1>3, NextWrites DEF ReplayState, StoryState

LEMMA AgreesAlways == Spec => [](StoryState /\ Agrees(ledger))
<1>1. Agrees(ledger) /\ StoryState /\ [Next]_vars => Agrees(ledger)'
  <2> SUFFICES ASSUME Agrees(ledger), StoryState, [Next]_vars PROVE Agrees(ledger)'
    OBVIOUS
  <2>1. Agrees(ledger)' <=> Agrees(ledger')
    BY DEF Agrees, Unbroken, RowsAt, Equivalent, SameActive, HasActive, HasSwitch, Reduced,
           Views, Advanced, Rebuilt, Hinted, Owned
  <2>2. CASE Next
    BY <2>1, <2>2, NextAgrees DEF ReplayState
  <2>3. CASE UNCHANGED vars
    BY <2>1, <2>3 DEF vars
  <2> QED
    BY <2>2, <2>3
<1> QED
  BY <1>1, InitAgrees, StoryAlways, PTL DEF Spec

\* rebuild_control_projection and rebuild_projection_hints: as long as every write was
\* journaled and no switch accepted, replaying the journal by either reducer gives the
\* live control state, after any operations in any order, for all rows that the rebuild
\* reads (GaplessReplayAgrees).
THEOREM GaplessJournalReplays == Spec => []GaplessReplayAgrees
<1>1. StoryState /\ Agrees(ledger) => GaplessReplayAgrees
  BY GaplessUnbroken DEF StoryState, SoundState, Agrees, GaplessReplayAgrees
<1> QED
  BY <1>1, AgreesAlways, PTL
=============================================================================
