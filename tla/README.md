# A verification development for the conversation control plane

This directory holds TLA+ models of `conversation_control_plane` (the Python
package under `src/src/`), the TLC runs that check them on small instances, and
TLAPS proofs of the results that matter most. `PROJECT.json` lists the runs, the
mutants that show each property can fail, the source lines every definition
stands for, the hazards the properties are for, the disagreements found between
code and documentation, and the theorems.

Paths below are relative to `src/src/conversation_control_plane/`.

## The system

The control plane decides which agent owns a conversation. One row of the table
`conversations` holds the control state as JSON, one table
(`conversation_control_events`) is its journal, and every host process (HTTP
workers, streaming endpoints, background workers) runs *turns* against them.

| Component | State it keeps | Operations | Talks to |
|---|---|---|---|
| Control ledger (`ledger.py`, `ledger_keys.py`) | `active_task`, `suspended_tasks`, `pending_switch`, `pending_question`, `plan`, `_control_revision`, the `agent_type` column | begin, phase, suspend, resume, drop, complete, finish, propose, resolve, accept, handoff, question set and clear, summary sync, TTL sweep | journal (same transaction), kind registry, payload sanitizer |
| Turn claim and Stop (`ledger.py`, `turn_session_discipline.py`) | `_turn_claim`, `_turn_cancel`, `_last_completed_turn` in the same row | claim, renew, release, steal, request and consume a Stop, session boundary | every turn; the row lock of the request session |
| Journal (`ledger_journal.py`) | the rows, their hash chain | append, find by command id, list, verify | ledger, outbox, rebuild |
| Outbox (`ledger_outbox.py`) | `export_status` of each row | claim a batch, publish, mark | several exporters |
| Projection rebuild (`projection_rebuild.py`) | none | replay the journal, compare with the live row | journal, ledger |
| Handoff guard (`handoff_guard.py`) | the trace of transfers, detours | ping-pong and cycle tests, push, persist | turn decision |
| Turn decision (`decide.py`, `contract.py`) | none of its own; a view of the active task for one turn | `decide_turn`: a ladder of steps from the turn's inputs and the control state to ledger operations and a plan | ledger, guard, admission |
| Dispatch phase gates (`dispatch_phase.py`) | none; they read the builder's row and the active task | phase of a build, sync of the ledger to it, which detours a gate suppresses, continue route | the builder's tables, ledger |
| Completion contracts (`claimed_turn_complete_contract.py`, `terminal_completion_contract.py`, `plane_movement.py`) | marks of one turn | arm, heal, terminal outcome, report of an unmoved turn | ledger, dispatch gates |
| Admission at dispatch (`admission_contract.py`) | the admission of one turn | propose, admit, stamp | turn decision, ledger |
| Deferred operations, declarations (`deferred_operation.py`, `semantic_declaration.py`) | records of one operation or turn | validate, compare, continue | turn decision |
| Delivery contracts (`delivery_order_contract.py`, `delivery_mode_contract.py`, `chat_dispatch_contract.py`) | none | order and name the surfaces of an answer | the host's packager |
| Session staleness (`session_staleness.py`, `turn_timeout.py`) | settings | gates and time bounds | ledger, claim |
| Post-save entry (`post_save_setup_entry.py`) | none | recognise finite replies after a save | ledger |
| Kind registry, payload rules (`kind_spec.py`, `control_payload.py`) | static | owner of a kind, what a payload may hold | ledger |

What makes each of them correct:

* **Ledger**: a task has one home, is never lost or duplicated, ends only by its owner or
  the front door, and carries the user's words along; the summary column follows the
  active task; every change of control takes a new revision; the journal accounts for
  what happened; the sweep ends only what is stale, and all of it.
* **Claim**: turns run one at a time, no session waits for itself, a robbed turn cannot
  hurt the thief, the Stop of a running turn is not lost, and whoever keeps asking runs.
* **Journal, outbox, rebuild**: one row per revision; every row is published; replaying
  the rows gives the live view.
* **Guard**: recorded transfers do not bounce.
* **Turn decision, admission**: a gate keeps its task, a decision leaves none behind, its
  plan names the agent its write named, an admission displaces nothing.
* **Gates, completion**: the gates of a build agree on who takes a reply although they
  read different sides; a sync never leaves an open gate unasked; the report of a turn says
  what the turn did.
* **Registry, payload rules**: data; who may end a kind and what a payload keeps enter the
  ledger's properties.

What is hard here:

* **Interleaving.** Some ledger operations lock the row before reading
  (`update_phase`, `suspend_active`, `resume_task`, `drop_suspended_task`,
  `complete_task`, `resolve_switch`); others read with a plain SELECT and write
  later (`begin_task`, the sweep, the summary sync, the plan status, the question).
  Only an optional `expected_version` or the turn claim protects the second kind, and not
  all of it: hydration sweeps before it claims (`turn_session_discipline.py:19`), and no
  code ties the answer to a question or a plan report to a turn.
* **Time.** A claim is stolen after two bounds that are measured from the moment a
  statement was *issued*, on rows that other transactions lock. Tasks and switches
  have horizons of their own.
* **Compounds.** `accept_switch`, `handoff` and the sweep call other operations; the
  journal allows one row per control revision, so two rows in a compound can refuse
  each other and roll everything back.
* **Two sides.** The phase of a build lives in the builder's row and in the ledger. Three
  writers (sync, arm, heal) keep them level, none of them in the other's transaction, and
  each may fail or not be called; a worker writes after the inline rail has answered.
* **Failure.** Processes die between claim and release, statements fail, commands
  are retried with the same id, robbed turns go on.

## Modules

| Module | Models | State and actions |
|---|---|---|
| `ControlLedger` | the ledger and its journal rows, one operation per transaction | `ledger` (one record: active task, parked tasks, switch, question, revision, journal), `clock`, `collided`; an action per public operation |
| `LedgerSessions` | the unlocked operations split into read and write, over `ControlLedger` | adds `doing` and `seen` per session, the plan and what callers reported |
| `TurnMutex` | what the claim promises: turns run one at a time | `inside` |
| `TurnClaim` | the claim, heartbeats, steals, releases, Stop, the request session and its row lock | ages instead of timestamps; an action per statement of a turn, plus `Tick` |
| `HandoffGuard` | the trace of transfers and the test that refuses a bounce | operators on sequences of hops |
| `DecideTurn` | `decide_turn`, the admission at dispatch and the agent's own ledger calls; composes `ControlLedger` and `HandoffGuard` | adds `plan`, `trace`, `since` (which tasks this message opened) and `proposal`; an action per group of steps of the ladder |
| `ProjectionReplay` | both reducers that rebuild a control view from the journal, and the comparison with the live one; over `ControlLedger` | operators; the fold is a recursive function over the revisions |
| `ControlOutbox` | the journal table as an outbox: claim with SKIP LOCKED, publish, mark, commit | row status, stamps, the locked batch of each exporter, what the sink holds; an action per statement, plus `Crash` |
| `AuthoringPlane` | turns of a conversation that authors a workflow: the builder's row, the active task's phase and awaiting, cards shown, marks and report of the turn | an action per call the host makes in a turn (`DecideEarly`, `HealStranded`, `Decide`, `SyncSnapshot`, `ArmFatLeaf`, `FinalizeTurn`, ...) |
| `ControlLedgerProofs`, `JournalProofs`, `ReplayProofs`, `SessionProofs`, `TurnClaimProofs`, `DecideTurnProofs`, `ControlOutboxProofs`, `PlaneProofs` | theorems | |
| `MCControlLedger`, `MCLedgerSessions`, `MCTurnClaim`, `MCDecideTurn`, `MCControlOutbox`, `MCAuthoringPlane` | small instances | |

`LedgerSessions`, `ProjectionReplay` and `DecideTurn` are built over `ControlLedger` and use
its operators; `DecideTurn` adds `HandoffGuard`; `TurnClaim` implements `TurnMutex`, which is
what `DecideTurn` and `AuthoringPlane` rely on when they take one turn at a time.

**How state corresponds to code.** A task record keeps what the operations compare:
id, agent, kind, `pending_ref`, what its payload holds (nothing, something, the
user's words `intake_seed`) and `started_at`. `phase` and `awaiting` are written
but never read by the ledger, so they are left out. A `pending_ref` is a model
value; its two projections (`RefObject`, the part after the first colon;
`RefConv`, after the last) are constants, because `begin_task` and the sweep use
different ones. An entry of `suspended_tasks` carries the revision that wrote it:
the list is only appended to, so that is its order. Task ids are minted as
1, 2, ...; 0 is "no id". A journal row keeps its sequence number, type, command
id, task and the payload fields later code reads.

An operation is an operator from the ledger it finds to the ledger it leaves, for
example `Begin(l, now, b, cmd)`, because `resolve_switch`, `handoff` and the sweep
compose them. `Commit` is the end of a transaction: if the journal's unique keys
refuse a row, the ledger stays as it was and `collided` names the operation.
`StaleCommand` stands for any operation whose `expected_version` fails. Early
returns that write nothing are steps too (`WritesNothing`).

In `TurnClaim` a turn has a request session (`tx`, `lock`) and at most one
statement on a second connection (`stmt`). A statement is issued, waits while a
session holds the row, and takes effect with the `now()` of its issue, which is
what PostgreSQL does; this is why a claim or heartbeat record may carry an age
greater than zero when it is written. The constants say how the host behaves:
`RequestRenew` (the turns that heartbeat on their request session), `HandOver` (the turns
whose host does not roll a failed turn back itself: `release_turn_for_conversation` leaves
the session open on that path, so the turn's row lock outlives it), `Faults`, `RunLimit`,
`MaxWait`, `Beat`. `_turn_cancel` is one slot for all turns: a later Stop overwrites an
earlier one, and `stops` remembers which were acknowledged.

In `DecideTurn` a step of the ladder is an action that returns from a *scene*: the
ledger as the steps above it left it, and the view of the active task that the
function read at its start and keeps although the ledger may change under it.
The steps that repair something and go on (a task whose work got done elsewhere, a
stale question, a hollow draft, a committed build, a card without its awaiting) turn
one scene into the next (`ReadScene`, `AskedScene`, `DraftScene`, `ReleasedScene`,
`HealedScene`); `BelowCommands`, `BelowGates` and `BelowDrafts` say that no step above
returned. A turn's input is a record: the decided act, how it reads against the open
task, its target and confidence, the router's agent, whether the task waits at a gate,
and the tests on the text and on other tables that the turn passes (`finds`), so that
the ladder itself is deterministic. `Decide` runs only while no plan is being
dispatched, because the claim serialises the turns of a conversation; a worker that
answers a message decides it again, which `since` tells from a new message.

In `LedgerSessions` a host has a `law`, chosen at the start: whether it fences its begins with
`expected_version`, whether it claims its turns, and which unlocked operations it runs. An
unlocked operation is a `Read` and, later, a write that uses both what it saw and the row as
it is then. The claim keeps apart only what a turn does after it has claimed (`UnderClaim`:
begins and the summary sync). A sweep, an answer to a question and a plan report are never
kept apart from anything: each may read, wait while other sessions write, and then write.

In `ControlOutbox` a claimed row stays `pending`; only the row locks of the exporter's
transaction tell it from a free one. The host's sink is a table in the same
transaction, a bus that keeps what it was given, or, where the package runs without its
host, a stub that returns for every row and keeps none: there a row is marked exported and
delivered nowhere, which `ExportedWasDelivered` excepts. Poison rows are of two kinds. One
raises before it reaches the database and fails alone. The other is a database error, and
because the loop opens no savepoint it aborts the transaction of its batch, each time, with
the rows published before it and those after it. Failures that pass are of both kinds too.

In `AuthoringPlane` the builder's row is the set of flags it raises (a gate is open, the
build is staffed, compiled, confirmed, committed, named). `Readings` lists the returns of
`project_fine_authoring_phase` in their order, `Fine` takes the first that holds. `context`
is the turn's own copy of the active task, which the sync reads and which the stored task
may have left behind. `screen` is the gate of the last messages shown. `decide_turn` is two steps or one:
`DecideEarly` stands for every return above its branch of the active task (the discovery
detour, `decide.py:334-413`, and the commands and begins below it), where nothing has been
healed; `HealStranded` and then `Decide` for that branch. The heal writes the ledger and
`decide_turn`'s own copy; the turn's `context` keeps what it was. Calls the host may
make anywhere (the sync) are enabled through the stages where it makes them; a call that
fails silently is an action of its own (`HealFails`, `SkipArm`). Functions outside `src/`
that the package imports are constants: the pre-save ladder (`NextLeaf`), the coarse phase
(`Coarse`), the readiness of a commit plan (`CommitReady`), the surface-read contract
(`SoleContinue`). The validation of a phase by the host's phase registry is left out (a
phase the package projects is in it), and a failing sync is a sync that was not called.

## Runs

Every passing run checks questions a unit test would hardly reach; every violation
run shows one statement of the documentation that the code does not keep.

| Run | Question | Bounds |
|---|---|---|
| `lifecycle` | all operations, switches, stale task ids and one retried command id: types, summary column, ownership of completions, revision fence, the user's words, accepted switches | 3 agents, 3 kinds, 3 refs, 4 begin arguments, 4 revisions, clock to 1 |
| `sweep` | the TTL sweep among switches, handoffs, parked and active tasks, both suspension reasons: one home, one entry per stream, tasks open in the journal, no silent loss; which operation can run into the journal's keys with fresh command ids; replay of a gapless journal | horizon 1, clock to 2, 6 revisions: two tasks parked take 4 |
| `turn_law` | the claim with a host that keeps its timing, crashes, failed claims and releases, two turns that are stopped, one whose failure leaves its transaction to the release; refinement of `TurnMutex` | 3 turns: holder, thief, and a late third; the two that may be stopped are symmetric |
| `turn_progress` | liveness under fairness, and robbed turns with their late statements; one turn heartbeats on its own connection, one on its request session; hosts roll back themselves | 2 turns, no limit on a turn's run |
| `sessions` | the unlocked operations in two sessions of a host that fences, one that claims, and one that does both and sweeps before the claim: what the protections keep, and what holds even of a sweep between them | 2 symmetric sessions, 1 plan task, 4 revisions, clock to 1 |
| `decide` | decisions, admissions and the agents' own work: gates keep their task, nothing is left behind, plan and ledger agree, transfers do not bounce, no decision runs into the journal's keys | 3 agents, 6 kinds, 56 turns, 8 pasts of 3 or 4 revisions, 6 revisions, 2 traces: two further writes after a long past, a transfer after a short one |
| `outbox` | exporters that overlap, die, roll back, fail on single rows or in an aborted transaction: nothing lost, nothing delivered twice, every healthy row leaves unless a row that is a database error waits | 3 rows of 2 tenants, 2 exporters of different scope, batches of 2, 2 faults, the three sinks |
| `plane` | turns of a conversation that authors a workflow, inline and in a worker: open gates after a sync, who takes a reply, the report | 2 agents, 5 rows (none, structure reopened after a save, staffed at the domain gate, compiled with a leftover flag, saved), 3 cards, 3 results, 2 messages remembered |
| `accept_collides` | *violation*: `accept_switch` that begins its target writes two rows with one sequence number and rolls back | 4 revisions |
| `immortal_active` | *violation*: the sweep cannot expire an active task whose kind belongs to another agent | 4 revisions |
| `request_renew` | *violation*: a heartbeat on the request session does not protect its turn | 2 turns |
| `advance_unmoved` | *violation*: a turn that advanced its task is reported as one that moved nothing | as `plane` |

### Disagreements shown by configurations of their own

These configurations are not among the runs of `PROJECT.json`. Each checks one property that
restates what a comment says (the section "What the documentation says ..." of its module),
and TLC finds it violated.

| Configuration | The documentation says | The code does |
|---|---|---|
| `MCTurnClaim_release_handover` (`NoSelfBlock`) | `turn_session_discipline.py:142-144`: on failure the session is rolled back "so release's separate connection never waits" on it | the failure path (146-155) is `pass`. A turn that wrote the ledger, fails, and whose host has not rolled back sends its release from a second connection, which waits for the row the turn's own session holds |
| `MCLedgerSessions_plan_rewrite` (`ReportedIsStored`) | `ledger.py:1486`: "full plan rewrite under lock" | the plan is read by a plain SELECT (1490) and written back (1512); of two workers that report at once, one loses its status, although the host claims and fences |
| `MCLedgerSessions_fresh_expired` (`ExpiredWasStale`) | `ledger.py:1661-1664`: "Expired says we stopped waiting, which is what happened" | the sweep judges the age in what it read at 1627 and ends whatever is active later; it runs before the claim (`turn_session_discipline.py:19`), so a task that another session has just begun is ended as expired |
| `MCControlOutbox_aborting_row` (`FailuresAreTheirRows`) | `ledger_outbox.py:129`: "Failures leave rows pending for retry", with a handler around each row | the batch is one transaction without savepoints (143-170): a row with a database error aborts it, its healthy neighbours are not marked, and the next batch is the same one |
| `MCAuthoringPlane_arm_stops` (`ArmStopsStrandings`) | `decide.py:1668-1670`: the heal "only reaches rows stranded before `arm_fat_leaf_awaiting` existed" | a continue clears what was armed (2382) and an answer without a card leaves it so: the heal writes in a conversation in which every card was armed |

The bounds are enough because every property is about at most two tasks, one switch
or two turns at a time (in `decide`: one decision after a past that the ledger's own
operations made, `Starts` and `Histories`): the revisions allow each to be made, parked,
resumed, ended and retried, and every action of the modules is taken in some passing run. Ledger
runs stop at `MaxRevision` and the outbox when all rows have left, so they do not check for
deadlock; the claim's runs and `plane` do. A batch in `outbox` that overlaps another needs
three rows; a card that one message buries needs two messages remembered.
The claim's clock is never bounded: ages saturate one tick above every bound they
are compared with.

**Fairness** (`FairSpec` of `TurnClaim`, used by `turn_progress`). A turn that is refused asks
again (`WF AskForTurn`; the caller of a 409 retries), a transaction is eventually
committed (`WF CommitTx`), a turn ends and is released (`SF FailTurn`,
`WF SendRelease`), and a statement that waits for the row gets it (`SF` on the
statements: PostgreSQL queues row-lock waiters). `HandOver` is empty in this run: nothing in
`src/` bounds how long a release waits for its own session, so where a host hands that over
no turn is promised anything. Time passes (`SF Tick`). Nothing is
assumed of `Crash` or of failing releases: those turns never help anyone, and the
time bounds alone bring the conversation back. `FairSpec` of `ControlOutbox` says that the
worker's idle tick comes back (`WF ClaimExportBatch`) and works its batch off (`WF Work`).
The passing faults are bounded by `MaxFaults`; poison rows are not faults and stay until an
operator skips them, which nothing promises. They are fewer than a batch, without which they
would fill every batch and starve the rest.

## What is proved

`ControlLedgerProofs` (for all agents, kinds, refs, arguments, commands, horizons):

* `Typing`, `SummaryIsOwner`, `RowsStayBelow`. None of the three is inductive over the
  compound operations by itself, so they are proved together: `Sound(l)` says a
  ledger is well typed, its summary names its owner, and its rows lie below its
  revision; one lemma per operation shows that it takes sound ledgers to sound
  ledgers (`BeginSound`, `SuspendSound`, ..., `PruneSound`), and the compounds cite
  those lemmas in the order the code makes the calls. The assumptions are the named
  `ASSUME`s of `ControlLedger`. That the sweep's set of stale entries is finite is
  part of the invariant, because its revision grows by that set's cardinality.
* `TasksHaveOneHome`, `StreamsPauseOnce`, `PauseIsJournaled`: proved together as `Homes(l)`,
  over the same lemmas, because suspension needs that the active task is in no entry and
  resumption that no entry shares its id; `IdsMinted`, that no id is above the counter, is the strengthening that
  makes a new task's id fresh. Operations that park nothing are shown to `Shrinks` the list
  (fewer entries, more rows, an old, absent or fresh active id), which keeps `Homes`;
  suspension and resumption have lemmas of their own, and the compounds cite them.

`JournalProofs`, over `Homes`:

* `RevisionIsFence`: every operation is `Fenced`, and fenced writes compose; the sweep's
  revision grows by the number of stale entries, which is positive when the list changes.
* The journal tells the ledger's story. The inductive invariant `StoryState` adds to `Sound`
  and `Homes`: the positions in the list are distinct and not above the revision (`Queued`), a
  task without an id has no date (`Dated`), the pending switch is the last word of the journal
  on switches (`Matched`), every live task has its begin row and no later row that ends it
  (`AllOpen`), and no two rows share a key. From it follow `AcceptedAfterProposed`,
  `LiveTasksStayOpen`, `CollisionsAreAccepts` and `OneSweepIsEnough`. None of them is inductive
  alone: a sweep expires each entry at a revision of its own only because positions are
  distinct; an accept finds its proposal only because nothing was said on switches after it.
* Steps: one lemma per operation says which rows it writes and what they name (`Wrote`), and
  `OwnersComplete`, `ParkedWordsAreInherited` and `LossesAreJournaled` are read off those. The
  words are compared with the list that the compound leaves behind, because a handoff parks
  the draft it displaces before it begins.
* `LiveTasksStayOpen` and `LossesAreJournaled` assume `~StaleTaskIds`: a caller that completes
  names the active task or none. Without it they are false of the code, because
  `complete_task` writes the id it is given and ends whatever is active.

`ReplayProofs` (for journals of any length; `rebuild_from_db` reads up to 1000 rows, so the
result is about conversations that have no more):

* `GaplessJournalReplays`: replaying a journal without gaps by either reducer gives the live
  control state. `Views(l)` is a recursive function over the row numbers, so what it computes
  is an induction over data; it is done by least counterexample (`LeastNumber`: a set of
  numbers with a member has a smallest one), which gives that the fold exists (`FoldExists`),
  that journals with the same rows up to a number reduce to the same views there
  (`FoldsAgree`), and so what reading one row more does (`RowAdvances`).
* The invariant is `Agrees(l)`: if every number up to the revision has its row and no row
  accepts a switch (`Unbroken`), both views show the ledger's active task and the rebuilt one
  its pending switch. Each operation then does one of three things (`Continues`): it writes
  the next row, which takes the old views to the new ledger (`Follows`); it changes nothing
  the views show (`Stays`); or it raises the revision without a row, as suspension,
  resumption and `update_phase` do, or accepts a switch, after which no journal of this
  conversation is unbroken again (`SilentBreaks`, `LeapBreaks`, `AcceptBreaks`). The sweep is
  gone through stage by stage: in an unbroken journal there is no parked task to expire.

`SessionProofs` (for any number of sessions, under `HostProtects`: a host claims its turns,
or fences its begins with `expected_version` and leaves the summary alone, and does not sweep
while another session writes; answers and plan reports come at any time):

* `SessionsTakeTurns`: every step of the interleaved sessions is a step of `ControlLedger`, a
  write of the plan, or changes neither. The invariant says what an unlocked read is worth at
  its write: under the claim it has the tasks of the ledger as it is, because only answers and
  plan reports came between (`ReadsAreCurrent`); under the fence it differs from the ledger in no control key as
  long as the revision is the same (`ReadsAreFenced`, from `RevisionIsFence`). So the write over what was read
  (`BeginOver`) equals the operation in one piece (`WriteIsOneOperation`), and `StoryState`
  holds of the sessions too.
* `SessionsAreSafe`, `BeginsNameLosses`, `SessionsAreFenced`, `SessionsKeepLiveOpen` and
  `SessionsKeepParked` follow from it. Nothing is proved of a sweep that interleaves with
  other sessions: it may put back an entry that was resumed since it read the list, or end a
  task begun since. What TLC shows of it (a begin still names what it displaces, the revision
  still covers the control keys, a completion is still the owner's) is in `sessions`.

`TurnClaimProofs` (for all turns and bounds):

* `Typing`.
* `SessionLaw`: a turn waits on a second connection for its own row lock only in the release
  after a failure that its host handed over; where no host does (`HandOver = {}`), never. The
  strengthening `LockOwnerWorks` says in which phase and with which session a lock is held.
* `ClaimIsKept`: if the host keeps its timing (`HostKeepsLaw`), a running turn holds
  the claim. The inductive invariant `ClaimInvariant` says a claim in force is never
  older than its holder's last heartbeat plus the wait of the statement that
  carried it, so that no thief's `now()` can be `OrphanTtl` ahead of it.
* `TurnsAreSerialized`: under the same condition `TurnClaim` implements `TurnMutex`.
* `StopsAreKept`: under the same condition no turn uses up the Stop that was acknowledged for
  the one that runs. It rests on the claim: the turn that consumes its marker is the only one
  that runs. A later Stop may still overwrite the slot.
* `ClaimsAreTheHolders`: whatever the host's timing. Late statements of
  a robbed turn exist, so the invariant `Writers` says which phase a statement belongs to, that
  a renewal waiting for its commit keeps the row it renewed, and that a claim's holder has run;
  the tokens in the statements do the rest.

`DecideTurnProofs` (for all agents, turns, pasts and bounds):

* `GuardedPushKeepsNoBounce`: a hop that `would_ping_pong` lets through and
  `push_handoff_trace` records leaves a trace without bounces. It needs what the window
  of recent hops contains (`RecentIsSuffix`) and that trimming the trace to its cap
  keeps it free of bounces (`RecentKeepsNoBounce`).
* `TransfersDoNotBounce`, `DecisionTyping`, `DecisionsKeepSummary`: the invariant
  `TurnState` adds the trace, the plan and the proposal to the ledger's `Sound`. Scenes
  are sound because the repairs are ledger operations (one lemma per scene), every step
  returns a sound ledger and a typed plan (one lemma per step of the ladder, each citing
  the lemmas of the operations it calls in their order), and the dispatched agent's work
  is a step of `ControlLedger`, whose `NextSound` applies. That a resumed task has an
  agent rests on the type of parked entries: only owned tasks are parked.
* `DecisionsNeverCollide`, `PlansTellTheTruth`, `DecisionsLoseNoWork`, `GateOwnersStay`: the
  invariant also has that rows have keys of their own and an active task without an agent is no
  task (`Filed`), and that the plan suits the ledger (`Suits`). Through the repairs of
  a scene one keeps track of the task the turn found: it is active still, or a row names it (`Tracks`); each step of the ladder
  then leaves a ledger that accounts for it. Proved for `~StaleTaskIds`, where the property
  speaks of lost work. `TurnAssumption` says what the pasts and the authoring agents are like:
  a past's rows have unique keys, and an authoring agent's task is a build, the kind that
  `ledger_kind_for_agent` gives it when a handoff names none (`ledger.py:497`,
  `contract.py:170`).
* A decision combines several operations in one transaction, and the properties of steps and
  of the journal must survive that. `Operates(l, new)` is one operation of the ledger, and
  `Reached(l)` says that `l` lies in every set of ledgers that has the ledger the turn found
  and is closed under the operations: each step of the ladder, the repairs of its scene
  included, the admission at dispatch and the agent's work leave a reached ledger
  (`TurnReached`). What one operation preserves, a turn then preserves (`ReachedFenced`,
  `ReachedStory`), with no second pass over the ladder. From it: `DecisionsAreFenced`,
  and, for starts with a story, `DecisionsKeepHomes`, `DecisionsKeepStreams`,
  `DecisionsJournalPauses`, `DecisionsAcceptProposed` and `DecisionsKeepLiveOpen`.
* A start "with a story" (`\A l \in Starts : Story(l)`) is one the ledger's operations may have
  left: `StoryAlways` in `JournalProofs` shows that every ledger `ControlLedger` reaches has
  one. The starts of `MCDecideTurn` have one, and so have all ledgers the run `decide` reaches.

`ControlOutboxProofs` (for all rows, exporters, tenants, batch sizes and sinks):

* `NothingIsLost`, `ExactlyOnce`, `OutboxTyping`: the inductive invariant says that the
  locked batches of two exporters are disjoint, that a batch holds pending rows only, that
  only rows of a batch are published, and that a bus holds what was published before it is
  marked. Exactly-once delivery is claimed for the transactional sink only, and nothing of
  the stub.

`PlaneProofs` (for all rows of the builder, answers, results, ladders and agents):

* `ReportsAreTrue`: the marks of a turn say what it did, and only its end reports it.
* `SyncArmsOpenGate`: rests on `OpenGateIsRead`, which goes through the eleven returns of
  `project_fine_authoring_phase`: a gate the row asks at comes before all that hides it.
* `GateKeepsReply` holds of every pair of row and task, not only of those reached: the
  gates' conditions agree although no transaction keeps the two sides level.

The timing in `HostKeepsLaw` is an assumption about the host: `Tick` is enabled only
while every statement has waited less than `MaxWait`, every running turn is within
`Beat` of its last heartbeat and within `RunLimit` of its claim. The code does not
enforce it; `request_renew` shows what happens without one of its parts.

Only model-checked: liveness (`EveryAskerRuns`, `HealthyRowsLeave`; fairness is out of the
prover's reach), and what `sessions` checks of a host that sweeps between other sessions'
steps. Every other property of a passing run is a theorem. The ledger's theorems
reach interleaved sessions through `SessionsTakeTurns` and turns through `TurnReached`; a host
that neither claims nor fences, or sweeps in between, is outside them. `AuthoringPlane` has no type invariant of its
own: its theorems carry the types they need.

## Not modelled, and why

Free text, telemetry, product wording and payload contents beyond the user's words
do not influence control. `apply_transition` and `apply_transition_request` dispatch
to operations that are modelled. The journal's hash chain is a pure function of the
rows. Code the package imports from its host (phase registry, classifier, pin
contracts) is represented only by what the ledger does with the answer.

* `deferred_operation.py` and `semantic_declaration.py` validate and compare records handed
  from one turn to the next; they keep nothing and call nothing that does.
* `delivery_order_contract.py`, `delivery_mode_contract.py`, `chat_dispatch_contract.py` and
  `multi_turn_stream_contract.py` order, name and check the surfaces of one answer.
* `post_save_setup_entry.py` matches texts and blocks; what follows are begins and
  completions, which `ControlLedger` has with any argument.
* `session_staleness.py` compares two timestamps and renders a card; `AuthoringPlane` has
  the card, `ControlLedger` and `TurnClaim` have the bounds as constants.
* `kind_spec.py` is a table: owners and seed-carrying kinds are constants of the ledger.
* `failure_modes.py`, `product_voice_terms.py`, `sdk_identity.py` and `__init__.py` are
  vocabulary; `reference_host/` and `examples/` are demonstrations.
* In `dispatch_phase.py` the predicates that only forward to a contract outside `src/`, and
  in `handoff_guard.py` the detour trace (159-265), which no code in `src/` calls.
* In the rebuild, the suspended list, phases, and the limit of 1000 rows.
* A caller of `begin_task` may give the task's id itself (`ledger.py:1129`, `1248`; through
  `apply_transition`, 2373-2378). The model mints every id or inherits it, so `OneHomePerTask`
  and `LiveTaskIsOpen` speak of minted ids; a caller that reuses an id is outside them.
* `handoff` takes a kind and a payload for the task it begins (`ledger.py:482-502`); the model
  has the defaults. A payload too large is refused with `ControlPayloadError`
  (`control_payload.py:392-396`), which undoes the whole write; the model has no sizes.
* `ControlLedger` has `sync_agent_type_summary` in one step. The gap between its read and its
  write is in `LedgerSessions` (`SummarySplit`), for hosts that claim their turns.

Hazards that no property covers: what the caller of a `handoff` with a stale switch concludes
from its dictionary (`ledger.py:532`); which clock ages a resumed task (`ledger.py:1913`);
whose card the heal may recover (`claimed_turn_complete_contract.py:237`), where the
documents promise nothing that could be checked; the answer to an old question that clears a
newer one (`ledger.py:978`), which the model does and nothing forbids; the plan report that
is lost (`ledger.py:1490`) and the reader that a stranded card lacks when the reply takes an
early return (`claimed_turn_complete_contract.py:154`), where a property would be false of
the code, as it would be of the first two disagreements at the end. A sync that replaces a
newer task of another agent (`dispatch_phase.py:556`) is a step of `AuthoringPlane`;
`SyncAsksOpenGate` looks at what the task awaits, not at whose it is. `HandoffsDoNotBounce`
judges a hop against the one before it in the recorded trace, not a cycle of three agents.

`decide_turn`'s step 2.75 (`decide.py:535-563`) hands a short message to a contract
outside the package that may write what the model cannot know; it is left out. A plan's
reason and the log of conflicts with the router are left out as wording. Two properties
of `DecideTurn` name the paths they except: a project-create that continues a front-door
task as the advisor's overwrites it by a stub without an id, and a resume after a
completion that the kind's owner rule refused replaces a task that is still active.

## Plan

Written first because everything rests on them: `ControlLedger`, `TurnClaim` and their
proofs; then `LedgerSessions` (the ledger without the claim's protection), `HandoffGuard`
and `DecideTurn` (what turns do to the ledger), `ControlOutbox` and `ProjectionReplay` (what
becomes of the journal), and `AuthoringPlane` (what a conversation that builds something does
over many turns). Safety is proved, of the ledger alone, of sessions that interleave on it and
of the turns that decide over it. Further work would be in what is not modelled: the phases of
a kind, which `update_phase` takes as an argument, and step 2.75 of `decide_turn`.

Disagreements met while modelling that have no run yet: the worker that decides a message
again parks or ends, through the named-handoff and draft branches, the task its message
opened (`decide.py:1893` guards only the new-task branch); `contract.py:192` asks for
resumption by id and `decide.py:2560` resumes by agent; the guard misses a three-agent
cycle behind a leading hop.
