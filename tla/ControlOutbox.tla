--------------------------- MODULE ControlOutbox ---------------------------
(***************************************************************************)
(* The journal table as an outbox.  Ledger transactions append rows with   *)
(* export_status "pending"; exporters (worker ticks) claim a batch with    *)
(* FOR UPDATE SKIP LOCKED, publish its rows one by one and mark those that *)
(* were published.  A claimed row stays pending: the row locks of the      *)
(* exporter's transaction are all that tells it from a free one.           *)
(*                                                                         *)
(* The default sink writes platform events in the exporter's own           *)
(* transaction, which has no savepoints: a database error on one row       *)
(* refuses the whole batch.  A host that exports to a bus publishes at     *)
(* once, and what it published survives a rollback.  Without a host the    *)
(* sink is a stub that returns and keeps nothing.                          *)
(***************************************************************************)
EXTENDS Integers, FiniteSets

CONSTANTS
  Rows,          \* journal rows, numbered in the order in which they commit
  Exporters,     \* worker ticks that may run at the same time
  Tenants,
  TenantOf,      \* the tenant of each row
  ScopeOf,       \* the tenants each exporter claims for: all, or a single one
  Limit,         \* the batch size after clamping
  Sinks,         \* the sinks of the hosts considered
  MaxClock,      \* bounds of the model: created_at stamps, and the failures
  MaxFaults      \* that pass (a lost worker, a publication that works next time)

ASSUME RowAssumption == Rows \subseteq Nat /\ IsFiniteSet(Rows)
ASSUME TenantAssumption ==
  TenantOf \in [Rows -> Tenants] /\ ScopeOf \in [Exporters -> SUBSET Tenants]
ASSUME LimitAssumption == Limit \in 1 .. 500
ASSUME SinkAssumption == Sinks \subseteq {"platform", "bus", "stub"}
ASSUME OutboxBoundAssumption == MaxClock \in Nat /\ MaxFaults \in Nat

VARIABLES
  sink,        \* where this host publishes; it never changes
  status,      \* export_status of each row, "absent" before it is committed
  created,     \* created_at: the start of the transaction that appended the row
  poison,      \* the rows whose publication always "raises", or always "aborts" with
               \* a database error; "no" for the rows that can be published
  batch,       \* per exporter, the rows its transaction has locked
  published,   \* per exporter, the rows of its batch published so far
  failed,      \* per exporter, the rows of its batch whose publication raised
  broken,      \* exporters whose transaction the database has aborted
  delivered,   \* how often the sink holds each row
  faults       \* passing failures so far

exporterVars == <<batch, published, failed, broken>>
vars == <<sink, status, created, poison, batch, published, failed, broken, delivered, faults>>

-----------------------------------------------------------------------------
(* The ledger's side                                                       *)

\* The rows that can never be published.
Poisonous == {r \in Rows : poison[r] # "no"}

\* append_control_event.  A transaction that started earlier may commit later, so
\* created_at does not follow the order of commits.  Fewer rows than one batch are
\* poison: see HealthyRowsLeave.
Append(r) ==
  /\ status[r] = "absent"
  /\ \A s \in Rows : s < r => status[s] # "absent"
  /\ status' = [status EXCEPT ![r] = "pending"]
  /\ \E start \in 0 .. MaxClock : created' = [created EXCEPT ![r] = start]
  /\ \/ UNCHANGED poison
     \/ /\ Cardinality(Poisonous) + 1 < Limit
        /\ \E how \in {"raises", "aborts"} : poison' = [poison EXCEPT ![r] = how]
  /\ UNCHANGED <<sink, exporterVars, delivered, faults>>

-----------------------------------------------------------------------------
(* One exporter                                                            *)

Locked == UNION {batch[e] : e \in Exporters}

\* ORDER BY created_at, seq; the numbers of the rows stand for the sequence numbers.
Before(r, s) == created[r] < created[s] \/ (created[r] = created[s] /\ r < s)

Oldest(S, n) == {r \in S : Cardinality({s \in S : Before(s, r)}) < n}

\* Defect of Claimable: the SELECT takes no row locks.
ClaimableUnlocked(e) == {r \in Rows : status[r] = "pending" /\ TenantOf[r] \in ScopeOf[e]}

\* SKIP LOCKED: pending rows in scope that no exporter has claimed.
Claimable(e) ==
  {r \in Rows : status[r] = "pending" /\ TenantOf[r] \in ScopeOf[e] /\ r \notin Locked}

\* claim_export_batch; with nothing to claim the transaction ends at once.
ClaimExportBatch(e) ==
  /\ batch[e] = {} /\ Claimable(e) # {}
  /\ batch' = [batch EXCEPT ![e] = Oldest(Claimable(e), Limit)]
  /\ UNCHANGED <<sink, status, created, poison, published, failed, broken, delivered, faults>>

\* Defect of Unpublished: a row that failed ends the loop.
UnpublishedUntilFailure(e) ==
  IF failed[e] # {} THEN {} ELSE batch[e] \ published[e]

\* The rows of the batch the loop has not come to.
Unpublished(e) == batch[e] \ (published[e] \cup failed[e])

\* log_platform_event returns: the next row of the batch is published.  The stub of a
\* package without its host returns for every row and delivers none.
PublishRow(e) ==
  /\ e \notin broken
  /\ \E r \in Oldest(Unpublished(e), 1) :
       /\ poison[r] = "no" \/ sink = "stub"
       /\ published' = [published EXCEPT ![e] = @ \cup {r}]
       /\ delivered' = IF sink = "bus" THEN [delivered EXCEPT ![r] = @ + 1] ELSE delivered
  /\ UNCHANGED <<sink, status, created, poison, batch, failed, broken, faults>>

\* log_platform_event raises: the row is poison, the failure passes, or an earlier one
\* was a database error, after which PostgreSQL refuses every statement.  The loop
\* opens no savepoint, so it goes on in the aborted transaction.
PublishFails(e) ==
  /\ sink # "stub"
  /\ \E r \in Oldest(Unpublished(e), 1) :
       /\ failed' = [failed EXCEPT ![e] = @ \cup {r}]
       /\ \/ /\ poison[r] = "raises" \/ e \in broken
             /\ UNCHANGED <<broken, faults>>
          \/ /\ poison[r] = "aborts"
             /\ broken' = IF sink = "platform" THEN broken \cup {e} ELSE broken
             /\ UNCHANGED faults
          \/ /\ poison[r] = "no" /\ faults < MaxFaults /\ faults' = faults + 1
             /\ \/ UNCHANGED broken
                \/ sink = "platform" /\ broken' = broken \cup {e}
  /\ UNCHANGED <<sink, status, created, poison, batch, published, delivered>>

\* The exporter's transaction ends and its locks are free.
Released(e) ==
  /\ batch' = [batch EXCEPT ![e] = {}]
  /\ published' = [published EXCEPT ![e] = {}]
  /\ failed' = [failed EXCEPT ![e] = {}]
  /\ broken' = broken \ {e}

\* Defect of Marked: the whole batch is marked, whatever failed.
MarkedBatch(e) == batch[e]

\* mark_exported is given the published rows.
Marked(e) == published[e]

\* mark_exported and the commit.  The platform events become visible with it.  In an
\* aborted transaction mark_exported raises, or the commit is a rollback.
MarkExported(e) ==
  /\ batch[e] # {} /\ Unpublished(e) = {}
  /\ IF e \in broken THEN UNCHANGED <<status, delivered>>
     ELSE /\ status' = [r \in Rows |-> IF r \in Marked(e) /\ status[r] = "pending"
                                       THEN "exported" ELSE status[r]]
          /\ delivered' = [r \in Rows |->
                             IF sink = "platform" /\ r \in published[e]
                             THEN delivered[r] + 1 ELSE delivered[r]]
  /\ Released(e)
  /\ UNCHANGED <<sink, created, poison, faults>>

\* The worker dies or its host rolls back.
Crash(e) ==
  /\ batch[e] # {} /\ faults < MaxFaults
  /\ faults' = faults + 1
  /\ Released(e)
  /\ UNCHANGED <<sink, status, created, poison, delivered>>

\* mark_exported with status "skipped": an operator gives a row up.  The UPDATE
\* waits for the row's lock, and its WHERE clause wants a pending row.
SkipRow(r) ==
  /\ r \in Poisonous /\ r \notin Locked /\ status[r] = "pending"
  /\ status' = [status EXCEPT ![r] = "skipped"]
  /\ UNCHANGED <<sink, created, poison, exporterVars, delivered, faults>>

-----------------------------------------------------------------------------

Init ==
  /\ sink \in Sinks
  /\ status = [r \in Rows |-> "absent"]
  /\ created = [r \in Rows |-> 0]
  /\ poison = [r \in Rows |-> "no"]
  /\ batch = [e \in Exporters |-> {}]
  /\ published = [e \in Exporters |-> {}]
  /\ failed = [e \in Exporters |-> {}]
  /\ broken = {}
  /\ delivered = [r \in Rows |-> 0]
  /\ faults = 0

Work(e) == PublishRow(e) \/ PublishFails(e) \/ MarkExported(e)

Next ==
  \/ \E r \in Rows : Append(r) \/ SkipRow(r)
  \/ \E e \in Exporters :
       \/ ClaimExportBatch(e) \/ PublishRow(e) \/ PublishFails(e)
       \/ MarkExported(e) \/ Crash(e)

Spec == Init /\ [][Next]_vars

\* The worker's idle tick comes back, and a claimed batch is worked off.
FairSpec ==
  /\ Spec
  /\ \A e \in Exporters : WF_vars(ClaimExportBatch(e)) /\ WF_vars(Work(e))

-----------------------------------------------------------------------------
(* Properties                                                              *)

\* Every variable has its type.
OutboxTypeOK ==
  /\ sink \in Sinks
  /\ status \in [Rows -> {"absent", "pending", "exported", "skipped"}]
  /\ created \in [Rows -> 0 .. MaxClock]
  /\ poison \in [Rows -> {"no", "raises", "aborts"}] /\ broken \subseteq Exporters
  /\ batch \in [Exporters -> SUBSET Rows]
  /\ published \in [Exporters -> SUBSET Rows]
  /\ failed \in [Exporters -> SUBSET Rows]
  /\ delivered \in [Rows -> Nat] /\ faults \in Nat

\* "Async delivery without dual-write loss": a row that left the queue as exported
\* is at the sink, whichever rows of its batch failed and whoever crashed.  The stub is
\* no sink: there every row leaves as exported and is delivered nowhere.
ExportedWasDelivered ==
  sink # "stub" => \A r \in Rows : status[r] = "exported" => delivered[r] > 0

\* export_batch_to_platform_events: a platform event is there once for every
\* exported row and for no other, although exporters overlap, die between
\* publication and commit, and try again.
PlatformDeliversOnce ==
  sink = "platform" =>
    \A r \in Rows : delivered[r] = IF status[r] = "exported" THEN 1 ELSE 0

\* A row waits that aborts the transaction of every exporter that publishes it.
BatchesAbort == sink = "platform" /\ \E r \in Rows : status[r] = "pending" /\ poison[r] = "aborts"

\* "Failures leave rows pending for retry": a row that can be published is exported in
\* the end when some exporter claims for all tenants, although poison rows stay at the
\* head of the queue and are claimed again by every batch.  What can hold it up is a
\* row whose publication is a database error, until an operator skips that row: the
\* batch is one transaction without savepoints.
HealthyRowsLeave ==
  \A r \in Rows :
    status[r] = "pending" /\ poison[r] = "no" ~> status[r] = "exported" \/ BatchesAbort

-----------------------------------------------------------------------------
(* What the documentation says and the code does not keep                  *)

\* "Safe to call from a worker / cron. Failures leave rows pending for retry", with a
\* handler around each row of the loop: one row's failure is its own, and the others
\* are exported.  It fails on the transactional sink, where a row with a database
\* error takes its batch with it, each time.
FailuresAreTheirRows ==
  \A r \in Rows : status[r] = "pending" /\ poison[r] = "no" ~> status[r] = "exported"
=============================================================================
