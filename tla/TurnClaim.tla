------------------------------ MODULE TurnClaim ------------------------------
(***************************************************************************)
(* The turn claim of one conversation (ledger.py, turn_session_discipline) *)
(* and the turns that contend for it.                                      *)
(*                                                                         *)
(* claim_turn, renew_turn_claim and release_turn are single UPDATEs of the *)
(* conversations row on a connection of their own, so each waits while a   *)
(* request transaction holds the row, and each uses now() of the moment it *)
(* was issued.  Time is kept as ages: how many ticks ago a claim was taken *)
(* or renewed, a transaction opened or a statement issued.                 *)
(***************************************************************************)
EXTENDS Integers

CONSTANTS
  Turns, NoTurn,       \* turn ids; no turn
  Ttl, OrphanTtl,      \* turn_claim_ttl and turn_claim_orphan_steal, in ticks
  Beat,                \* the host's heartbeat period
  MaxWait,             \* how long a statement may wait for the row
  RunLimit,            \* how long the host lets a turn run
  RequestRenew,        \* the turns whose host heartbeats on the request session
  HandOver,            \* the turns whose host leaves a rollback to the release helper
  Stoppable,           \* the turns a user may press Stop for
  Faults               \* what may fail: "claim", "renew", "release", "crash"

ASSUME TurnAssumption == NoTurn \notin Turns /\ Stoppable \subseteq Turns

ASSUME TimeAssumption ==
  /\ Ttl \in Nat /\ OrphanTtl \in Nat /\ Beat \in Nat /\ MaxWait \in Nat
  /\ RunLimit \in Nat

ASSUME HostAssumption ==
  /\ RequestRenew \subseteq Turns /\ HandOver \subseteq Turns
  /\ Faults \subseteq {"claim", "renew", "release", "crash"}

VARIABLES
  claim,      \* context._turn_claim, committed
  lock,       \* the turn whose request transaction holds the row
  tx,         \* the request session of each turn
  stmt,       \* the second-connection statement each turn has issued
  phase,      \* where each turn is
  quiet,      \* ticks since each turn's last heartbeat returned
  cancel,     \* context._turn_cancel
  stops       \* the turns whose Stop was acknowledged

vars == <<claim, lock, tx, stmt, phase, quiet, cancel, stops>>

MaxAge == IF Ttl >= OrphanTtl THEN Ttl + MaxWait + 1 ELSE OrphanTtl + MaxWait + 1
Ages == 0 .. MaxAge
Older(age) == IF age < MaxAge THEN age + 1 ELSE age

NoClaim == [turn |-> NoTurn, claimed |-> 0, renewed |-> 0]
ClosedTx == [open |-> FALSE, age |-> 0, renews |-> FALSE]
NoStmt == [op |-> "none", age |-> 0]

Phases == {"new", "busy", "running", "leaving", "done", "crashed"}

-----------------------------------------------------------------------------
(* The request session                                                     *)

\* What a commit of t's request session makes visible: a renewal dated by now()
\* of its transaction, which is when the transaction opened.
Renewed(t) == IF tx[t].renews THEN [claim EXCEPT !.renewed = tx[t].age] ELSE claim

Unlocked(t) == IF lock = t THEN NoTurn ELSE lock

\* A plain read opens the transaction; the row is not locked yet.
OpenTx(t) ==
  /\ phase[t] \in {"new", "running"} /\ stmt[t].op = "none" /\ ~tx[t].open
  /\ tx' = [tx EXCEPT ![t] = [ClosedTx EXCEPT !.open = TRUE]]
  /\ UNCHANGED <<claim, lock, stmt, phase, quiet, cancel, stops>>

\* A ledger operation: SELECT ... FOR UPDATE, before or after the claim.
LockRow(t) ==
  /\ tx[t].open /\ lock = NoTurn /\ stmt[t].op = "none"
  /\ phase[t] \in {"new", "running"}
  /\ lock' = t
  /\ UNCHANGED <<claim, tx, stmt, phase, quiet, cancel, stops>>

\* commit_conversation_session_boundary.
CommitTx(t) ==
  /\ tx[t].open /\ stmt[t].op = "none"
  /\ phase[t] \in {"new", "running"}
  /\ claim' = Renewed(t)
  /\ lock' = Unlocked(t)
  /\ tx' = [tx EXCEPT ![t] = ClosedTx]
  /\ UNCHANGED <<stmt, phase, quiet, cancel, stops>>

-----------------------------------------------------------------------------
(* claim_turn                                                              *)

\* Defects of Claimable: a claim that is exactly as old as the bound is stale; only
\* a released claim may be taken.
ClaimableAtBound(age) ==
  \/ claim.turn = NoTurn
  \/ claim.claimed - age >= Ttl
  \/ claim.renewed - age >= OrphanTtl

ClaimableWhenFree(age) == claim.turn = NoTurn

\* The WHERE clause of the claim, evaluated with now() of "age" ticks ago.
Claimable(age) ==
  \/ claim.turn = NoTurn
  \/ claim.claimed - age > Ttl
  \/ claim.renewed - age > OrphanTtl

\* Defect of AskForTurn: the second connection is opened over the request
\* session's transaction.
AskForTurnUnprepared(t) ==
  /\ phase[t] \in {"new", "busy"} /\ stmt[t].op = "none"
  /\ stmt' = [stmt EXCEPT ![t] = [op |-> "claim", age |-> 0]]
  /\ phase' = [phase EXCEPT ![t] = "new"]
  /\ UNCHANGED <<claim, lock, tx, quiet, cancel, stops>>

\* claim_turn_for_conversation commits the request session first.  A turn that
\* found the claim busy may be sent again.
AskForTurn(t) ==
  /\ phase[t] \in {"new", "busy"} /\ stmt[t].op = "none"
  /\ lock' = Unlocked(t)
  /\ tx' = [tx EXCEPT ![t] = ClosedTx]
  /\ stmt' = [stmt EXCEPT ![t] = [op |-> "claim", age |-> 0]]
  /\ phase' = [phase EXCEPT ![t] = "new"]
  /\ UNCHANGED <<claim, quiet, cancel, stops>>

ClaimTurn(t) ==
  /\ stmt[t].op = "claim" /\ lock = NoTurn
  /\ stmt' = [stmt EXCEPT ![t] = NoStmt]
  /\ \/ /\ Claimable(stmt[t].age)
        /\ claim' = [turn |-> t, claimed |-> stmt[t].age, renewed |-> stmt[t].age]
        /\ phase' = [phase EXCEPT ![t] = "running"]
        /\ quiet' = [quiet EXCEPT ![t] = 0]
     \/ /\ ~Claimable(stmt[t].age)
        /\ phase' = [phase EXCEPT ![t] = "busy"]
        /\ UNCHANGED <<claim, quiet>>
  /\ UNCHANGED <<lock, tx, cancel, stops>>

\* Defect of ClaimFails: the turn runs unclaimed.
ClaimFailsOpen(t) ==
  /\ "claim" \in Faults /\ stmt[t].op = "claim"
  /\ stmt' = [stmt EXCEPT ![t] = NoStmt]
  /\ phase' = [phase EXCEPT ![t] = "running"]
  /\ quiet' = [quiet EXCEPT ![t] = 0]
  /\ UNCHANGED <<claim, lock, tx, cancel, stops>>

\* Fail closed: an infrastructure error never lets the turn run.
ClaimFails(t) ==
  /\ "claim" \in Faults /\ stmt[t].op = "claim"
  /\ stmt' = [stmt EXCEPT ![t] = NoStmt]
  /\ phase' = [phase EXCEPT ![t] = "busy"]
  /\ UNCHANGED <<claim, lock, tx, quiet, cancel, stops>>

-----------------------------------------------------------------------------
(* renew_turn_claim                                                        *)

\* The heartbeat: after a session boundary, on a connection of its own.
SendHeartbeat(t) ==
  /\ t \notin RequestRenew
  /\ phase[t] = "running" /\ stmt[t].op = "none" /\ ~tx[t].open
  /\ stmt' = [stmt EXCEPT ![t] = [op |-> "renew", age |-> 0]]
  /\ UNCHANGED <<claim, lock, tx, phase, quiet, cancel, stops>>

\* Defect of RenewClaim: the heartbeat revives whatever claim is there.
RenewAnyClaim(t) ==
  /\ stmt[t].op = "renew" /\ lock = NoTurn
  /\ stmt' = [stmt EXCEPT ![t] = NoStmt]
  /\ claim' = [claim EXCEPT !.claimed = stmt[t].age, !.renewed = stmt[t].age]
  /\ quiet' = [quiet EXCEPT ![t] = 0]
  /\ UNCHANGED <<lock, tx, phase, cancel, stops>>

\* Only the holder's claim is renewed; the caller ignores a miss.
RenewClaim(t) ==
  /\ stmt[t].op = "renew" /\ lock = NoTurn
  /\ stmt' = [stmt EXCEPT ![t] = NoStmt]
  /\ claim' = IF claim.turn = t THEN [claim EXCEPT !.renewed = stmt[t].age] ELSE claim
  /\ quiet' = [quiet EXCEPT ![t] = 0]
  /\ UNCHANGED <<lock, tx, phase, cancel, stops>>

\* A renewal that fails is not fatal: the heartbeat goes on.
RenewFails(t) ==
  /\ "renew" \in Faults /\ stmt[t].op = "renew"
  /\ stmt' = [stmt EXCEPT ![t] = NoStmt]
  /\ quiet' = [quiet EXCEPT ![t] = 0]
  /\ UNCHANGED <<claim, lock, tx, phase, cancel, stops>>

\* renew_turn_claim with db: the UPDATE joins the request transaction, takes the
\* row and becomes visible when the transaction commits.
RenewOnRequestSession(t) ==
  /\ t \in RequestRenew
  /\ phase[t] = "running" /\ stmt[t].op = "none"
  /\ lock \in {NoTurn, t}
  /\ IF claim.turn = t
     THEN /\ lock' = t
          /\ tx' = [tx EXCEPT ![t] = [@ EXCEPT !.open = TRUE, !.renews = TRUE]]
     ELSE /\ tx' = [tx EXCEPT ![t] = [@ EXCEPT !.open = TRUE]]
          /\ UNCHANGED lock
  /\ quiet' = [quiet EXCEPT ![t] = 0]
  /\ UNCHANGED <<claim, stmt, phase, cancel, stops>>

-----------------------------------------------------------------------------
(* The end of a turn                                                       *)

\* mark_turn_completed and the turn's final commit.
CompleteTurn(t) ==
  /\ phase[t] = "running" /\ stmt[t].op = "none" /\ lock \in {NoTurn, t}
  /\ claim' = Renewed(t)
  /\ lock' = NoTurn
  /\ tx' = [tx EXCEPT ![t] = ClosedTx]
  /\ phase' = [phase EXCEPT ![t] = "leaving"]
  /\ UNCHANGED <<stmt, quiet, cancel, stops>>

\* An exception ends the turn.  A host that passes its session to
\* release_turn_for_conversation leaves the rollback to it, which does none; another
\* host rolls back first.
FailTurn(t) ==
  /\ phase[t] = "running" /\ stmt[t].op = "none"
  /\ phase' = [phase EXCEPT ![t] = "leaving"]
  /\ IF t \in HandOver THEN UNCHANGED <<lock, tx>>
     ELSE lock' = Unlocked(t) /\ tx' = [tx EXCEPT ![t] = ClosedTx]
  /\ UNCHANGED <<claim, stmt, quiet, cancel, stops>>

\* The release is issued whatever the request session still holds.
SendRelease(t) ==
  /\ phase[t] = "leaving" /\ stmt[t].op = "none"
  /\ stmt' = [stmt EXCEPT ![t] = [op |-> "release", age |-> 0]]
  /\ UNCHANGED <<claim, lock, tx, phase, quiet, cancel, stops>>

\* Defect of ReleaseClaim: the release leaves null where the claim was.
ReleaseToNull(t) ==
  /\ stmt[t].op = "release" /\ lock = NoTurn
  /\ claim' = IF claim.turn = t THEN NoTurn ELSE claim
  /\ stmt' = [stmt EXCEPT ![t] = NoStmt]
  /\ phase' = [phase EXCEPT ![t] = "done"]
  /\ UNCHANGED <<lock, tx, quiet, cancel, stops>>

\* Defect of ReleaseClaim: the marker of a Stop is removed with whatever claim is there.
ReleaseClearsStop(t) ==
  /\ stmt[t].op = "release" /\ lock = NoTurn
  /\ claim' = IF claim.turn = t THEN NoClaim ELSE claim
  /\ stmt' = [stmt EXCEPT ![t] = NoStmt]
  /\ tx' = [tx EXCEPT ![t] = ClosedTx]
  /\ phase' = [phase EXCEPT ![t] = "done"]
  /\ cancel' = NoTurn
  /\ UNCHANGED <<lock, quiet, stops>>

\* Only the turn's own claim is removed.  With the release the request is over and the
\* host's session, if it was left open, is closed.
ReleaseClaim(t) ==
  /\ stmt[t].op = "release" /\ lock = NoTurn
  /\ claim' = IF claim.turn = t THEN NoClaim ELSE claim
  /\ stmt' = [stmt EXCEPT ![t] = NoStmt]
  /\ tx' = [tx EXCEPT ![t] = ClosedTx]
  /\ phase' = [phase EXCEPT ![t] = "done"]
  /\ UNCHANGED <<lock, quiet, cancel, stops>>

\* A release that fails is logged, never raised; the time bounds reap the claim.
ReleaseFails(t) ==
  /\ "release" \in Faults /\ stmt[t].op = "release"
  /\ stmt' = [stmt EXCEPT ![t] = NoStmt]
  /\ lock' = Unlocked(t)
  /\ tx' = [tx EXCEPT ![t] = ClosedTx]
  /\ phase' = [phase EXCEPT ![t] = "done"]
  /\ UNCHANGED <<claim, quiet, cancel, stops>>

\* The process dies; the database rolls its sessions back.
Crash(t) ==
  /\ "crash" \in Faults /\ phase[t] \in {"new", "busy", "running", "leaving"}
  /\ phase' = [phase EXCEPT ![t] = "crashed"]
  /\ lock' = Unlocked(t)
  /\ tx' = [tx EXCEPT ![t] = ClosedTx]
  /\ stmt' = [stmt EXCEPT ![t] = NoStmt]
  /\ UNCHANGED <<claim, quiet, cancel, stops>>

-----------------------------------------------------------------------------
(* Stop                                                                    *)

\* request_turn_cancel, committed: one slot, overwritten by the latest Stop.  The
\* user presses Stop for a turn that runs, or for one that has ended meanwhile.
RequestCancel(t) ==
  /\ t \in Stoppable /\ phase[t] \notin {"new", "busy"}
  /\ t \notin stops /\ lock = NoTurn
  /\ cancel' = t
  /\ stops' = stops \cup {t}
  /\ UNCHANGED <<claim, lock, tx, stmt, phase, quiet>>

\* consume_turn_cancel: the turn finds its own marker, removes it and ends.
ConsumeCancel(t) ==
  /\ phase[t] = "running" /\ stmt[t].op = "none" /\ ~tx[t].open /\ lock = NoTurn
  /\ cancel = t
  /\ cancel' = NoTurn
  /\ phase' = [phase EXCEPT ![t] = "leaving"]
  /\ UNCHANGED <<claim, lock, tx, stmt, quiet, stops>>

-----------------------------------------------------------------------------
(* Time.  The guards are the host's timing: a statement gets the row within *)
(* MaxWait, a running turn heartbeats every Beat and runs for RunLimit.    *)

Timely(t) ==
  /\ stmt[t].op # "none" => stmt[t].age < MaxWait
  /\ phase[t] = "running" =>
       /\ stmt[t].op = "none" => quiet[t] < Beat
       /\ claim.turn = t => claim.claimed < RunLimit

Tick ==
  /\ \A t \in Turns : Timely(t)
  /\ claim' = IF claim.turn = NoTurn THEN claim
              ELSE [claim EXCEPT !.claimed = Older(@), !.renewed = Older(@)]
  /\ tx' = [t \in Turns |-> IF tx[t].open THEN [tx[t] EXCEPT !.age = Older(@)] ELSE tx[t]]
  /\ stmt' = [t \in Turns |->
                IF stmt[t].op = "none" THEN stmt[t] ELSE [stmt[t] EXCEPT !.age = Older(@)]]
  /\ quiet' = [t \in Turns |-> IF phase[t] = "running" THEN Older(quiet[t]) ELSE quiet[t]]
  /\ UNCHANGED <<lock, phase, cancel, stops>>

Init ==
  /\ claim = NoClaim
  /\ lock = NoTurn
  /\ tx = [t \in Turns |-> ClosedTx]
  /\ stmt = [t \in Turns |-> NoStmt]
  /\ phase = [t \in Turns |-> "new"]
  /\ quiet = [t \in Turns |-> 0]
  /\ cancel = NoTurn
  /\ stops = {}

TurnNext(t) ==
  \/ OpenTx(t) \/ LockRow(t) \/ CommitTx(t)
  \/ AskForTurn(t) \/ ClaimTurn(t) \/ ClaimFails(t)
  \/ SendHeartbeat(t) \/ RenewClaim(t) \/ RenewFails(t) \/ RenewOnRequestSession(t)
  \/ CompleteTurn(t) \/ FailTurn(t)
  \/ SendRelease(t) \/ ReleaseClaim(t) \/ ReleaseFails(t) \/ Crash(t)
  \/ RequestCancel(t) \/ ConsumeCancel(t)

Next == Tick \/ \E t \in Turns : TurnNext(t)

Spec == Init /\ [][Next]_vars

\* The host keeps going: statements get the row, transactions are committed, turns
\* end within RunLimit and are released, and a refused sender tries again.
Fairness ==
  /\ SF_vars(Tick)
  /\ \A t \in Turns :
       /\ WF_vars(CommitTx(t))
       /\ WF_vars(AskForTurn(t)) /\ SF_vars(ClaimTurn(t))
       /\ SF_vars(RenewClaim(t)) /\ SF_vars(ReleaseClaim(t))
       /\ SF_vars(FailTurn(t)) /\ WF_vars(SendRelease(t))

FairSpec == Spec /\ Fairness

-----------------------------------------------------------------------------
(* Properties                                                              *)

ClaimRecord == [turn : Turns \cup {NoTurn}, claimed : Ages, renewed : Ages]
TxRecord == [open : BOOLEAN, age : Ages, renews : BOOLEAN]
StmtRecord == [op : {"none", "claim", "renew", "release"}, age : Ages]

\* Every variable has its type.
TypeOK ==
  /\ claim \in ClaimRecord
  /\ lock \in Turns \cup {NoTurn}
  /\ tx \in [Turns -> TxRecord]
  /\ stmt \in [Turns -> StmtRecord]
  /\ phase \in [Turns -> Phases]
  /\ quiet \in [Turns -> Ages]
  /\ cancel \in Turns \cup {NoTurn}
  /\ stops \subseteq Turns

\* turn_session_discipline's law is that no turn waits on a second connection for the
\* row its own request session holds, which the database would never resolve: a claim
\* and a heartbeat never do, and a release only where the host left the rollback to the
\* release helper.
OnlyReleaseBlocksItself ==
  \A t \in Turns : lock = t /\ stmt[t].op # "none"
                     => stmt[t].op = "release" /\ t \in HandOver

\* The host keeps the session law and its timing: heartbeats run on a connection of
\* their own and do not fail, a thief's wait and the holder's fit in the steal bound,
\* a turn ends before the hard bound, and steal <= ttl as the settings demand.
HostKeepsLaw ==
  /\ RequestRenew = {} /\ "renew" \notin Faults
  /\ 2 * MaxWait + Beat <= OrphanTtl /\ OrphanTtl <= Ttl /\ RunLimit <= Ttl

\* The claim protects the turn that keeps its timing: while it runs it holds the
\* claim, although a thief may ask between two heartbeats, a heartbeat may wait
\* for the row, and a renewal is dated by the moment it was issued.
HolderKeepsClaim == \A t \in Turns : phase[t] = "running" => claim.turn = t

Mutex == INSTANCE TurnMutex WITH inside <- {t \in Turns : phase[t] = "running"}

\* Turns of one conversation run one at a time.
RunsOneAtATime == Mutex!Spec

\* release_turn "only removes OUR claim" and renew_turn_claim matches turn_id: a claim
\* disappears only when its own holder releases it and gets younger only by its own
\* turn's heartbeat, whatever a turn it was stolen from sends late.
OnlyHolderWrites ==
  [][\A t \in Turns : claim.turn = t =>
        /\ claim'.turn = NoTurn => stmt[t].op = "release" /\ phase'[t] = "done"
        /\ claim'.turn = t /\ claim'.renewed < claim.renewed
             => phase[t] = "running" /\ claim'.claimed = claim.claimed]_vars

\* "A crashed holder can never lock a conversation forever": whoever keeps asking
\* for the turn gets it, whatever crashed or failed to release before.
EveryAskerRuns == \A t \in Turns : phase[t] = "busy" ~> phase[t] \in {"running", "crashed"}

\* request_turn_cancel and consume_turn_cancel share one slot among all turns: while a
\* turn runs whose Stop was acknowledged the slot holds its marker, or that of a Stop
\* pressed later; no end, release or Stop of another turn has emptied it.
StopIsKept == \A t \in stops : phase[t] = "running" => cancel # NoTurn

-----------------------------------------------------------------------------
(* What the documentation says of the release and the code does not do     *)

\* release_turn_for_conversation, "so release's separate connection never waits on this
\* session": no turn waits for the row that its own request session holds.
NoSelfBlock == \A t \in Turns : ~(lock = t /\ stmt[t].op # "none")
=============================================================================
