--------------------------- MODULE TurnClaimProofs ---------------------------
(***************************************************************************)
(* Proofs about TurnClaim, for any turns and any bounds: the types, the    *)
(* session law, the claim's promise to a host that keeps the law, and the  *)
(* Stop slot.                                                              *)
(***************************************************************************)
EXTENDS TurnClaim, TLAPS

-----------------------------------------------------------------------------
(* Ages and records                                                        *)

LEMMA AgesAreNat == MaxAge \in Nat /\ 0 \in Ages /\ Ages \subseteq Nat
  BY TimeAssumption DEF MaxAge, Ages

LEMMA OlderIsAge == \A a \in Ages : Older(a) \in Ages
  BY AgesAreNat DEF Older, Ages

LEMMA ClaimRecords ==
  /\ NoClaim \in ClaimRecord
  /\ \A t \in Turns, a \in Ages : [turn |-> t, claimed |-> a, renewed |-> a] \in ClaimRecord
  /\ \A c \in ClaimRecord, a \in Ages : [c EXCEPT !.renewed = a] \in ClaimRecord
  /\ \A c \in ClaimRecord :
       [c EXCEPT !.claimed = Older(@), !.renewed = Older(@)] \in ClaimRecord
  BY AgesAreNat, OlderIsAge DEF ClaimRecord, NoClaim

LEMMA TxRecords ==
  /\ ClosedTx \in TxRecord /\ [ClosedTx EXCEPT !.open = TRUE] \in TxRecord
  /\ \A x \in TxRecord :
       /\ x.age \in Ages
       /\ [x EXCEPT !.open = TRUE] \in TxRecord
       /\ [x EXCEPT !.open = TRUE, !.renews = TRUE] \in TxRecord
       /\ [x EXCEPT !.age = Older(@)] \in TxRecord
  BY AgesAreNat, OlderIsAge DEF TxRecord, ClosedTx

LEMMA StmtRecords ==
  /\ NoStmt \in StmtRecord
  /\ [op |-> "claim", age |-> 0] \in StmtRecord
  /\ [op |-> "renew", age |-> 0] \in StmtRecord
  /\ [op |-> "release", age |-> 0] \in StmtRecord
  /\ \A s \in StmtRecord : s.age \in Ages /\ [s EXCEPT !.age = Older(@)] \in StmtRecord
  BY AgesAreNat, OlderIsAge DEF StmtRecord, NoStmt

-----------------------------------------------------------------------------
(* Types                                                                   *)

LEMMA InitTypeOK == Init => TypeOK
  BY AgesAreNat, ClaimRecords, TxRecords, StmtRecords DEF Init, TypeOK, Phases

LEMMA TickTypeOK ==
  ASSUME TypeOK, Tick
  PROVE  TypeOK'
<1>1. claim' \in ClaimRecord
  BY ClaimRecords DEF TypeOK, Tick
<1>2. tx' \in [Turns -> TxRecord]
  BY TxRecords DEF TypeOK, Tick
<1>3. stmt' \in [Turns -> StmtRecord]
  BY StmtRecords DEF TypeOK, Tick
<1>4. quiet' \in [Turns -> Ages]
  BY OlderIsAge DEF TypeOK, Tick
<1> QED
  BY <1>1, <1>2, <1>3, <1>4 DEF TypeOK, Tick

LEMMA RenewedType ==
  ASSUME TypeOK, NEW t \in Turns
  PROVE  Renewed(t) \in ClaimRecord
  BY TxRecords, ClaimRecords DEF Renewed, TypeOK

LEMMA TurnTypeOK ==
  ASSUME TypeOK, NEW t \in Turns, TurnNext(t)
  PROVE  TypeOK'
<1> USE AgesAreNat, ClaimRecords, TxRecords, StmtRecords, RenewedType
    DEF TypeOK, Unlocked, Phases
<1>1. CASE OpenTx(t) BY <1>1 DEF OpenTx
<1>2. CASE LockRow(t) BY <1>2 DEF LockRow
<1>3. CASE CommitTx(t) BY <1>3 DEF CommitTx
<1>4. CASE AskForTurn(t) BY <1>4 DEF AskForTurn
<1>5. CASE ClaimTurn(t)
  <2>1. CASE phase' = [phase EXCEPT ![t] = "running"]
    <3>1. stmt[t].age \in Ages
      OBVIOUS
    <3>2. [turn |-> t, claimed |-> stmt[t].age, renewed |-> stmt[t].age] \in ClaimRecord
      BY <3>1, ClaimRecords
    <3>3. claim' \in ClaimRecord
      BY <1>5, <3>2 DEF ClaimTurn
    <3>4. quiet' \in [Turns -> Ages]
      BY <1>5 DEF ClaimTurn
    <3> QED
      BY <1>5, <2>1, <3>3, <3>4 DEF ClaimTurn
  <2>2. CASE phase' = [phase EXCEPT ![t] = "busy"] BY <1>5, <2>2 DEF ClaimTurn
  <2> QED BY <1>5, <2>1, <2>2 DEF ClaimTurn
<1>6. CASE ClaimFails(t) BY <1>6 DEF ClaimFails
<1>7. CASE SendHeartbeat(t) BY <1>7 DEF SendHeartbeat
<1>8. CASE RenewClaim(t) BY <1>8 DEF RenewClaim
<1>9. CASE RenewFails(t) BY <1>9 DEF RenewFails
<1>10. CASE RenewOnRequestSession(t)
  <2>1. tx[t] \in TxRecord
    OBVIOUS
  <2>2. CASE claim.turn = t BY <1>10, <2>1, <2>2 DEF RenewOnRequestSession
  <2>3. CASE claim.turn # t BY <1>10, <2>1, <2>3 DEF RenewOnRequestSession
  <2> QED BY <2>2, <2>3
<1>11. CASE CompleteTurn(t) BY <1>11 DEF CompleteTurn
<1>12. CASE FailTurn(t) BY <1>12 DEF FailTurn
<1>13. CASE SendRelease(t) BY <1>13 DEF SendRelease
<1>14. CASE ReleaseClaim(t) BY <1>14 DEF ReleaseClaim
<1>15. CASE ReleaseFails(t) BY <1>15 DEF ReleaseFails
<1>16. CASE Crash(t) BY <1>16 DEF Crash
<1>17. CASE RequestCancel(t) BY <1>17 DEF RequestCancel
<1>18. CASE ConsumeCancel(t) BY <1>18 DEF ConsumeCancel
<1> QED
  BY <1>1, <1>2, <1>3, <1>4, <1>5, <1>6, <1>7, <1>8, <1>9, <1>10, <1>11, <1>12,
     <1>13, <1>14, <1>15, <1>16, <1>17, <1>18 DEF TurnNext

LEMMA NextTypeOK == TypeOK /\ [Next]_vars => TypeOK'
<1>1. TypeOK /\ UNCHANGED vars => TypeOK'
  BY DEF TypeOK, vars
<1> QED
  BY <1>1, TickTypeOK, TurnTypeOK DEF Next

\* Type correctness of the turn claim.
THEOREM Typing == Spec => []TypeOK
  BY InitTypeOK, NextTypeOK, PTL DEF Spec

-----------------------------------------------------------------------------
(* The session law                                                         *)

\* A turn that holds the row has its request session open.  It is before its claim or
\* running, with no statement under way, or the host has handed its session over to the
\* release.
LockOwnerWorks ==
  \A t \in Turns : lock = t =>
    /\ tx[t].open
    /\ \/ phase[t] \in {"new", "running"} /\ stmt[t].op = "none"
       \/ phase[t] = "leaving" /\ t \in HandOver /\ stmt[t].op \in {"none", "release"}

LEMMA InitLockOwner == Init => LockOwnerWorks
  BY TurnAssumption DEF Init, LockOwnerWorks, NoStmt

LEMMA TurnLockOwner ==
  ASSUME TypeOK, LockOwnerWorks, NEW t \in Turns, TurnNext(t)
  PROVE  LockOwnerWorks'
<1> USE TurnAssumption DEF LockOwnerWorks, Unlocked, NoStmt, ClosedTx, TypeOK, TxRecord
<1>1. CASE OpenTx(t) BY <1>1 DEF OpenTx
<1>2. CASE LockRow(t) BY <1>2 DEF LockRow
<1>3. CASE CommitTx(t) BY <1>3 DEF CommitTx
<1>4. CASE AskForTurn(t) BY <1>4 DEF AskForTurn
<1>5. CASE ClaimTurn(t) BY <1>5 DEF ClaimTurn
<1>6. CASE ClaimFails(t) BY <1>6 DEF ClaimFails
<1>7. CASE SendHeartbeat(t) BY <1>7 DEF SendHeartbeat
<1>8. CASE RenewClaim(t) BY <1>8 DEF RenewClaim
<1>9. CASE RenewFails(t) BY <1>9 DEF RenewFails
<1>10. CASE RenewOnRequestSession(t)
  <2>1. CASE claim.turn = t
    <3>0. tx'[t] = [tx[t] EXCEPT !.open = TRUE, !.renews = TRUE]
      BY <1>10, <2>1 DEF RenewOnRequestSession
    <3>1. tx[t] \in TxRecord /\ tx'[t].open
      BY <3>0
    <3>2. \A u \in Turns \ {t} : lock' # u
      BY <1>10, <2>1 DEF RenewOnRequestSession
    <3> QED
      BY <1>10, <3>1, <3>2 DEF RenewOnRequestSession
  <2>2. CASE claim.turn # t BY <1>10, <2>2 DEF RenewOnRequestSession
  <2> QED BY <2>1, <2>2
<1>11. CASE CompleteTurn(t) BY <1>11 DEF CompleteTurn
<1>12. CASE FailTurn(t) BY <1>12 DEF FailTurn
<1>13. CASE SendRelease(t) BY <1>13 DEF SendRelease
<1>14. CASE ReleaseClaim(t) BY <1>14 DEF ReleaseClaim
<1>15. CASE ReleaseFails(t) BY <1>15 DEF ReleaseFails
<1>16. CASE Crash(t) BY <1>16 DEF Crash
<1>17. CASE RequestCancel(t) BY <1>17 DEF RequestCancel
<1>18. CASE ConsumeCancel(t) BY <1>18 DEF ConsumeCancel
<1> QED
  BY <1>1, <1>2, <1>3, <1>4, <1>5, <1>6, <1>7, <1>8, <1>9, <1>10, <1>11, <1>12,
     <1>13, <1>14, <1>15, <1>16, <1>17, <1>18 DEF TurnNext

LEMMA TickLockOwner ==
  ASSUME TypeOK, LockOwnerWorks, Tick
  PROVE  LockOwnerWorks'
  BY DEF LockOwnerWorks, Tick, TypeOK, TxRecord, StmtRecord

LEMMA LockOwner == Spec => []LockOwnerWorks
<1>1. TypeOK /\ LockOwnerWorks /\ [Next]_vars => LockOwnerWorks'
  <2>1. LockOwnerWorks /\ UNCHANGED vars => LockOwnerWorks'
    BY DEF LockOwnerWorks, vars
  <2> QED
    BY <2>1, TickLockOwner, TurnLockOwner DEF Next
<1> QED
  BY <1>1, InitLockOwner, Typing, PTL DEF Spec

\* turn_session_discipline: no claim and no heartbeat waits on a second connection for a
\* row that its own turn holds; a release does only where the host handed the session
\* over to it.  A host that always rolls back itself never waits for itself.
THEOREM SessionLaw ==
  /\ Spec => []OnlyReleaseBlocksItself
  /\ HandOver = {} => (Spec => []NoSelfBlock)
<1>1. LockOwnerWorks => OnlyReleaseBlocksItself
  BY DEF LockOwnerWorks, OnlyReleaseBlocksItself
<1>2. Spec => []OnlyReleaseBlocksItself
  BY <1>1, LockOwner, PTL
<1>3. ASSUME HandOver = {}
      PROVE  Spec => []NoSelfBlock
  <2>1. OnlyReleaseBlocksItself => NoSelfBlock
    BY <1>3 DEF OnlyReleaseBlocksItself, NoSelfBlock
  <2> QED
    BY <1>2, <2>1, PTL
<1> QED
  BY <1>2, <1>3

-----------------------------------------------------------------------------
(* The promise of the claim                                                *)

\* Statements belong to their phase, and none waits longer than MaxWait.
StatementsInPhase ==
  \A t \in Turns :
    /\ stmt[t].age <= MaxWait
    /\ stmt[t].op = "none" => stmt[t].age = 0
    /\ stmt[t].op = "claim" => phase[t] = "new"
    /\ stmt[t].op = "renew" => phase[t] = "running"
    /\ stmt[t].op = "release" => phase[t] = "leaving"

\* No request session renews the claim.
RenewsApart == \A t \in Turns : ~tx[t].renews

\* A running turn holds a claim that is renewed often enough: the renewal is at most
\* one wait older than the last heartbeat, the last heartbeat is at most one beat
\* old when the next is issued, and the claim has not reached its hard bound.
RunningIsProtected ==
  \A t \in Turns : phase[t] = "running" =>
    /\ claim.turn = t
    /\ claim.claimed <= Ttl
    /\ claim.renewed <= quiet[t] + MaxWait
    /\ quiet[t] <= Beat + stmt[t].age

ClaimInvariant == StatementsInPhase /\ RenewsApart /\ RunningIsProtected

LEMMA InitClaim == Init => ClaimInvariant
  BY TimeAssumption DEF Init, ClaimInvariant, StatementsInPhase, RenewsApart,
     RunningIsProtected, NoStmt, ClosedTx

LEMMA TurnStatements ==
  ASSUME TypeOK, StatementsInPhase, NEW t \in Turns, TurnNext(t)
  PROVE  StatementsInPhase'
<1> USE TimeAssumption DEF StatementsInPhase, NoStmt, TypeOK, StmtRecord
<1>1. CASE OpenTx(t) BY <1>1 DEF OpenTx
<1>2. CASE LockRow(t) BY <1>2 DEF LockRow
<1>3. CASE CommitTx(t) BY <1>3 DEF CommitTx
<1>4. CASE AskForTurn(t) BY <1>4 DEF AskForTurn
<1>5. CASE ClaimTurn(t) BY <1>5 DEF ClaimTurn
<1>6. CASE ClaimFails(t) BY <1>6 DEF ClaimFails
<1>7. CASE SendHeartbeat(t) BY <1>7 DEF SendHeartbeat
<1>8. CASE RenewClaim(t) BY <1>8 DEF RenewClaim
<1>9. CASE RenewFails(t) BY <1>9 DEF RenewFails
<1>10. CASE RenewOnRequestSession(t) BY <1>10 DEF RenewOnRequestSession
<1>11. CASE CompleteTurn(t) BY <1>11 DEF CompleteTurn
<1>12. CASE FailTurn(t) BY <1>12 DEF FailTurn
<1>13. CASE SendRelease(t) BY <1>13 DEF SendRelease
<1>14. CASE ReleaseClaim(t) BY <1>14 DEF ReleaseClaim
<1>15. CASE ReleaseFails(t) BY <1>15 DEF ReleaseFails
<1>16. CASE Crash(t) BY <1>16 DEF Crash
<1>17. CASE RequestCancel(t) BY <1>17 DEF RequestCancel
<1>18. CASE ConsumeCancel(t) BY <1>18 DEF ConsumeCancel
<1> QED
  BY <1>1, <1>2, <1>3, <1>4, <1>5, <1>6, <1>7, <1>8, <1>9, <1>10, <1>11, <1>12,
     <1>13, <1>14, <1>15, <1>16, <1>17, <1>18 DEF TurnNext

LEMMA TickStatements ==
  ASSUME TypeOK, StatementsInPhase, Tick
  PROVE  StatementsInPhase'
<1> SUFFICES ASSUME NEW t \in Turns
             PROVE  /\ stmt'[t].age <= MaxWait
                    /\ stmt'[t].op = stmt[t].op
                    /\ stmt'[t].op = "none" => stmt'[t].age = 0
  BY DEF StatementsInPhase, Tick
<1>1. stmt[t] \in StmtRecord /\ stmt[t].age \in Nat
  BY AgesAreNat DEF TypeOK, StmtRecord
<1>2. CASE stmt[t].op = "none"
  BY <1>2 DEF Tick, StatementsInPhase
<1>3. CASE stmt[t].op # "none"
  <2>1. stmt'[t] = [stmt[t] EXCEPT !.age = Older(@)]
    BY <1>3 DEF Tick
  <2>2. stmt[t].age < MaxWait
    BY <1>3 DEF Tick, Timely
  <2>3. Older(stmt[t].age) <= MaxWait
    BY <1>1, <2>2, TimeAssumption DEF Older
  <2> QED
    BY <1>1, <1>3, <2>1, <2>3 DEF StmtRecord
<1> QED
  BY <1>2, <1>3

LEMMA RenewsStayApart ==
  ASSUME HostKeepsLaw, TypeOK, RenewsApart, Next
  PROVE  RenewsApart'
<1> USE DEF RenewsApart, TypeOK, TxRecord, ClosedTx
<1>1. CASE Tick BY <1>1 DEF Tick
<1>2. ASSUME NEW t \in Turns, TurnNext(t) PROVE RenewsApart'
  BY <1>2 DEF TurnNext, OpenTx, LockRow, CommitTx, AskForTurn, ClaimTurn, ClaimFails,
     SendHeartbeat, RenewClaim, RenewFails, RenewOnRequestSession, CompleteTurn,
     FailTurn, SendRelease, ReleaseClaim, ReleaseFails, Crash, RequestCancel,
     ConsumeCancel, HostKeepsLaw
<1> QED
  BY <1>1, <1>2 DEF Next

\* While a running turn is protected, nobody's claim statement succeeds.
LEMMA NotStolen ==
  ASSUME HostKeepsLaw, TypeOK, ClaimInvariant,
         NEW t \in Turns, phase[t] = "running",
         NEW u \in Turns
  PROVE  ~Claimable(stmt[u].age)
<1>1. /\ claim.claimed \in Nat /\ claim.renewed \in Nat
      /\ quiet[t] \in Nat /\ stmt[t].age \in Nat /\ stmt[u].age \in Nat
  BY AgesAreNat DEF TypeOK, ClaimRecord, StmtRecord
<1>2. /\ claim.turn = t /\ claim.claimed <= Ttl
      /\ claim.renewed <= quiet[t] + MaxWait /\ quiet[t] <= Beat + stmt[t].age
      /\ stmt[t].age <= MaxWait
  BY DEF ClaimInvariant, RunningIsProtected, StatementsInPhase
<1>3. claim.renewed <= OrphanTtl
  BY <1>1, <1>2, TimeAssumption DEF HostKeepsLaw
<1> QED
  BY <1>1, <1>2, <1>3, TimeAssumption, TurnAssumption DEF Claimable

LEMMA TurnProtected ==
  ASSUME HostKeepsLaw, TypeOK, ClaimInvariant, NEW t \in Turns, TurnNext(t)
  PROVE  RunningIsProtected'
<1> SUFFICES ASSUME NEW u \in Turns, phase'[u] = "running"
             PROVE  /\ claim'.turn = u
                    /\ claim'.claimed <= Ttl
                    /\ claim'.renewed <= quiet'[u] + MaxWait
                    /\ quiet'[u] <= Beat + stmt'[u].age
  BY DEF RunningIsProtected
<1>1. phase[u] = "running" =>
        /\ claim.turn = u /\ claim.claimed <= Ttl
        /\ claim.renewed <= quiet[u] + MaxWait /\ quiet[u] <= Beat + stmt[u].age
  BY DEF ClaimInvariant, RunningIsProtected
<1>2. /\ claim.claimed \in Nat /\ claim.renewed \in Nat
      /\ \A v \in Turns : quiet[v] \in Nat /\ stmt[v].age \in Nat
  BY AgesAreNat DEF TypeOK, ClaimRecord, StmtRecord
<1>3. Renewed(t) = claim
  BY DEF Renewed, ClaimInvariant, RenewsApart
<1>4. \A v \in Turns : phase'[v] = "running" /\ v # t => phase[v] = "running"
  BY DEF TurnNext, OpenTx, LockRow, CommitTx, AskForTurn, ClaimTurn, ClaimFails,
     SendHeartbeat, RenewClaim, RenewFails, RenewOnRequestSession, CompleteTurn,
     FailTurn, SendRelease, ReleaseClaim, ReleaseFails, Crash, RequestCancel,
     ConsumeCancel, TypeOK
<1> USE TimeAssumption, TurnAssumption DEF TypeOK, NoStmt
<1>5. CASE OpenTx(t) \/ LockRow(t) \/ CommitTx(t) \/ RequestCancel(t)
  BY <1>1, <1>3, <1>5 DEF OpenTx, LockRow, CommitTx, RequestCancel
<1>6. CASE AskForTurn(t)
  BY <1>1, <1>6 DEF AskForTurn
<1>7. CASE ClaimTurn(t)
  <2>1. CASE Claimable(stmt[t].age)
    <3>1. \A v \in Turns : phase[v] # "running"
      BY <2>1, NotStolen
    <3>2. u = t
      BY <1>4, <3>1
    <3>3. /\ claim'.turn = t /\ claim'.claimed = stmt[t].age
          /\ claim'.renewed = stmt[t].age /\ quiet'[t] = 0 /\ stmt'[t].age = 0
      BY <1>7, <2>1 DEF ClaimTurn
    <3>4. stmt[t].age <= MaxWait /\ MaxWait <= Ttl
      BY <1>2 DEF ClaimInvariant, StatementsInPhase, HostKeepsLaw
    <3> QED
      BY <1>2, <3>2, <3>3, <3>4
  <2>2. CASE ~Claimable(stmt[t].age)
    BY <1>1, <1>7, <2>2 DEF ClaimTurn
  <2> QED
    BY <2>1, <2>2
<1>8. CASE ClaimFails(t)
  BY <1>1, <1>8 DEF ClaimFails
<1>9. CASE SendHeartbeat(t)
  BY <1>1, <1>9 DEF SendHeartbeat, ClaimInvariant, StatementsInPhase
<1>10. CASE RenewClaim(t)
  <2>1. phase[t] = "running" /\ stmt[t].age <= MaxWait
    BY <1>10 DEF RenewClaim, ClaimInvariant, StatementsInPhase
  <2>2. claim.turn = t
    BY <2>1 DEF ClaimInvariant, RunningIsProtected
  <2>3. u = t
    BY <1>1, <1>4, <2>2
  <2>4. /\ claim'.turn = t /\ claim'.claimed = claim.claimed
        /\ claim'.renewed = stmt[t].age /\ quiet'[t] = 0 /\ stmt'[t].age = 0
    BY <1>10, <2>2 DEF RenewClaim, ClaimRecord
  <2> QED
    BY <1>1, <1>2, <2>1, <2>3, <2>4
<1>11. CASE RenewFails(t) \/ RenewOnRequestSession(t)
  BY <1>11 DEF RenewFails, RenewOnRequestSession, HostKeepsLaw
<1>12. CASE CompleteTurn(t) \/ FailTurn(t) \/ SendRelease(t) \/ ConsumeCancel(t)
  BY <1>1, <1>3, <1>12 DEF CompleteTurn, FailTurn, SendRelease, ConsumeCancel
<1>13. CASE ReleaseClaim(t) \/ ReleaseFails(t)
  <2>1. phase[t] = "leaving"
    BY <1>13 DEF ReleaseClaim, ReleaseFails, ClaimInvariant, StatementsInPhase
  <2>2. u # t
    BY <1>13 DEF ReleaseClaim, ReleaseFails
  <2>3. claim.turn # t
    BY <1>1, <1>4, <2>2
  <2> QED
    BY <1>1, <1>4, <1>13, <2>2, <2>3 DEF ReleaseClaim, ReleaseFails
<1>14. CASE Crash(t)
  BY <1>1, <1>14 DEF Crash
<1> QED
  BY <1>5, <1>6, <1>7, <1>8, <1>9, <1>10, <1>11, <1>12, <1>13, <1>14 DEF TurnNext

LEMMA TickProtected ==
  ASSUME HostKeepsLaw, TypeOK, ClaimInvariant, Tick
  PROVE  RunningIsProtected'
<1> SUFFICES ASSUME NEW t \in Turns, phase[t] = "running"
             PROVE  /\ claim'.turn = t
                    /\ claim'.claimed <= Ttl
                    /\ claim'.renewed <= quiet'[t] + MaxWait
                    /\ quiet'[t] <= Beat + stmt'[t].age
  BY DEF RunningIsProtected, Tick
<1>1. /\ claim.turn = t /\ claim.renewed <= quiet[t] + MaxWait
      /\ quiet[t] <= Beat + stmt[t].age /\ stmt[t].age <= MaxWait
      /\ stmt[t].op = "none" => stmt[t].age = 0
  BY DEF ClaimInvariant, RunningIsProtected, StatementsInPhase
<1>2. /\ claim \in ClaimRecord /\ stmt[t] \in StmtRecord /\ stmt[t].age \in Nat
      /\ claim.claimed \in Nat /\ claim.renewed \in Nat /\ quiet[t] \in Nat
  BY AgesAreNat DEF TypeOK, ClaimRecord, StmtRecord
<1>3. /\ stmt[t].op # "none" => stmt[t].age < MaxWait
      /\ stmt[t].op = "none" => quiet[t] < Beat
      /\ claim.claimed < RunLimit
  BY <1>1 DEF Tick, Timely
<1>4. \A a \in Nat : Older(a) \in Nat /\ Older(a) <= a + 1 /\ (a < MaxAge => Older(a) = a + 1)
  BY AgesAreNat DEF Older
<1>5. /\ claim'.turn = t /\ claim'.claimed = Older(claim.claimed)
      /\ claim'.renewed = Older(claim.renewed) /\ quiet'[t] = Older(quiet[t])
  BY <1>1, <1>2, TurnAssumption DEF Tick, ClaimRecord
<1>6. quiet[t] < MaxAge /\ stmt[t].age < MaxAge
  BY <1>1, <1>2, TimeAssumption DEF MaxAge, HostKeepsLaw
<1>7. stmt'[t].age = IF stmt[t].op = "none" THEN 0 ELSE stmt[t].age + 1
  BY <1>1, <1>2, <1>4, <1>6 DEF Tick, StmtRecord
<1> QED
  BY <1>1, <1>2, <1>3, <1>4, <1>5, <1>6, <1>7, TimeAssumption DEF HostKeepsLaw

LEMMA ClaimInvariantHolds ==
  ASSUME HostKeepsLaw
  PROVE  Spec => []ClaimInvariant
<1>1. TypeOK /\ ClaimInvariant /\ [Next]_vars => ClaimInvariant'
  <2>1. ClaimInvariant /\ UNCHANGED vars => ClaimInvariant'
    BY DEF ClaimInvariant, StatementsInPhase, RenewsApart, RunningIsProtected, vars
  <2>2. TypeOK /\ ClaimInvariant /\ Next => ClaimInvariant'
    BY RenewsStayApart, TickStatements, TurnStatements, TickProtected, TurnProtected
    DEF Next, ClaimInvariant
  <2> QED
    BY <2>1, <2>2
<1> QED
  BY <1>1, InitClaim, Typing, PTL DEF Spec

\* renew_turn_claim and claim_turn: a turn whose host keeps the law holds the claim
\* for as long as it runs.
THEOREM ClaimIsKept ==
  ASSUME HostKeepsLaw
  PROVE  Spec => []HolderKeepsClaim
<1>1. ClaimInvariant => HolderKeepsClaim
  BY DEF ClaimInvariant, RunningIsProtected, HolderKeepsClaim
<1> QED
  BY <1>1, ClaimInvariantHolds, PTL

\* Nothing else than a claim lets a turn run, and a claim is only taken when no turn
\* runs: the turns of a host that keeps the law implement TurnMutex.
LEMMA StepIsMutexStep ==
  ASSUME HostKeepsLaw, TypeOK, ClaimInvariant, [Next]_vars
  PROVE  [Mutex!Next]_{t \in Turns : phase[t] = "running"}
<1> DEFINE Inside == {t \in Turns : phase[t] = "running"}
<1>1. CASE UNCHANGED vars
  BY <1>1 DEF vars
<1>2. CASE Tick
  BY <1>2 DEF Tick
<1>3. ASSUME NEW t \in Turns, TurnNext(t)
      PROVE  [Mutex!Next]_Inside
  <2>1. CASE ClaimTurn(t) /\ Claimable(stmt[t].age)
    <3>1. Inside = {}
      BY <2>1, NotStolen
    <3>2. Inside' = {t}
      BY <2>1, <3>1 DEF ClaimTurn, TypeOK
    <3> QED
      BY <3>1, <3>2 DEF Mutex!Next, Mutex!Enter
  <2>2. CASE ~(ClaimTurn(t) /\ Claimable(stmt[t].age))
    <3>1. UNCHANGED phase \/ \E p \in Phases \ {"running"} : phase' = [phase EXCEPT ![t] = p]
      BY <1>3, <2>2 DEF TurnNext, OpenTx, LockRow, CommitTx, AskForTurn, ClaimTurn,
         ClaimFails, SendHeartbeat, RenewClaim, RenewFails, RenewOnRequestSession,
         CompleteTurn, FailTurn, SendRelease, ReleaseClaim, ReleaseFails, Crash,
         RequestCancel, ConsumeCancel, Phases
    <3>2. Inside' = Inside \/ (t \in Inside /\ Inside' = Inside \ {t})
      BY <3>1 DEF TypeOK
    <3> QED
      BY <3>2 DEF Mutex!Next, Mutex!Leave
  <2> QED
    BY <2>1, <2>2
<1> QED
  BY <1>1, <1>2, <1>3 DEF Next

\* The claim serializes the turns of a conversation.
THEOREM TurnsAreSerialized ==
  ASSUME HostKeepsLaw
  PROVE  Spec => RunsOneAtATime
<1>1. Init => Mutex!Init
  BY DEF Init, Mutex!Init
<1> QED
  BY <1>1, StepIsMutexStep, ClaimInvariantHolds, Typing, PTL
  DEF Spec, RunsOneAtATime, Mutex!Spec

-----------------------------------------------------------------------------
(* Who writes the claim and the marker                                     *)

\* A renewal that waits for the commit is the holder's, which keeps the row until then
\* and is running or has failed; and who holds the claim has it for a turn that once ran.
RenewalsHold ==
  \A t \in Turns : tx[t].renews =>
    lock = t /\ claim.turn = t /\ phase[t] \in {"running", "leaving"}

HolderHasRun == \A t \in Turns : claim.turn = t => phase[t] \notin {"new", "busy"}

Writers == StatementsInPhase /\ RenewalsHold /\ HolderHasRun

LEMMA RenewedKeepsTurn ==
  ASSUME TypeOK, NEW t \in Turns
  PROVE  /\ Renewed(t).turn = claim.turn /\ Renewed(t).claimed = claim.claimed
         /\ ~tx[t].renews => Renewed(t) = claim
  BY DEF Renewed, TypeOK, ClaimRecord

LEMMA TurnWriters ==
  ASSUME TypeOK, Writers, NEW t \in Turns, TurnNext(t)
  PROVE  RenewalsHold' /\ HolderHasRun'
<1> USE TurnAssumption DEF Writers, RenewalsHold, HolderHasRun, StatementsInPhase, Unlocked,
        ClosedTx, TypeOK, TxRecord
<1>1. CASE OpenTx(t) BY <1>1 DEF OpenTx
<1>2. CASE LockRow(t) BY <1>2 DEF LockRow
<1>3. CASE CommitTx(t) BY <1>3, RenewedKeepsTurn DEF CommitTx
<1>4. CASE AskForTurn(t) BY <1>4 DEF AskForTurn
<1>5. CASE ClaimTurn(t) BY <1>5 DEF ClaimTurn
<1>6. CASE ClaimFails(t) BY <1>6 DEF ClaimFails
<1>7. CASE SendHeartbeat(t) BY <1>7 DEF SendHeartbeat
<1>8. CASE RenewClaim(t) BY <1>8 DEF RenewClaim, ClaimRecord
<1>9. CASE RenewFails(t) BY <1>9 DEF RenewFails
<1>10. CASE RenewOnRequestSession(t)
  <2>1. /\ phase' = phase /\ claim' = claim /\ phase[t] = "running"
        /\ \A u \in Turns \ {t} : tx'[u] = tx[u]
        /\ lock \in {NoTurn, t}
    BY <1>10 DEF RenewOnRequestSession
  <2>2. CASE claim.turn = t
    BY <1>10, <2>1, <2>2 DEF RenewOnRequestSession
  <2>3. CASE claim.turn # t
    <3>1. tx'[t].renews = tx[t].renews /\ lock' = lock
      BY <1>10, <2>3 DEF RenewOnRequestSession
    <3> QED
      BY <2>1, <3>1
  <2> QED
    BY <2>2, <2>3
<1>11. CASE CompleteTurn(t) BY <1>11, RenewedKeepsTurn DEF CompleteTurn
<1>12. CASE FailTurn(t) BY <1>12 DEF FailTurn
<1>13. CASE SendRelease(t) BY <1>13 DEF SendRelease
<1>14. CASE ReleaseClaim(t) BY <1>14 DEF ReleaseClaim, NoClaim
<1>15. CASE ReleaseFails(t) BY <1>15 DEF ReleaseFails
<1>16. CASE Crash(t) BY <1>16 DEF Crash
<1>17. CASE RequestCancel(t) BY <1>17 DEF RequestCancel
<1>18. CASE ConsumeCancel(t) BY <1>18 DEF ConsumeCancel
<1> QED
  BY <1>1, <1>2, <1>3, <1>4, <1>5, <1>6, <1>7, <1>8, <1>9, <1>10, <1>11, <1>12,
     <1>13, <1>14, <1>15, <1>16, <1>17, <1>18 DEF TurnNext

LEMMA TickWriters ==
  ASSUME TypeOK, Writers, Tick
  PROVE  RenewalsHold' /\ HolderHasRun'
<1>1. claim'.turn = claim.turn /\ lock' = lock /\ phase' = phase
  BY DEF Tick, TypeOK, ClaimRecord
<1>2. \A t \in Turns : tx'[t].renews = tx[t].renews
  BY DEF Tick, TypeOK, TxRecord
<1> QED
  BY <1>1, <1>2 DEF Writers, RenewalsHold, HolderHasRun

LEMMA WritersAlways == Spec => []Writers
<1>1. Init => Writers
  BY InitClaim, TurnAssumption
  DEF Init, Writers, ClaimInvariant, RenewalsHold, HolderHasRun, NoClaim, ClosedTx
<1>2. TypeOK /\ Writers /\ [Next]_vars => Writers'
  <2>1. Writers /\ UNCHANGED vars => Writers'
    BY DEF Writers, StatementsInPhase, RenewalsHold, HolderHasRun, vars
  <2>2. TypeOK /\ Writers /\ Next => Writers'
    BY TickStatements, TurnStatements, TickWriters, TurnWriters DEF Next, Writers
  <2> QED
    BY <2>1, <2>2
<1> QED
  BY <1>1, <1>2, Typing, PTL DEF Spec

\* What a step does to a claim that t holds, as OnlyHolderWrites judges it.
Respects(t) ==
  /\ claim'.turn = NoTurn => stmt[t].op = "release" /\ phase'[t] = "done"
  /\ claim'.turn = t /\ claim'.renewed < claim.renewed
       => phase[t] = "running" /\ claim'.claimed = claim.claimed

LEMMA TurnRespects ==
  ASSUME TypeOK, Writers, NEW s \in Turns, TurnNext(s), NEW t \in Turns, claim.turn = t
  PROVE  Respects(t)
<1> USE TurnAssumption DEF Respects
<1>1. claim.renewed \in Nat /\ claim.turn # NoTurn
  BY AgesAreNat DEF TypeOK, ClaimRecord
<1>2. CASE claim' = claim
  BY <1>1, <1>2
<1>3. CASE claim' = Renewed(s) /\ tx[s].renews /\ phase[s] # "leaving"
  BY <1>1, <1>3, RenewedKeepsTurn DEF Writers, RenewalsHold
<1>4. CASE CommitTx(s)
  BY <1>2, <1>3, <1>4, RenewedKeepsTurn DEF CommitTx
<1>5. CASE CompleteTurn(s)
  BY <1>2, <1>3, <1>5, RenewedKeepsTurn DEF CompleteTurn
<1>6. CASE ClaimTurn(s)
  <2>1. claim' = claim \/ claim'.turn = s
    BY <1>6 DEF ClaimTurn
  <2>2. s # t
    BY <1>6 DEF ClaimTurn, Writers, StatementsInPhase, HolderHasRun
  <2> QED
    BY <1>1, <1>2, <2>1, <2>2
<1>7. CASE RenewClaim(s)
  <2>1. claim' = claim \/ (s = t /\ claim' = [claim EXCEPT !.renewed = stmt[s].age])
    BY <1>7 DEF RenewClaim
  <2>2. s = t => phase[t] = "running"
    BY <1>7 DEF RenewClaim, Writers, StatementsInPhase
  <2> QED
    BY <1>1, <1>2, <2>1, <2>2 DEF TypeOK, ClaimRecord
<1>8. CASE ReleaseClaim(s)
  BY <1>1, <1>2, <1>8 DEF ReleaseClaim, NoClaim, TypeOK
<1> QED
  BY <1>2, <1>4, <1>5, <1>6, <1>7, <1>8
  DEF TurnNext, OpenTx, LockRow, AskForTurn, ClaimFails, SendHeartbeat, RenewFails,
      RenewOnRequestSession, FailTurn, SendRelease, ReleaseFails, Crash, RequestCancel,
      ConsumeCancel

\* Time makes no claim younger.
LEMMA TickRespects ==
  ASSUME TypeOK, Tick, NEW t \in Turns, claim.turn = t
  PROVE  Respects(t)
<1>1. claim.renewed \in Nat /\ MaxAge \in Nat /\ t # NoTurn
  BY AgesAreNat, TurnAssumption DEF TypeOK, ClaimRecord
<1>2. claim'.turn = t /\ claim'.renewed = Older(claim.renewed)
  BY <1>1 DEF Tick, TypeOK, ClaimRecord
<1> QED
  BY <1>1, <1>2 DEF Respects, Older

\* release_turn "only removes OUR claim" and renew_turn_claim matches turn_id: whatever
\* the host fails to keep of the law, and whatever a robbed turn sends late, only the
\* holder's release removes a claim and only the holder's heartbeat makes it younger.
THEOREM ClaimsAreTheHolders == Spec => OnlyHolderWrites
<1>1. ASSUME TypeOK, Writers, [Next]_vars, NEW t \in Turns, claim.turn = t
      PROVE  Respects(t)
  <2>1. CASE UNCHANGED vars
    <3>1. claim.renewed \in Nat /\ t # NoTurn /\ claim' = claim
      BY <1>1, <2>1, AgesAreNat, TurnAssumption DEF vars, TypeOK, ClaimRecord
    <3> QED
      BY <1>1, <3>1 DEF Respects
  <2> QED
    BY <1>1, <2>1, TickRespects, TurnRespects DEF Next
<1>2. TypeOK /\ Writers /\ [Next]_vars =>
        [\A t \in Turns : claim.turn = t =>
           /\ claim'.turn = NoTurn => stmt[t].op = "release" /\ phase'[t] = "done"
           /\ claim'.turn = t /\ claim'.renewed < claim.renewed
                => phase[t] = "running" /\ claim'.claimed = claim.claimed]_vars
  BY <1>1 DEF Respects
<1> QED
  BY <1>2, WritersAlways, Typing, PTL DEF Spec, OnlyHolderWrites

-----------------------------------------------------------------------------
(* Stop                                                                    *)

\* Who has been stopped has once run, and the slot is full while such a turn runs.
StopsHaveRun == \A t \in stops : phase[t] \notin {"new", "busy"}

StopState == TypeOK /\ ClaimInvariant /\ StopsHaveRun /\ StopIsKept

\* A step other than a Stop and its consumption lets no stopped turn run anew and leaves
\* the slot.
LEMMA OthersKeepStops ==
  ASSUME StopState, NEW t \in Turns, TurnNext(t), ~RequestCancel(t), ~ConsumeCancel(t)
  PROVE  StopsHaveRun' /\ StopIsKept'
<1>1. cancel' = cancel /\ stops' = stops
  BY DEF TurnNext, OpenTx, LockRow, CommitTx, AskForTurn, ClaimTurn, ClaimFails,
     SendHeartbeat, RenewClaim, RenewFails, RenewOnRequestSession, CompleteTurn,
     FailTurn, SendRelease, ReleaseClaim, ReleaseFails, Crash
<1>2. \A u \in Turns \ {t} : phase'[u] = phase[u]
  BY DEF TurnNext, OpenTx, LockRow, CommitTx, AskForTurn, ClaimTurn, ClaimFails,
     SendHeartbeat, RenewClaim, RenewFails, RenewOnRequestSession, CompleteTurn,
     FailTurn, SendRelease, ReleaseClaim, ReleaseFails, Crash, StopState, TypeOK
<1>3. t \in stops => /\ phase'[t] \notin {"new", "busy"}
                     /\ phase'[t] = "running" => phase[t] = "running"
  BY DEF TurnNext, OpenTx, LockRow, CommitTx, AskForTurn, ClaimTurn, ClaimFails,
     SendHeartbeat, RenewClaim, RenewFails, RenewOnRequestSession, CompleteTurn,
     FailTurn, SendRelease, ReleaseClaim, ReleaseFails, Crash, StopState, TypeOK,
     StopsHaveRun, ClaimInvariant, StatementsInPhase
<1> QED
  BY <1>1, <1>2, <1>3 DEF StopState, StopsHaveRun, StopIsKept, TypeOK

\* request_turn_cancel and consume_turn_cancel: of a host that keeps the law, no turn takes
\* away the Stop that was acknowledged for the one that runs.  It rests on the claim: the
\* turn that consumes its marker is the only one that runs.
THEOREM StopsAreKept ==
  ASSUME HostKeepsLaw
  PROVE  Spec => []StopIsKept
<1>1. Init => StopsHaveRun /\ StopIsKept
  BY DEF Init, StopsHaveRun, StopIsKept
<1>2. StopState /\ [Next]_vars => StopsHaveRun' /\ StopIsKept'
  <2> SUFFICES ASSUME StopState, [Next]_vars
               PROVE  StopsHaveRun' /\ StopIsKept'
    OBVIOUS
  <2>1. CASE UNCHANGED vars \/ Tick
    BY <2>1 DEF vars, Tick, StopState, StopsHaveRun, StopIsKept
  <2>2. ASSUME NEW t \in Turns, RequestCancel(t)
        PROVE  StopsHaveRun' /\ StopIsKept'
    BY <2>2, TurnAssumption DEF RequestCancel, StopState, StopsHaveRun, StopIsKept
  <2>3. ASSUME NEW t \in Turns, ConsumeCancel(t)
        PROVE  StopsHaveRun' /\ StopIsKept'
    <3>1. \A u \in Turns : phase[u] = "running" => u = t
      BY <2>3 DEF ConsumeCancel, StopState, ClaimInvariant, RunningIsProtected
    <3>2. \A u \in Turns : phase'[u] # "running"
      BY <2>3, <3>1 DEF ConsumeCancel, StopState, TypeOK
    <3> QED
      BY <2>3, <3>2 DEF ConsumeCancel, StopState, StopsHaveRun, StopIsKept, TypeOK
  <2> QED
    BY <2>1, <2>2, <2>3, OthersKeepStops DEF Next
<1> QED
  BY <1>1, <1>2, ClaimInvariantHolds, Typing, PTL DEF Spec, StopState
=============================================================================
