------------------------ MODULE ControlOutboxProofs ------------------------
(***************************************************************************)
(* Proofs about ControlOutbox, for every set of rows, exporters and        *)
(* tenants, every batch size and every number of failures.                 *)
(***************************************************************************)
EXTENDS ControlOutbox, TLAPS

-----------------------------------------------------------------------------
(* The inductive invariant                                                 *)

\* The row locks keep the batches apart, and a claimed row stays pending.
BatchesApart ==
  /\ \A e, f \in Exporters : e # f => batch[e] \cap batch[f] = {}
  /\ \A e \in Exporters : \A r \in batch[e] : status[r] = "pending"
  /\ \A e \in Exporters : published[e] \subseteq batch[e]

\* A bus holds what is published before the row is marked.
BusHoldsPublished ==
  sink = "bus" => \A e \in Exporters : \A r \in published[e] : delivered[r] > 0

Sound ==
  /\ OutboxTypeOK /\ BatchesApart /\ BusHoldsPublished
  /\ ExportedWasDelivered /\ PlatformDeliversOnce

LEMMA InitSound == Init => Sound
<1> SUFFICES ASSUME Init PROVE Sound
  OBVIOUS
<1>1. OutboxTypeOK
  BY OutboxBoundAssumption DEF Init, OutboxTypeOK
<1>2. BatchesApart /\ BusHoldsPublished
  BY DEF Init, BatchesApart, BusHoldsPublished
<1>3. ExportedWasDelivered /\ PlatformDeliversOnce
  BY DEF Init, ExportedWasDelivered, PlatformDeliversOnce
<1> QED
  BY <1>1, <1>2, <1>3 DEF Sound

-----------------------------------------------------------------------------
(* One lemma per action                                                    *)

\* The oldest rows of a set are rows of it.
LEMMA OldestAreOfSet ==
  ASSUME NEW S, NEW n
  PROVE  Oldest(S, n) \subseteq S
  BY DEF Oldest

LEMMA AppendSound ==
  ASSUME Sound, NEW r \in Rows, Append(r)
  PROVE  Sound'
<1>1. OutboxTypeOK'
  BY DEF Sound, OutboxTypeOK, Append, exporterVars
<1>2. BatchesApart'
  BY DEF Sound, OutboxTypeOK, BatchesApart, Append, exporterVars
<1>3. BusHoldsPublished'
  BY DEF Sound, BusHoldsPublished, Append, exporterVars
<1>4. (ExportedWasDelivered /\ PlatformDeliversOnce)'
  BY DEF Sound, OutboxTypeOK, ExportedWasDelivered, PlatformDeliversOnce, Append
<1> QED
  BY <1>1, <1>2, <1>3, <1>4 DEF Sound

LEMMA SkipSound ==
  ASSUME Sound, NEW r \in Rows, SkipRow(r)
  PROVE  Sound'
<1>1. OutboxTypeOK'
  BY DEF Sound, OutboxTypeOK, SkipRow, exporterVars
<1>2. BatchesApart'
  BY DEF Sound, OutboxTypeOK, BatchesApart, SkipRow, exporterVars, Locked
<1>3. BusHoldsPublished'
  BY DEF Sound, BusHoldsPublished, SkipRow, exporterVars
<1>4. (ExportedWasDelivered /\ PlatformDeliversOnce)'
  BY DEF Sound, OutboxTypeOK, ExportedWasDelivered, PlatformDeliversOnce, SkipRow
<1> QED
  BY <1>1, <1>2, <1>3, <1>4 DEF Sound

\* A claim takes rows that no other exporter has: SKIP LOCKED.
LEMMA ClaimSound ==
  ASSUME Sound, NEW e \in Exporters, ClaimExportBatch(e)
  PROVE  Sound'
<1>1. Oldest(Claimable(e), Limit) \subseteq Claimable(e)
  BY OldestAreOfSet
<1>2. /\ Claimable(e) \subseteq Rows
      /\ \A r \in Claimable(e) : status[r] = "pending"
      /\ \A f \in Exporters : Claimable(e) \cap batch[f] = {}
  BY DEF Claimable, Locked
<1>3. OutboxTypeOK'
  BY <1>1, <1>2 DEF Sound, OutboxTypeOK, ClaimExportBatch
<1>4. \A f \in Exporters : batch'[f] = IF f = e THEN Oldest(Claimable(e), Limit) ELSE batch[f]
  BY DEF Sound, OutboxTypeOK, ClaimExportBatch
<1>5. BatchesApart'
  <2>1. \A f, g \in Exporters : f # g => batch'[f] \cap batch'[g] = {}
    BY <1>1, <1>2, <1>4 DEF Sound, BatchesApart
  <2>2. \A f \in Exporters : \A r \in batch'[f] : status'[r] = "pending"
    BY <1>1, <1>2, <1>4 DEF Sound, BatchesApart, ClaimExportBatch
  <2>3. \A f \in Exporters : published'[f] \subseteq batch'[f]
    BY <1>4 DEF Sound, BatchesApart, ClaimExportBatch
  <2> QED
    BY <2>1, <2>2, <2>3 DEF BatchesApart
<1>6. BusHoldsPublished'
  BY DEF Sound, BusHoldsPublished, ClaimExportBatch
<1>7. (ExportedWasDelivered /\ PlatformDeliversOnce)'
  BY DEF Sound, ExportedWasDelivered, PlatformDeliversOnce, ClaimExportBatch
<1> QED
  BY <1>3, <1>5, <1>6, <1>7 DEF Sound

\* A row is published from the batch; on a bus its count grows before it is marked.
LEMMA PublishSound ==
  ASSUME Sound, NEW e \in Exporters, PublishRow(e)
  PROVE  Sound'
<1>1. PICK r \in Oldest(Unpublished(e), 1) :
        /\ published' = [published EXCEPT ![e] = @ \cup {r}]
        /\ delivered' = IF sink = "bus" THEN [delivered EXCEPT ![r] = @ + 1] ELSE delivered
  BY DEF PublishRow
<1>2. r \in batch[e] /\ r \in Rows
  BY <1>1, OldestAreOfSet DEF Unpublished, Sound, OutboxTypeOK
<1>3. OutboxTypeOK'
  BY <1>1, <1>2 DEF Sound, OutboxTypeOK, PublishRow
<1>4. BatchesApart'
  BY <1>1, <1>2 DEF Sound, OutboxTypeOK, BatchesApart, PublishRow
<1>5. \A s \in Rows : /\ delivered'[s] >= delivered[s] /\ delivered[s] \in Nat
                      /\ sink = "bus" /\ s = r => delivered'[s] > 0
                      /\ sink # "bus" => delivered'[s] = delivered[s]
  BY <1>1, <1>2 DEF Sound, OutboxTypeOK
<1>6. BusHoldsPublished'
  BY <1>1, <1>2, <1>3, <1>5 DEF Sound, OutboxTypeOK, BusHoldsPublished, PublishRow
<1>7. ExportedWasDelivered'
  BY <1>3, <1>5 DEF Sound, OutboxTypeOK, ExportedWasDelivered, PublishRow
<1>8. PlatformDeliversOnce'
  BY <1>5 DEF Sound, PlatformDeliversOnce, PublishRow
<1> QED
  BY <1>3, <1>4, <1>6, <1>7, <1>8 DEF Sound

LEMMA FailureSound ==
  ASSUME Sound, NEW e \in Exporters, PublishFails(e)
  PROVE  Sound'
<1>1. Oldest(Unpublished(e), 1) \subseteq Rows
  BY OldestAreOfSet DEF Unpublished, Sound, OutboxTypeOK
<1>2. OutboxTypeOK'
  BY <1>1 DEF Sound, OutboxTypeOK, PublishFails
<1>3. BatchesApart' /\ BusHoldsPublished'
  BY DEF Sound, BatchesApart, BusHoldsPublished, PublishFails
<1>4. (ExportedWasDelivered /\ PlatformDeliversOnce)'
  BY DEF Sound, ExportedWasDelivered, PlatformDeliversOnce, PublishFails
<1> QED
  BY <1>2, <1>3, <1>4 DEF Sound

\* What the end of a transaction leaves of the batches.
LEMMA ReleasedBatches ==
  ASSUME Sound, NEW e \in Exporters, Released(e)
  PROVE  /\ \A f \in Exporters : /\ batch'[f] = IF f = e THEN {} ELSE batch[f]
                                /\ published'[f] = IF f = e THEN {} ELSE published[f]
         /\ batch' \in [Exporters -> SUBSET Rows]
         /\ published' \in [Exporters -> SUBSET Rows]
         /\ failed' \in [Exporters -> SUBSET Rows]
         /\ broken' \subseteq Exporters
  BY DEF Sound, OutboxTypeOK, Released

LEMMA CrashSound ==
  ASSUME Sound, NEW e \in Exporters, Crash(e)
  PROVE  Sound'
<1>1. Released(e)
  BY DEF Crash
<1>2. OutboxTypeOK'
  BY <1>1, ReleasedBatches DEF Sound, OutboxTypeOK, Crash
<1>3. BatchesApart' /\ BusHoldsPublished'
  BY <1>1, ReleasedBatches DEF Sound, BatchesApart, BusHoldsPublished, Crash
<1>4. (ExportedWasDelivered /\ PlatformDeliversOnce)'
  BY DEF Sound, ExportedWasDelivered, PlatformDeliversOnce, Crash
<1> QED
  BY <1>2, <1>3, <1>4 DEF Sound

\* Marking: the rows of this batch were pending, so the sink did not hold them; the
\* commit brings their platform events and their new status together.
LEMMA MarkSound ==
  ASSUME Sound, NEW e \in Exporters, MarkExported(e)
  PROVE  Sound'
<1>1. Released(e)
  BY DEF MarkExported
<1>2. CASE e \in broken
  <2>1. UNCHANGED <<sink, status, created, poison, delivered, faults>>
    BY <1>2 DEF MarkExported
  <2>2. OutboxTypeOK'
    BY <1>1, <2>1, ReleasedBatches DEF Sound, OutboxTypeOK
  <2>3. BatchesApart' /\ BusHoldsPublished'
    BY <1>1, <2>1, ReleasedBatches DEF Sound, BatchesApart, BusHoldsPublished
  <2>4. (ExportedWasDelivered /\ PlatformDeliversOnce)'
    BY <2>1 DEF Sound, ExportedWasDelivered, PlatformDeliversOnce
  <2> QED
    BY <2>2, <2>3, <2>4 DEF Sound
<1>3. CASE e \notin broken
  <2>1. /\ status' = [r \in Rows |-> IF r \in published[e] /\ status[r] = "pending"
                                     THEN "exported" ELSE status[r]]
        /\ delivered' = [r \in Rows |-> IF sink = "platform" /\ r \in published[e]
                                        THEN delivered[r] + 1 ELSE delivered[r]]
        /\ UNCHANGED <<sink, created, poison, faults>>
    BY <1>3 DEF MarkExported, Marked
  <2>2. OutboxTypeOK'
    BY <1>1, <2>1, ReleasedBatches DEF Sound, OutboxTypeOK
  <2>3. \A r \in published[e] : status[r] = "pending" /\ r \in batch[e]
    BY DEF Sound, BatchesApart
  <2>4. BatchesApart'
    <3>1. \A f, g \in Exporters : f # g => batch'[f] \cap batch'[g] = {}
      BY <1>1, ReleasedBatches DEF Sound, BatchesApart
    <3>2. \A f \in Exporters : \A r \in batch'[f] : status'[r] = "pending"
      BY <1>1, <2>1, <2>3, ReleasedBatches DEF Sound, OutboxTypeOK, BatchesApart
    <3>3. \A f \in Exporters : published'[f] \subseteq batch'[f]
      BY <1>1, ReleasedBatches DEF Sound, BatchesApart
    <3> QED
      BY <3>1, <3>2, <3>3 DEF BatchesApart
  <2>5. BusHoldsPublished'
    BY <1>1, <2>1, ReleasedBatches DEF Sound, OutboxTypeOK, BusHoldsPublished
  <2>6. PlatformDeliversOnce'
    BY <2>1, <2>3 DEF Sound, OutboxTypeOK, PlatformDeliversOnce
  <2>7. ExportedWasDelivered'
    <3> SUFFICES ASSUME sink # "stub", NEW r \in Rows, status'[r] = "exported"
        PROVE  delivered'[r] > 0
      BY <2>1 DEF ExportedWasDelivered
    <3>1. CASE status[r] = "exported"
      BY <2>1, <3>1 DEF Sound, OutboxTypeOK, ExportedWasDelivered
    <3>2. CASE status[r] # "exported"
      <4>1. r \in published[e]
        BY <2>1, <3>2
      <4>2. sink \in {"platform", "bus"}
        BY SinkAssumption DEF Sound, OutboxTypeOK
      <4> QED
        BY <2>1, <4>1, <4>2 DEF Sound, OutboxTypeOK, BusHoldsPublished
    <3> QED
      BY <3>1, <3>2
  <2> QED
    BY <2>2, <2>4, <2>5, <2>6, <2>7 DEF Sound
<1> QED
  BY <1>2, <1>3

LEMMA NextSound == Sound /\ [Next]_vars => Sound'
<1> SUFFICES ASSUME Sound, [Next]_vars PROVE Sound'
  OBVIOUS
<1>1. CASE UNCHANGED vars
  BY <1>1 DEF vars, Sound, OutboxTypeOK, BatchesApart, BusHoldsPublished,
              ExportedWasDelivered, PlatformDeliversOnce
<1>2. CASE Next
  BY <1>2, AppendSound, SkipSound, ClaimSound, PublishSound, FailureSound, MarkSound,
     CrashSound DEF Next
<1> QED
  BY <1>1, <1>2

-----------------------------------------------------------------------------
(* The theorems                                                            *)

LEMMA AlwaysSound == Spec => []Sound
<1> QED
  BY InitSound, NextSound, PTL DEF Spec

\* Every variable keeps its type, whatever the batches, failures and crashes.
THEOREM OutboxTyping == Spec => []OutboxTypeOK
<1>1. Sound => OutboxTypeOK
  BY DEF Sound
<1> QED
  BY <1>1, AlwaysSound, PTL

\* No row is marked exported that the sink does not hold: an exporter that dies,
\* fails or overlaps another loses nothing.
THEOREM NothingIsLost == Spec => []ExportedWasDelivered
<1>1. Sound => ExportedWasDelivered
  BY DEF Sound
<1> QED
  BY <1>1, AlwaysSound, PTL

\* The transactional sink holds every exported row once and no other row.
THEOREM ExactlyOnce == Spec => []PlatformDeliversOnce
<1>1. Sound => PlatformDeliversOnce
  BY DEF Sound
<1> QED
  BY <1>1, AlwaysSound, PTL
=============================================================================
