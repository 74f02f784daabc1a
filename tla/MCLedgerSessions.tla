-------------------------- MODULE MCLedgerSessions --------------------------
(***************************************************************************)
(* Small instances of LedgerSessions: two database sessions on one         *)
(* conversation, with the agents and refs of MCControlLedger.              *)
(***************************************************************************)
EXTENDS LedgerSessions, TLC

CONSTANTS bot0, builder, drafting, build, buildRef, s1, s2

MCKindOwner == drafting :> bot0 @@ build :> builder

MCAgentKind == bot0 :> drafting @@ builder :> build

MCRefObject == buildRef :> "c"

MCHandoffRef == [a \in Agents |-> buildRef]

Arg(agent, kind, ref, payload) ==
  [agent |-> agent, kind |-> kind, ref |-> ref, payload |-> payload]

MCBegins == {Arg(bot0, drafting, NoRef, "plain"),
             Arg(builder, build, buildRef, "absent")}

MCPhases == {Arg(builder, build, buildRef, "absent")}

MCProposals == {<<bot0, builder>>}

\* A host that fences its begins, one that claims its turns, and one that claims them
\* and fences, and sweeps before the claim.
MCLaws == {[fenced |-> TRUE, claimed |-> FALSE, splits |-> {"begin", "question", "plan"}],
           [fenced |-> FALSE, claimed |-> TRUE,
            splits |-> {"begin", "summary", "question"}],
           [fenced |-> TRUE, claimed |-> TRUE, splits |-> {"begin", "prune"}]}

\* A host that claims and fences: its sweeps, and its workers' plan reports.
SweepingLaws == {[fenced |-> TRUE, claimed |-> TRUE, splits |-> {"begin", "prune"}]}
ReportingLaws == {[fenced |-> TRUE, claimed |-> TRUE, splits |-> {"plan"}]}

SessionSymmetry == Permutations(Sessions)
=============================================================================
