-------------------------- MODULE MCControlLedger --------------------------
(***************************************************************************)
(* Small instances of ControlLedger: the front door, the two authoring     *)
(* agents and one conversation "c".                                        *)
(***************************************************************************)
EXTENDS ProjectionReplay, TLC

CONSTANTS bot0, builder, editor, drafting, build, handoff,
          buildRef,      \* "workflow_builder:c"
          stageRef,      \* "pending_workflow:c", the same object at a later stage
          otherRef       \* "workflow_editor:d": another conversation's object

MCKindOwner == drafting :> bot0 @@ build :> builder @@ handoff :> NoAgent

MCAgentKind == bot0 :> handoff @@ builder :> build @@ editor :> build

MCRefObject == buildRef :> "c" @@ stageRef :> "c" @@ otherRef :> "d"

MCHandoffRef == [a \in Agents |-> otherRef]

Arg(agent, kind, ref, payload) ==
  [agent |-> agent, kind |-> kind, ref |-> ref, payload |-> payload]

\* A draft with the user's words, a build begun from it and re-begun at a later
\* stage without a payload, and a task of a kind nobody owns.
LifecycleBegins == {Arg(bot0, drafting, NoRef, "seed"),
                    Arg(builder, build, buildRef, "plain"),
                    Arg(builder, build, stageRef, "absent"),
                    Arg(editor, handoff, NoRef, "empty")}

\* The phase of the builder's task moves; a phase is written for an agent that
\* does not own the task.
LifecyclePhases == {Arg(builder, build, stageRef, "absent"),
                    Arg(editor, NoKind, NoRef, "absent")}

SweepBegins == {Arg(bot0, drafting, NoRef, "seed"),
                Arg(builder, build, buildRef, "plain")}

FewBegins == {Arg(bot0, drafting, NoRef, "seed"),
              Arg(builder, build, buildRef, "plain")}

\* Only the phase that replaces the active task by one without id and kind.
SweepPhases == {Arg(editor, NoKind, NoRef, "absent")}

SweepProposals == {<<bot0, builder>>}

\* The second is refused when the builder is already in control.
LifecycleProposals == {<<bot0, builder>>, <<builder, builder>>}

\* The third is refused: the builder is already in control.
MCProposals == {<<bot0, builder>>, <<builder, bot0>>, <<builder, builder>>}
=============================================================================
