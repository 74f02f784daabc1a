-------------------------- MODULE MCAuthoringPlane --------------------------
(***************************************************************************)
(* A small instance of AuthoringPlane: the builder and one other agent, a  *)
(* build at some of its gates, saved and reopened.                         *)
(***************************************************************************)
EXTENDS AuthoringPlane

CONSTANTS builder, other

\* No build; a structure gate reopened after a save; a staffed build at the domain gate
\* with the commit flag already up; a compiled build with a leftover flag; a saved
\* build.
Reopened == {"named", "ir_review", "committed"}
Staffed == {"named", "domain_picker", "commit_plan"}
Compiled == {"named", "staffed", "compiled", "confirmed", "ir_review"}
Saved == {"named", "committed", "role_proposal"}

MCPendings == {{}, Reopened, Staffed, Compiled, Saved}

MCNextLeaf == [p \in MCPendings |-> IF p = Compiled THEN "ops_kpi" ELSE "structure"]

MCCoarse == [p \in MCPendings |-> "building"]

MCBlocks == {<<>>, <<"text", "workflow_domain_picker">>, <<"formation_card">>}

MCResults ==
  {[transition |-> "", idleCard |-> FALSE, ends |-> {"created"}, awaiting |-> "none"],
   [transition |-> "", idleCard |-> TRUE, ends |-> {"released"}, awaiting |-> "none"],
   [transition |-> "continue", idleCard |-> FALSE, ends |-> {"concept"},
    awaiting |-> "domain_picker"]}

\* Every card is armed when its turn ends.
ArmedSpec == Init /\ [][Next /\ ~SkipArm]_vars
=============================================================================
