---------------------------- MODULE MCDecideTurn ----------------------------
(***************************************************************************)
(* A small instance of DecideTurn: the front door, the builder and the     *)
(* advisor, one conversation "c", and messages read with low, middling and *)
(* high confidence at a gate or in mid-flight.                             *)
(***************************************************************************)
EXTENDS DecideTurn, TLC

CONSTANTS bot0, builder, advisor,
          drafting, build, cost, setup, concept, handoff,
          buildRef, parkedRef, advisorRef, bot0Ref, draftRef, admitBuilder, admitAdvisor

\* Nobody owns the kind "handoff".
MCKindOwner == [k \in Kinds |-> CASE k = build -> builder [] k = handoff -> NoAgent
                                  [] OTHER -> bot0]

MCAgentKind == bot0 :> handoff @@ builder :> build @@ advisor :> handoff

\* What follows the first colon of "admitted:<agent>:c" names the agent too.
MCRefObject == admitBuilder :> "builder" @@ admitAdvisor :> "advisor"
                 @@ [r \in Refs \ {admitBuilder, admitAdvisor} |-> "c"]
MCRefConv == [r \in Refs |-> "c"]

MCAgentRef == bot0 :> bot0Ref @@ builder :> buildRef @@ advisor :> advisorRef
MCAdmittedRef == [a \in Agents |-> IF a = builder THEN admitBuilder ELSE admitAdvisor]

Arg(agent, kind) == [agent |-> agent, kind |-> kind, ref |-> NoRef, payload |-> "absent"]

\* The tasks that flows outside decide_turn begin.
MCBegins == {Arg(bot0, setup), Arg(bot0, concept)}

Turn(act, intent, target, conf, route, awaiting, finds) ==
  [act |-> act, intent |-> intent, target |-> target, conf |-> conf, route |-> route,
   awaiting |-> awaiting, finds |-> finds]

\* Messages to a task in mid-flight and at a gate.
Continuing ==
  {Turn("continue", "continue", NoAgent, 90, r, a, f) :
     r \in {bot0, builder}, a \in {"in_progress", "gate"}, f \in {{}, {"foreign"}}}
  \cup {Turn("unknown", "unclear", NoAgent, 90, r, a, {}) :
          r \in {builder, advisor}, a \in {"in_progress", "gate"}}
  \cup {Turn("unknown", "unclear", NoAgent, 90, builder, "in_progress", {"fresh_spec"}),
        Turn("other", "detour", NoAgent, 40, advisor, "gate", {}),
        Turn("other", "detour", NoAgent, 90, advisor, "gate", {"finite_ack", "silence"}),
        Turn("other", "detour", NoAgent, 90, bot0, "gate", {"create_open"}),
        Turn("undecided", "none", NoAgent, 0, builder, "in_progress", {}),
        Turn("undecided", "none", NoAgent, 0, builder, "gate", {"bare_ok"})}

Leaving ==
  {Turn("handoff", "handoff", g, 90, bot0, "in_progress", {}) : g \in Agents}
  \cup {Turn("handoff", "handoff", NoAgent, 90, builder, a, {}) :
          a \in {"in_progress", "gate"}}
  \cup {Turn("other", "new_task", NoAgent, 90, r, "in_progress", {}) : r \in Agents}
  \cup {Turn("other", "new_task", NoAgent, 90, advisor, "in_progress", {f}) :
          f \in {"own_act", "create_open", "asks_switch"}}
  \cup {Turn("abandon", "abandon", NoAgent, c, bot0, "in_progress", {}) : c \in {40, 90}}
  \cup {Turn("resume", "resume", g, 90, bot0, "nothing", {}) : g \in {NoAgent, builder}}

\* Drafts, estimates, tours and answers.
Asking ==
  {Turn("draft", i, NoAgent, 90, bot0, "nothing", f) :
     i \in {"new_task", "detour"}, f \in {{}, {"explicit_steps"}}}
  \cup {Turn("draft", "new_task", NoAgent, 90, bot0, "nothing", {f}) :
          f \in {"same_domain", "process_body"}}
  \cup {Turn("cost", "detour", NoAgent, 90, bot0, "nothing", {}),
        Turn("orient", "detour", NoAgent, 90, bot0, "nothing", {}),
        Turn("orient", "detour", NoAgent, 90, bot0, "nothing", {"create_open"}),
        Turn("answer_switch", "continue", NoAgent, 90, bot0, "gate", {}),
        Turn("answer_switch", "continue", advisor, 90, bot0, "gate", {})}

\* What other tables, buttons and the text decide.
Deciding ==
  {Turn("other", "detour", NoAgent, 90, builder, "nothing", {f}) :
     f \in {"unfinished_plan", "reset_command", "picks", "supersedes_question",
            "confirmed", "new_or_keep", "hollow", "simulates", "discharged"}}
  \cup {Turn("continue", "continue", NoAgent, 90, builder, "in_progress", {f}) :
          f \in {"discharged", "committed", "stranded"}}

MCTurns == Continuing \cup Leaving \cup Asking \cup Deciding

\* Pasts of three revisions: a build or an advisor's task that asked a question and
\* had its answer.  Pasts of four: nothing left of two tasks; a parked build and a
\* question, an advisor's task, a draft with the user's words or an estimate; a build
\* with the advisor's task parked.
Begun(l, agent, kind, payload) ==
  Begin(l, 0, [agent |-> agent, kind |-> kind, payload |-> payload,
               ref |-> IF agent = bot0 THEN NoRef ELSE MCAgentRef[agent]], NoCmd)
Ended(l) == Complete(l, Bot0, "task_completed", NoTaskId, NoCmd)
Past(agent, kind) == Suspend(Begun(EmptyLedger(Bot0), agent, kind, "absent"), 0, "other")

MCStarts ==
  LET built == Past(builder, build)
  IN {[Begun(EmptyLedger(Bot0), builder, build, "absent") EXCEPT !.rev = 3],
      [Begun(EmptyLedger(Bot0), advisor, NoKind, "absent") EXCEPT !.rev = 3],
      Ended(Begun(Ended(Begun(EmptyLedger(Bot0), builder, build, "absent")),
                  bot0, drafting, "seed")),
      [built EXCEPT !.question = TRUE, !.rev = 4],
      Begun(built, advisor, NoKind, "absent"),
      Begun(built, bot0, drafting, "seed"),
      Begun(built, bot0, cost, "absent"),
      Begun(Past(advisor, NoKind), builder, build, "absent")}

\* The builder once handed over to the advisor; then, from tasks begun afresh, it
\* handed over to the front door and the front door to the advisor.
MCHistories ==
  LET first == <<Hop(builder, advisor)>>
  IN {first, first \o <<Hop(builder, bot0), Hop(bot0, advisor)>>}
=============================================================================
