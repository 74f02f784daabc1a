---------------------------- MODULE HandoffGuard ----------------------------
(***************************************************************************)
(* handoff_guard.py: the trace of agent transfers a conversation keeps and *)
(* the test that refuses a transfer which would bounce.  A trace is a      *)
(* sequence of hops, oldest first, between agents in canonical form.       *)
(***************************************************************************)
EXTENDS Integers, Sequences, FiniteSets

TraceCap == 12      \* _MAX_TRACE_LEN
RepeatWindow == 4   \* would_ping_pong looks for the same hop among the last four
CycleWindow == 5    \* would_handoff_cycle builds its path from the last five

Hop(from, to) == [from |-> from, to |-> to]

\* The last n hops, all of them if there are fewer.
Recent(trace, n) ==
  SubSeq(trace, IF Len(trace) > n THEN Len(trace) - n + 1 ELSE 1, Len(trace))

Reverses(trace, from, to) == trace[Len(trace)] = Hop(to, from)

\* The walk along the recent hops, extended by the proposed one, ends at the agent
\* it started from and visits three agents.
ClosesCycle(trace, from, to) ==
  LET recent == Recent(trace, CycleWindow)
      walk == {recent[i].from : i \in DOMAIN recent} \cup {from, to}
  IN /\ Len(trace) >= 2
     /\ recent[1].from = to
     /\ Cardinality(walk) >= 3

Repeats(trace, from, to) ==
  LET recent == Recent(trace, RepeatWindow)
  IN /\ Len(recent) >= 2
     /\ \E i \in DOMAIN recent : recent[i] = Hop(from, to)

\* Defect of WouldPingPong: the last hop is not compared with the proposed one.
WouldRepeatOrCycle(trace, from, to) ==
  /\ from # to /\ trace # <<>>
  /\ ClosesCycle(trace, from, to) \/ Repeats(trace, from, to)

WouldPingPong(trace, from, to) ==
  /\ from # to /\ trace # <<>>
  /\ \/ Reverses(trace, from, to)
     \/ ClosesCycle(trace, from, to)
     \/ Repeats(trace, from, to)

PushHandoff(trace, from, to) ==
  IF from = to THEN trace ELSE Recent(Append(trace, Hop(from, to)), TraceCap)

-----------------------------------------------------------------------------

Reversed(hop) == Hop(hop.to, hop.from)

\* A trace without bounces: no hop reverses the one before it, and from the third
\* hop on, none repeats one of the four before it.
NoBounce(trace) ==
  /\ \A i \in 2 .. Len(trace) : trace[i] # Reversed(trace[i - 1])
  /\ \A i \in 3 .. Len(trace), j \in 1 .. Len(trace) :
       i - RepeatWindow <= j /\ j < i => trace[i] # trace[j]
=============================================================================
