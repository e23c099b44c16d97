---------------------------- MODULE TeamLifecycle ----------------------------
(***************************************************************************)
(* A Team from its start to its end, in either mode, and what its host and *)
(* its participants may rely on: Team, TeamPanel and TeamSession together. *)
(***************************************************************************)
EXTENDS TeamPanel, TeamSession

SharedNext ==
  \/ Begin \/ Prepare \/ RoundEnds \/ Recover \/ Expire \/ Crash
  \/ \E t \in TurnId : ExecutionEnds(t)

Next == SharedNext \/ PanelNext \/ SessionNext

Spec == Init /\ [][Next]_vars

-----------------------------------------------------------------------------
(***************************************************************************)
(* Properties.                                                             *)
(***************************************************************************)

\* A closed Team is over: every turn its snapshot names is in a terminal
\* state, and no execution still runs unless the Team said it does not know
\* (the turn is indeterminate, or the session was declared lost).
ClosedIsOver ==
  disk.state = "closed" =>
    \A t \in TurnIds(disk) :
      /\ terminalTeamTurn(disk.turn[t]) \/ disk.part[Of(t)].turn = Nobody
      /\ ext.turn[t] = "running" => disk.turn[t] = "indeterminate" \/ disk.sess[Of(t)] = "lost"

\* Across crashes, recoveries and repeated dispatches no turn is ever handed
\* to its driver a second time.
LaunchedOnce == \A t \in TurnId : ext.turn[t] # "twice"

\* A turn that is over keeps its outcome: late answers, late failures and the
\* actions of the host change nothing.  The one exception is a turn given up
\* as indeterminate whose execution a cancellation then really stopped.
TurnIsFinal ==
  [][\A t \in TurnId :
       terminalTeamTurn(disk.turn[t]) =>
         \/ disk.turn'[t] = disk.turn[t]
         \/ /\ disk.turn[t] = "indeterminate" /\ disk.turn'[t] = "cancelled"
            /\ ext'.turn[t] = "interrupted"]_vars

\* What an answered action promised is on disk: the message and the turns of a
\* follow-up, all counted in the cost; the end of a turn; the end of the Team.
AnsweredIsDone ==
  \A a \in Action : disk.intent[a].st = "done" =>
    /\ a \in FollowUp => /\ a \in disk.msgs
                         /\ \A p \in disk.intent[a].to : disk.turn[<<p, a>>] # "none"
                         /\ disk.cost = Cardinality(TurnIds(disk))
    /\ a \in CancelTurn => disk.turn[disk.intent[a].turn] = "cancelled"
    /\ a \in Cancel => disk.state = "closed" /\ disk.reason = "cancelled"

\* A Team that stopped accepting turns never accepts one again: no end of a
\* turn, recovery or repeated action reopens it or adds a turn.
ClosedStaysClosed ==
  [][disk.state \in {"closing", "cancelling", "closed"} =>
       /\ disk'.state \in {"closing", "cancelling", "closed"}
       /\ TurnIds(disk') = TurnIds(disk)]_vars

\* The same of every step but the end of a cancel_turn, which settles the round
\* of a Team that may have been closed since the call began.
ClosingIsKept ==
  [][/\ disk.state \in {"closing", "cancelling", "closed"}
     /\ \A a \in CancelTurn : act[a].at # "confirm" \/ act'[a] = act[a]
     => /\ disk'.state \in {"closing", "cancelling", "closed"}
        /\ TurnIds(disk') = TurnIds(disk)]_vars

\* A turn is credited with an answer only after its message is stored, and the
\* snapshot shows a participant as answered or failed only if one of its turns
\* did so, whatever crash came between the writes of the turn, the
\* participant and the snapshot.
OutcomeIsBacked ==
  /\ \A t \in TurnId : disk.turn[t] = "responded" => t \in disk.msgs
  /\ \A p \in Participant :
       disk.part[p].state \in {"responded", "failed"} =>
         \E t \in TurnIds(disk) : Of(t) = p /\ disk.turn[t] = disk.part[p].state
=============================================================================
