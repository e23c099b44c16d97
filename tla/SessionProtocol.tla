-------------------------- MODULE SessionProtocol ---------------------------
(***************************************************************************)
(* A participant's session under either driver: the Team opens or resumes  *)
(* it, starts a turn, observes it until it is over, parks the session, and *)
(* may cancel the turn or close the session; the agent goes on by itself,  *)
(* calls fail, and the engine crashes and starts again.                    *)
(***************************************************************************)
EXTENDS HarnessSession

ByKind(codex, harness) == IF kind = "codex" THEN codex ELSE harness

\* A call that returned goes on at a place of the Team's code, or fails.
Returns(o, where, t) == call' = At(where, t, After(rec, o)) /\ UNCHANGED <<world, team>>
Drops == call' = Idle /\ UNCHANGED <<world, team>>

-----------------------------------------------------------------------------
(***************************************************************************)
(* ensureParticipantSession                                                *)
(***************************************************************************)

OpenSession(t) ==
  /\ Dispatchable(t) /\ team.state = "none"
  /\ \E o \in ByKind(CodexStartSession, HarnessStartSession) :
       Driver(o, IF o.says = "ok"
                 THEN /\ call' = At("store", t, After(rec, o)) /\ world' = [world EXCEPT !.gone = FALSE]
                      /\ UNCHANGED team
                 ELSE GiveUp(team, t) /\ UNCHANGED world)

ResumeSession(t) ==
  /\ Dispatchable(t) /\ team.state = "parked"
  /\ \E o \in ByKind(CodexResumeSession(team.rev), HarnessResumeSession(team.rev)) :
       Driver(o, IF o.says = "ok" THEN Returns(o, "store", t)
                 ELSE /\ GiveUp(IF o.says = "lost" THEN Held(team, "lost", team.rev) ELSE team, t)
                      /\ UNCHANGED world)

-----------------------------------------------------------------------------
(***************************************************************************)
(* StartTurn: the intent, the launch, the record of it.                    *)
(***************************************************************************)

\* Mutant of StartTurn: a turn that was recovered is sent to the agent again.
StartTurnAgain ==
  LET t == call.turn
  IN /\ call.at = "start"
     /\ \E o \in ByKind(IF CodexRecovers(call.rev, t) THEN recoverStartedTurn ELSE CodexIntends(call.rev, t),
                       HarnessIntends(call.rev, t)) :
          Driver(o, IF o.says = "ok" THEN Returns(o, "launch", t) ELSE GiveUp(team, t) /\ UNCHANGED world)

\* A turn the driver knows is recovered, any other gets an intent.
StartTurn ==
  LET t == call.turn
      recovers == ByKind(CodexRecovers(call.rev, t), HarnessRecovers(call.rev, t))
  IN /\ call.at = "start"
     /\ \E o \in IF recovers THEN ByKind(recoverStartedTurn, Answers(FALSE))
                 ELSE ByKind(CodexIntends(call.rev, t), HarnessIntends(call.rev, t)) :
          Driver(o, IF o.says = "ok" THEN Returns(o, IF recovers THEN "started" ELSE "launch", t)
                    ELSE GiveUp(team, t) /\ UNCHANGED world)

Launch ==
  /\ call.at = "launch"
  /\ world' = Launches(call.turn)
  /\ call' = GoesTo("launched")
  /\ UNCHANGED <<kind, rec, client, team, attended, crashes, faults>>

\* The launch fails and the agent may have the turn nevertheless.  Codex
\* reads the thread again over a new connection, unless the answer itself was
\* unusable; the harness driver takes the turn for failed, or leaves its
\* intent as it is when it did not come to start the supervisor.
LaunchFails ==
  /\ call.at = "launch"
  /\ faults < MaxFaults /\ faults' = faults + 1
  /\ world' \in {world, Launches(call.turn)}
  /\ \/ /\ kind = "codex"
        /\ client' = FALSE /\ call' = GoesTo("unsure")
        /\ UNCHANGED <<rec, team>>
     \/ /\ IF kind = "codex" THEN world' # world ELSE world' = world
        /\ GiveUp(team, call.turn)
        /\ UNCHANGED <<rec, client>>
     \/ /\ kind = "harness"
        /\ rec' = Turned(rec, "failed")
        /\ GiveUp(team, call.turn)
        /\ UNCHANGED client
  /\ UNCHANGED <<kind, attended, crashes>>

Launched ==
  /\ call.at = "launched"
  /\ LET r == Identified(rec, "active")
     IN rec' = r /\ call' = At("started", call.turn, r)
  /\ UNCHANGED <<kind, world, client, team, attended, crashes, faults>>

LaunchUnsure ==
  /\ call.at = "unsure"
  /\ \E o \in reconcileStartError :
       Driver(o, IF o.says = "ok" THEN Returns(o, "started", call.turn)
                 ELSE GiveUp(team, call.turn) /\ UNCHANGED world)

-----------------------------------------------------------------------------
(***************************************************************************)
(* observeSessionTurn, parkParticipantSession, closeParticipantSessions    *)
(***************************************************************************)

ObserveTurn(rev, t) == ByKind(CodexObserveTurn(rev, t), HarnessObserveTurn(rev, t))
ParkSession(rev) == ByKind(CodexParkSession(rev), HarnessParkSession(rev))

\* Any error of an observation gives the session up.
Observe(t) ==
  /\ t \in attended /\ call = Idle /\ team.env[t] # 0
  /\ team.turn[t] \in {"dispatching", "active"}
  /\ \E o \in ObserveTurn(team.env[t], t) :
       Driver(o, Returns(o, IF o.says = "ok" THEN "settle" ELSE "lose", t))

Park ==
  /\ call.at = "park"
  /\ \E o \in ParkSession(call.rev) :
       Driver(o, IF o.says = "ok" THEN Returns(o, "parking", call.turn) ELSE Drops)

\* A refused close leaves everything for the next attempt.
Close ==
  /\ Closable
  /\ \E o \in ByKind(CodexCloseSession(team.rev), HarnessCloseSession(team.rev)) :
       Driver(o, IF o.says = "ok" THEN Returns(o, "close", Nothing) ELSE Drops)

-----------------------------------------------------------------------------
(***************************************************************************)
(* cancelExactSessionTurn: the turn is observed once more; an answer, a    *)
(* failure or a lost session ends the attempt with a conflict.             *)
(***************************************************************************)

CancelTurn(t) ==
  /\ call = Idle /\ team.turn[t] = "cancelling"
  /\ \E o \in ObserveTurn(team.env[t], t) :
       LET ts == After(rec, o).ts
       IN Driver(o, CASE o.says = "ok" /\ ts = "responded" -> Returns(o, "park", t)
                      [] o.says = "ok" /\ ts = "interrupted" -> Returns(o, "keep", t)
                      [] o.says = "ok" /\ OpenTurn(ts) -> Returns(o, "cancel", t)
                      [] OTHER -> Drops)

\* The agent is told to stop; it may be done before.
Interrupt ==
  /\ call.at = "cancel"
  /\ \E o \in ByKind(CodexMayInterrupt(call.rev, call.turn), HarnessMayInterrupt(call.rev, call.turn)) :
       Driver(o, IF o.says # "ok" THEN Drops
                 ELSE /\ call' = At("interrupting", call.turn, After(rec, o))
                      /\ \/ UNCHANGED world
                         \/ /\ world.run[call.turn] = "running"
                            /\ world' = RunIs(world, call.turn, "stopped")
                      /\ UNCHANGED team)

Interrupted ==
  /\ call.at = "interrupting"
  /\ \E o \in ByKind(CodexInterrupted, HarnessInterrupted) :
       Driver(o, IF o.says = "confirmed" THEN Returns(o, "keep", call.turn) ELSE Drops)

Keep ==
  /\ call.at = "keep"
  /\ \E o \in ParkSession(call.rev) :
       Driver(o, IF o.says = "ok" THEN Returns(o, "kept", call.turn) ELSE Drops)

-----------------------------------------------------------------------------
Dispatch(t) == UseSession(t) \/ OpenSession(t) \/ ResumeSession(t) \/ Observe(t)

Proceed ==
  \/ StoreSession \/ MarkDispatching \/ StartTurn \/ Launch \/ LaunchFails \/ Launched \/ LaunchUnsure
  \/ StoreTurn \/ StoreObservation \/ StoreLost \/ Park \/ StorePark
  \/ Interrupt \/ Interrupted \/ Keep \/ StoreClose

Next ==
  \/ \E t \in Turn : Ask(t) \/ CancelAsked(t) \/ AgentEnds(t) \/ Dispatch(t) \/ CancelTurn(t)
  \/ Proceed
  \/ CloseAsked \/ Close
  \/ SessionGoes \/ Crash

\* The controller dispatches the turns it has, observes in a loop and leaves
\* no call unfinished; the agent ends every turn; a cancellation and a close
\* that were refused are repeated.
Fairness ==
  /\ WF_vars(Proceed) /\ WF_vars(Close)
  /\ \A t \in Turn : WF_vars(Dispatch(t)) /\ WF_vars(AgentEnds(t)) /\ WF_vars(CancelTurn(t))

Spec == Init /\ [][Next]_vars
FairSpec == Spec /\ Fairness

-----------------------------------------------------------------------------
\* StartTurn may be repeated after a crash or a failed call, over the same or
\* over a stale handle: no turn is ever given to the agent twice.
StartedOnce == world.twice = {}

\* The agent works on one turn of a session at a time, and on none once the
\* driver's record says parked or closed.
QuietSession ==
  /\ \A t, u \in Turn : world.run[t] = "running" /\ world.run[u] = "running" => t = u
  /\ rec.state \in {"parked", "closed"} => \A t \in Turn : world.run[t] # "running"

\* What the Team says of a turn that is over is what the agent did: an answer
\* is an answer, and a cancelled turn neither runs on nor answered.
OutcomeIsTrue ==
  \A t \in Turn :
    /\ team.turn[t] = "responded" => world.run[t] = "answered"
    /\ team.turn[t] = "failed" => world.run[t] \in {"failed", "stopped"}
    /\ team.turn[t] = "cancelled" => world.run[t] \in {"stopped", "failed"}

\* Unless the engine crashes, every turn the Team dispatches is over in the
\* end, whatever call failed, or the host has its cancellation pending.
EveryTurnEnds ==
  [](crashes = 0) =>
    \A t \in Turn : team.turn[t] = "prepared" ~> TurnOver(team.turn[t]) \/ team.turn[t] = "cancelling"

\* A Team that was told to close closes its sessions once the turns are over.
CloseSucceeds == Closable ~> team.state \in {"closed", "lost"}
=============================================================================
