-------------------------------- MODULE Team --------------------------------
(***************************************************************************)
(* A Team: several participants explore one topic, each in turns run by a  *)
(* driver.  This module holds what the two modes share: the files of a     *)
(* Team, the threads of the Control Plane that work on them, the           *)
(* preparation of the initial turns, the end of a turn, crash and          *)
(* recovery.  TeamPanel adds the one-shot panel, TeamSession the           *)
(* conversation with follow-ups.                                           *)
(*                                                                         *)
(* Every mutation runs under the mutex of the service and is a sequence of *)
(* file writes, so only a crash can show the states between two writes.    *)
(* A mutation is therefore given as the disks it goes through and the one  *)
(* it comes to, and Commit either reaches that one or crashes at one of    *)
(* the others.  Calls of a driver are made outside the mutex.              *)
(*                                                                         *)
(* Not modelled: the event log (written, never read back by a decision),   *)
(* the text of messages, and a driver that is not registered.              *)
(***************************************************************************)
EXTENDS Naturals, Sequences, FiniteSets, Functions

CONSTANTS
  Participant, Order,                  \* the participants, and their order in the snapshot
  FollowUp, CancelTurn, Close, Cancel, \* the identities of the actions of the host
  Modes,                               \* the modes in which the Team may be started
  Grant,                               \* the cost grant; every turn costs one unit
  PanelLimit, SessionLimit,            \* how many turns a round of a mode runs at a time
  MaxDisturbances,                     \* bound: crashes, actions of the host and the lifetime, together
  Faulty,                              \* the participants whose driver and executions may fail
  Unlisted,                            \* the participants whose model the catalog may lose
  MaxVersion,                          \* bound on the versions follow-ups after the lifetime reach
  HostIsSerial,                        \* the host has one call of an action open at a time
  EarlyCancel,                         \* the host may end the Team before its turns are prepared
  MayExpire,                           \* the lifetime of a session may run out
  Nobody, Controller

ASSUME ConstantsAssumption ==
  /\ IsFiniteSet(Participant) /\ IsFiniteSet(FollowUp \cup CancelTurn \cup Close \cup Cancel)
  /\ \A S, T \in {FollowUp, CancelTurn, Close, Cancel} : S = T \/ S \cap T = {}
  /\ "initial" \notin FollowUp /\ Controller \notin FollowUp \cup CancelTurn \cup Close \cup Cancel
  /\ Nobody \notin Participant \X (FollowUp \cup {"initial"})
  /\ Order \in Seq(Participant) /\ Range(Order) = Participant /\ Len(Order) = Cardinality(Participant)
  /\ Faulty \subseteq Participant /\ Unlisted \subseteq Participant
  /\ Modes \subseteq {"panel", "session"}
  /\ {Grant, MaxVersion} \subseteq Nat /\ PanelLimit \in Nat \ {0} /\ SessionLimit \in Nat \ {0} /\ MaxDisturbances \in Nat
  /\ {HostIsSerial, EarlyCancel, MayExpire} \subseteq BOOLEAN

Action == FollowUp \cup CancelTurn \cup Close \cup Cancel
Thread == Action \cup {Controller}

\* A turn is named by its participant and by what asked for it.
TurnId == Participant \X (FollowUp \cup {"initial"})
Of(t) == t[1]

LifecycleStates == {"none", "created", "running", "open", "closing", "cancelling", "closed"}
CloseReasons == {"none", "panel_settled", "host_closed", "cancelled"}
TurnStates == {"none", "prepared", "dispatching", "active", "responded", "failed",
               "indeterminate", "cancelling", "cancelled"}
ParticipantStates == {"pending", "running", "responded", "failed", "indeterminate", "cancelled"}
SessionStates == {"none", "active", "parked", "lost", "closed"}

VARIABLES
  disk,     \* the files of the Team
  ext,      \* the drivers: the execution of every turn, the session of every participant
  pc,       \* the goroutine that dispatches or observes a turn
  act,      \* the controller and the calls of the actions
  lock,     \* who holds the session lock of a participant
  up, crashes, expired

vars == <<disk, ext, pc, act, lock, up, crashes, expired>>

Participation == [state : ParticipantStates, turn : TurnId \cup {Nobody}]
Intent == [st : {"none", "pending", "done"}, ver : Nat, turn : TurnId \cup {Nobody},
           to : SUBSET Participant]
Disk == [mode : {"panel", "session"}, state : LifecycleStates, ver : Nat, reason : CloseReasons,
         part : [Participant -> Participation], file : [Participant -> Participation],
         turn : [TurnId -> TurnStates], exec : SUBSET TurnId,
         sess : [Participant -> SessionStates], msgs : SUBSET (TurnId \cup FollowUp),
         cost : Nat, intent : [Action -> Intent]]
Job == [at : {"idle", "replay", "prepare", "round", "go", "exact", "confirm", "turns",
              "mark", "calls", "closing"},
        turns : SUBSET TurnId, parts : SUBSET Participant, now : TurnId \cup {Nobody}]
ExtTurns == {"none", "running", "twice", "responded", "failed", "lost", "interrupted"}

\* The shape of the state.
TypeOK ==
  /\ disk \in Disk
  /\ ext \in [turn : [TurnId -> ExtTurns], sess : [Participant -> SessionStates]]
  /\ pc \in [TurnId -> {"idle", "queued", "launch", "started", "stop", "watch",
                        "open", "opened", "turn", "park"}]
  /\ act \in [Thread -> Job]
  /\ lock \in [Participant -> TurnId \cup {Nobody}]
  /\ up \in BOOLEAN /\ crashes \in 0..MaxDisturbances /\ expired \in BOOLEAN

Doing(at, turns, parts, now) == [at |-> at, turns |-> turns, parts |-> parts, now |-> now]
Idle == Doing("idle", {}, {}, Nobody)
Closing(parts) == Doing("closing", {}, parts, Nobody)

Asked(st, ver, turn, to) == [st |-> st, ver |-> ver, turn |-> turn, to |-> to]
NoIntent == Asked("none", 0, Nobody, {})

\* No Team yet, in the mode the host will ask for.
Blank(mode) ==
  LET pending == [p \in Participant |-> [state |-> "pending", turn |-> Nobody]]
  IN [mode |-> mode, state |-> "none", ver |-> 0, reason |-> "none", part |-> pending,
      file |-> pending, turn |-> [t \in TurnId |-> "none"], exec |-> {},
      sess |-> [p \in Participant |-> "none"], msgs |-> {}, cost |-> 0,
      intent |-> [a \in Action |-> NoIntent]]

Init ==
  /\ disk \in {Blank(mode) : mode \in Modes}
  /\ ext = [turn |-> [t \in TurnId |-> "none"], sess |-> [p \in Participant |-> "none"]]
  /\ pc = [t \in TurnId |-> "idle"]
  /\ act = [x \in Thread |-> Idle]
  /\ lock = [p \in Participant |-> Nobody]
  /\ up = TRUE /\ crashes = 0 /\ expired = FALSE

-----------------------------------------------------------------------------
(***************************************************************************)
(* Mutations: the disks they go through and the one they come to.          *)
(***************************************************************************)

\* The writes of the store, on the files d.
WriteTeamTurn(d, t, state) == [d EXCEPT !.turn[t] = state]
WriteTeamParticipant(d, p, participation) == [d EXCEPT !.file[p] = participation]
WriteTeamExecution(d, t) == [d EXCEPT !.exec = @ \cup {t}]
WriteTeamParticipantSession(d, p, state) == [d EXCEPT !.sess[p] = state]
AppendTeamMessage(d, x) == [d EXCEPT !.msgs = @ \cup {x}]
WriteTeamActionIntent(d, a, intent) == [d EXCEPT !.intent[a] = intent]
WriteTeamSnapshot(d, state, reason, part) ==
  [d EXCEPT !.state = state, !.reason = reason, !.part = part, !.ver = @ + 1]

terminalTeamTurn(state) == state \in {"responded", "failed", "indeterminate", "cancelled"}

participantStateForTurn(state) == IF terminalTeamTurn(state) THEN state ELSE "running"

currentParticipantsTerminal(d) ==
  \A p \in Participant : d.part[p].turn # Nobody => terminalTeamTurn(d.turn[d.part[p].turn])

ParticipantsSettled(d) == \A p \in Participant : d.part[p].state \notin {"pending", "running"}

TurnIds(d) == {t \in TurnId : d.turn[t] # "none"}

\* The turns that are not over; the loops over all turns do nothing to the
\* others, which stay over (TurnIsFinal).
OpenTurns(d) == {t \in TurnIds(d) : ~terminalTeamTurn(d.turn[t])}

\* The store refuses a snapshot whose close reason does not fit its state, and
\* one whose cost exceeds the grant.
ValidateTeamSession(d) ==
  /\ (d.state = "closed") <=> (d.reason # "none")
  /\ d.cost <= Grant

Writes(through, to) == [through |-> through, to |-> to]
Written(d) == Writes({}, d)

\* Every disk of the mutation m.
Disks(m) == m.through \cup {m.to}

\* The mutation m after writes that go through other disks.
After(through, m) == Writes(through \cup m.through, m.to)

\* Several turns and participants written, and the participants that a loop
\* over the snapshot has come past.
Moved(d, turns, files) == [d EXCEPT !.turn = turns, !.file = files]
Past(n) == {Order[i] : i \in 1..n}

Lifecycle(d, state, reason) == [d EXCEPT !.state = state, !.reason = reason]

\* Mutant of settleTerminalRound: a Team that is closing is not spared.
settleAnyRound(d, allTerminal) ==
  CASE ~allTerminal -> d
    [] allTerminal /\ d.mode = "panel" -> Lifecycle(d, "closed", "panel_settled")
    [] OTHER -> Lifecycle(d, "open", "none")

settleTerminalRound(d, allTerminal) ==
  CASE ~allTerminal -> d
    [] allTerminal /\ d.mode = "panel" -> Lifecycle(d, "closed", "panel_settled")
    [] allTerminal /\ d.mode = "session" /\ d.state \in {"closing", "cancelling"} -> d
    [] OTHER -> Lifecycle(d, "open", "none")

\* The participant's own file, then the snapshot with the round settled.
SettleParticipant(d, p, participation) ==
  LET f == WriteTeamParticipant(d, p, participation)
      s == WriteTeamSnapshot(f, d.state, d.reason, [d.part EXCEPT ![p] = participation])
  IN Writes({f}, settleTerminalRound(s, ParticipantsSettled(s)))

\* Mutant of commitContribution: the message is appended after the turn.
commitMessageLast(d, t) ==
  IF d.turn[t] # "active" THEN Written(d)
  ELSE LET r == WriteTeamTurn(d, t, "responded")
           m == AppendTeamMessage(r, t)
       IN After({r, m}, SettleParticipant(m, Of(t), [state |-> "responded", turn |-> t]))

\* Only a turn that is still active takes its contribution.
commitContribution(d, t) ==
  IF d.turn[t] # "active" THEN Written(d)
  ELSE LET m == AppendTeamMessage(d, t)
           r == WriteTeamTurn(m, t, "responded")
       IN After({m, r}, SettleParticipant(r, Of(t), [state |-> "responded", turn |-> t]))

\* Mutant of markTurnFailure: a turn that is over is marked again.
markAnyTurn(d, t, state) ==
  LET r == WriteTeamTurn(d, t, state)
      participation == [d.part[Of(t)] EXCEPT !.state = participantStateForTurn(state)]
  IN After({r}, SettleParticipant(r, Of(t), participation))

markTurnFailure(d, t, state) ==
  IF d.turn[t] \notin {"prepared", "dispatching", "active"} THEN Written(d)
  ELSE LET r == WriteTeamTurn(d, t, state)
           participation == [d.part[Of(t)] EXCEPT !.state = participantStateForTurn(state)]
       IN After({r}, SettleParticipant(r, Of(t), participation))

\* Participants the snapshot has no turn for get one, its turn's file before its
\* own; the snapshot is written last, so a crash before it prepares the same
\* turns again.
prepareInitialTurns(d) ==
  LET missing == {p \in Participant : d.part[p].turn = Nobody}
      first(p) == [state |-> "running", turn |-> <<p, "initial">>]
      files(new) == [p \in Participant |-> IF p \in new THEN first(p) ELSE d.file[p]]
      turns(new) == [t \in TurnId |-> IF t[2] = "initial" /\ Of(t) \in new THEN "prepared" ELSE d.turn[t]]
      parts == [p \in Participant |-> IF p \in missing THEN first(p) ELSE d.part[p]]
      at(i, j) == Moved(d, turns(missing \cap Past(i)), files(missing \cap Past(j)))
      n == Len(Order)
  IN IF d.state = "closed" \/ missing = {} THEN Written(d)
     ELSE Writes({at(i, i) : i \in 1..n} \cup {at(i, i - 1) : i \in 1..n},
                 WriteTeamSnapshot(at(n, n), "running", d.reason, parts))

-----------------------------------------------------------------------------
(***************************************************************************)
(* Crash, commit and recovery.                                             *)
(***************************************************************************)

\* What has happened to the Team so far, and whether more may happen.
Undisturbed ==
  crashes + Cardinality({a \in Action : disk.intent[a].st # "none"}) + (IF expired THEN 1 ELSE 0)
    < MaxDisturbances

\* The Control Plane dies; files and executions stay.
Crashed ==
  /\ Undisturbed
  /\ crashes' = crashes + 1
  /\ up' = FALSE
  /\ pc' = [t \in TurnId |-> "idle"]
  /\ act' = [x \in Thread |-> Idle]
  /\ lock' = [p \in Participant |-> Nobody]
  /\ UNCHANGED expired

Crash == up /\ Crashed /\ UNCHANGED <<disk, ext>>

\* The writes of one mutation: all of them, or a crash after some.
Commit(m, Then) ==
  \/ disk' = m.to /\ Then /\ UNCHANGED <<up, crashes, expired>>
  \/ disk' \in m.through /\ Crashed

\* One controller per Team; a second dispatch is dropped.
DispatchAsync(jobs) ==
  IF jobs[Controller].at = "idle" THEN [jobs EXCEPT ![Controller] = Doing("prepare", {}, {}, Nobody)] ELSE jobs

\* repairPreparedTeamLocked: the participants' files as the snapshot has them,
\* one after the other.
repairPreparedTeam(d) ==
  LET files(n) == [p \in Participant |-> IF p \in Past(n) THEN d.part[p] ELSE d.file[p]]
      at(n) == Moved(d, d.turn, files(n))
  IN Writes({at(n) : n \in 0..Len(Order)}, at(Len(Order)))

\* The host starts the Team, or repeats the start: a Team that is not closed is
\* then dispatched.
Begin ==
  /\ up
  /\ IF disk.state = "none"
     THEN /\ Cardinality(Participant) <= Grant
          /\ LET s == [disk EXCEPT !.state = "created", !.ver = 1, !.cost = Cardinality(Participant)]
             IN Commit(Written(s), act' = DispatchAsync(act) /\ UNCHANGED <<pc, lock>>)
     ELSE Commit(repairPreparedTeam(disk), /\ act' = IF disk.state = "closed" THEN act ELSE DispatchAsync(act)
                                           /\ UNCHANGED <<pc, lock>>)
  /\ UNCHANGED ext

\* The controller prepares the initial turns and queues the turns there are.
Prepare ==
  /\ act[Controller].at = "prepare"
  /\ LET m == prepareInitialTurns(disk)
         turns == OpenTurns(m.to)
     IN Commit(m, /\ pc' = [t \in TurnId |-> IF t \in turns THEN "queued" ELSE "idle"]
                  /\ act' = [act EXCEPT ![Controller] = Doing("round", {}, {}, Nobody)]
                  /\ UNCHANGED lock)
  /\ UNCHANGED ext

\* A goroutine of the round enters under the limit.
MayEnter(t) ==
  /\ pc[t] = "queued"
  /\ Cardinality({u \in TurnId : pc[u] \notin {"idle", "queued"}})
       < IF disk.mode = "panel" THEN PanelLimit ELSE SessionLimit

\* Sessions that have to be closed, in a Team that is closing or cancelled.
OpenSessions(d) == {p \in Participant : d.sess[p] \in {"active", "parked"}}

\* The round is over; a session that is closing is now closed.
RoundEnds ==
  /\ act[Controller].at = "round"
  /\ \A t \in TurnId : pc[t] = "idle"
  /\ act' = [act EXCEPT ![Controller] =
               IF disk.mode = "session" /\ disk.state = "closing"
               THEN Closing(OpenSessions(disk)) ELSE Idle]
  /\ UNCHANGED <<disk, ext, pc, lock, up, crashes, expired>>

\* The process starts again: pending actions are repeated; without one, a
\* session that outlived its lifetime is closed and an unfinished Team is
\* dispatched again.
Recover ==
  LET pending == {a \in Action : disk.intent[a].st = "pending"}
      over == /\ expired /\ disk.mode = "session"
              /\ disk.state \notin {"none", "closed", "cancelling"}
      d == IF over /\ disk.state # "closing"
           THEN WriteTeamSnapshot(disk, "closing", disk.reason, disk.part) ELSE disk
  IN /\ ~up /\ up' = TRUE
     /\ IF pending # {}
        THEN /\ act' = [x \in Thread |-> IF x \in pending THEN Doing("replay", {}, {}, Nobody) ELSE Idle]
             /\ UNCHANGED disk
        ELSE /\ disk' = d
             /\ act' = CASE over /\ currentParticipantsTerminal(d) ->
                              [act EXCEPT ![Controller] = Closing(OpenSessions(d))]
                         [] ~(over /\ currentParticipantsTerminal(d))
                              /\ d.state \in {"created", "running", "closing"} -> DispatchAsync(act)
                         [] OTHER -> act
     /\ UNCHANGED <<ext, pc, lock, crashes, expired>>

\* The twenty-four hours of a session pass.
Expire ==
  /\ MayExpire /\ Undisturbed /\ ~expired /\ disk.mode = "session" /\ disk.state # "none"
  /\ expired' = TRUE
  /\ UNCHANGED <<disk, ext, pc, act, lock, up, crashes>>

\* External: an execution ends by itself, with an answer or without.
ExecutionEnds(t) ==
  /\ ext.turn[t] = "running"
  /\ \E end \in IF Of(t) \in Faulty THEN {"responded", "failed", "lost"} ELSE {"responded"} : ext' = [ext EXCEPT !.turn[t] = end]
  /\ UNCHANGED <<disk, pc, act, lock, up, crashes, expired>>

\* External: a confirmed cancellation leaves nothing running.
Interrupted(e, t) ==
  [e EXCEPT !.turn[t] = IF @ = "running" THEN "interrupted" ELSE @]

\* The snapshot names a turn for every participant.
TurnsPrepared == \A p \in Participant : disk.part[p].turn # Nobody

\* The host may make another call.
HostMayCall == HostIsSerial => \A a \in Action : act[a].at = "idle"

Answered(d, a) ==
  LET i == d.intent[a] IN WriteTeamActionIntent(d, a, Asked("done", i.ver, i.turn, i.to))
=============================================================================
