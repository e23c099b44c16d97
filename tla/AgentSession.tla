---------------------------- MODULE AgentSession ----------------------------
(***************************************************************************)
(* One AgentSession: the record its driver keeps, the agent behind it, and *)
(* the handles the Team keeps of it.  Every change of the record gives it  *)
(* a new revision, and the driver refuses a handle of another revision, so *)
(* the Team has to store what each call returned before the next one.      *)
(*                                                                         *)
(* A call of the driver is an outcome: the records it writes in turn, what *)
(* it answers and whether its connection is open afterwards.  CodexSession *)
(* and HarnessSession say which outcomes the two drivers have; this module *)
(* has what they share and the Team's side of every call.  A crash ends    *)
(* the process at any point: between two writes, and between the last      *)
(* write of the driver and the first write of the Team.                    *)
(***************************************************************************)
EXTENDS Naturals, Sequences, FiniteSets

CONSTANTS
  Turn,          \* the logical turns, in the order the Team happens to ask for them
  Kinds,         \* the drivers: "codex", "harness"
  MaxCrashes,    \* bound on crashes of the engine
  MaxFaults,     \* bound on failing calls of the agent
  MayCancel,     \* the host may cancel a turn
  Nothing

ASSUME SessionAssumption ==
  /\ IsFiniteSet(Turn) /\ Nothing \notin Turn
  /\ Kinds \subseteq {"codex", "harness"}
  /\ MaxCrashes \in Nat /\ MaxFaults \in Nat /\ MayCancel \in BOOLEAN

VARIABLES
  kind,     \* which driver serves the session
  rec,      \* the record of the driver, on disk
  world,    \* external: the executions of the turns, and whether the agent lost the session
  client,   \* the driver has a connection to the agent
  team,     \* what the Team has on disk of this session and its turns
  call,     \* the call in progress
  attended, \* the turns this process has a dispatcher for
  crashes, faults

vars == <<kind, rec, world, client, team, call, attended, crashes, faults>>

DriverTurnStates == {"none", "dispatching", "active", "responded", "interrupted", "failed", "lost"}
OpenTurn(ts) == ts \in {"dispatching", "active"}
SessionStates == {"none", "active", "parked", "lost", "closed"}
sessionRecord == [rev : Nat, state : SessionStates, turn : Turn \cup {Nothing}, known : BOOLEAN,
                  ts : DriverTurnStates, used : SUBSET Turn]
Runs == {"none", "running", "answered", "failed", "stopped"}
Worlds == [run : [Turn -> Runs], twice : SUBSET Turn, gone : BOOLEAN]
TeamTurnStates == {"none", "prepared", "dispatching", "active", "cancelling",
                   "responded", "failed", "indeterminate", "cancelled"}
TurnOver(s) == s \in {"responded", "failed", "indeterminate", "cancelled"}
TeamRecords == [state : SessionStates, rev : Nat, env : [Turn -> Nat],
                turn : [Turn -> TeamTurnStates], closing : BOOLEAN]

\* Where a call stands, its turn, and the handle it returned.
Places == {"idle", "store", "opened", "start", "launch", "launched", "unsure", "started", "settle", "lose",
           "park", "parking", "cancel", "interrupting", "keep", "kept", "close"}
Calls == [at : Places, turn : Turn \cup {Nothing}, rev : Nat, ts : DriverTurnStates]

\* The shape of the state.
TypeOK ==
  /\ kind \in Kinds /\ rec \in sessionRecord /\ world \in Worlds /\ client \in BOOLEAN
  /\ team \in TeamRecords /\ call \in Calls /\ attended \subseteq Turn
  /\ crashes \in 0..MaxCrashes /\ faults \in 0..MaxFaults

Unused(rev, state) ==
  [rev |-> rev, state |-> state, turn |-> Nothing, known |-> FALSE, ts |-> "none", used |-> {}]
NoRecord == Unused(0, "none")
NewRecord == Unused(1, "active")
Idle == [at |-> "idle", turn |-> Nothing, rev |-> 0, ts |-> "none"]

Init ==
  /\ kind \in Kinds
  /\ rec = NoRecord
  /\ world = [run |-> [t \in Turn |-> "none"], twice |-> {}, gone |-> FALSE]
  /\ client = FALSE
  /\ team = [state |-> "none", rev |-> 0, env |-> [t \in Turn |-> 0],
             turn |-> [t \in Turn |-> "none"], closing |-> FALSE]
  /\ call = Idle
  /\ attended = {}
  /\ crashes = 0 /\ faults = 0

-----------------------------------------------------------------------------
(***************************************************************************)
(* Outcomes of a call, and the steps that carry them out.                  *)
(***************************************************************************)

\* writes: the records written, in turn; says: what the caller is told.
Outcome(writes, says, connected, fault) ==
  [writes |-> writes, says |-> says, client |-> connected, fault |-> fault]

\* The record after the call.
After(r, o) == IF o.writes = <<>> THEN r ELSE o.writes[Len(o.writes)]

Refused(says) == {Outcome(<<>>, says, client, FALSE)}
Fails(connected) == {Outcome(<<>>, "error", connected, TRUE)}
Answers(connected) == {Outcome(<<>>, "ok", connected, FALSE)}
Writes(r, connected) == {Outcome(<<r>>, "ok", connected, FALSE)}

\* A call goes on with what its first part left, unless that part ended it.
Follow(r, os, GoOn(_, _)) ==
  UNION {IF o.says # "ok" THEN {o}
         ELSE {Outcome(o.writes \o n.writes, n.says, n.client, o.fault \/ n.fault) :
                 n \in GoOn(After(r, o), o.client)} : o \in os}

Bump(r) == [r EXCEPT !.rev = @ + 1]
Turned(r, ts) == [Bump(r) EXCEPT !.ts = ts]
Identified(r, ts) == [Turned(r, ts) EXCEPT !.known = TRUE]
Moved(r, state) == [Bump(r) EXCEPT !.state = state]
LostTurn(r) == [Turned(r, "lost") EXCEPT !.state = "lost"]
Intended(r, t) == [Turned(r, "dispatching") EXCEPT !.turn = t, !.known = FALSE, !.used = @ \cup {t}]

\* A crash; the next process attends to every turn it finds (Recover).
Crashed ==
  /\ crashes < MaxCrashes /\ crashes' = crashes + 1
  /\ attended' = Turn
  /\ call' = Idle
  /\ client' = FALSE
  /\ UNCHANGED <<kind, faults>>

Crash == Crashed /\ UNCHANGED <<rec, world, team>>

\* The driver's part of a call: all its writes, or a crash after some.
Driver(o, Then) ==
  \/ /\ o.fault => faults < MaxFaults
     /\ faults' = IF o.fault THEN faults + 1 ELSE faults
     /\ rec' = After(rec, o)
     /\ client' = o.client
     /\ Then
     /\ UNCHANGED <<kind, attended, crashes>>
  \/ \E i \in 1..(Len(o.writes) - 1) : rec' = o.writes[i] /\ Crashed /\ UNCHANGED <<world, team>>

\* The Team's writes after a call: all of them, or a crash after some.  The
\* turns in "done" are left alone from here on.
StoreAndLeave(ds, next, done) ==
  /\ \/ /\ team' = ds[Len(ds)] /\ call' = next /\ attended' = attended \ done
        /\ UNCHANGED <<kind, client, crashes, faults>>
     \/ \E i \in 1..(Len(ds) - 1) : team' = ds[i] /\ Crashed
  /\ UNCHANGED <<rec, world>>

Store(ds, next) == StoreAndLeave(ds, next, {})

\* The call goes on elsewhere, or stands at a place with what was returned.
GoesTo(where) == [call EXCEPT !.at = where]
At(where, t, r) == [at |-> where, turn |-> t, rev |-> r.rev, ts |-> r.ts]

\* The participant's record: the state of the session and its latest handle.
Held(d, state, rev) == [d EXCEPT !.state = state, !.rev = rev]

\* A turn of the Team changes; its execution has an envelope.
TurnIs(d, t, state) == [d EXCEPT !.turn[t] = state]
Enveloped(d, t, rev) == [d EXCEPT !.env[t] = rev]

\* Mutant of markTurnFailure: a turn on its way is left alone too.
markActiveTurnFailure(d, t, state) ==
  IF d.turn[t] = "active" THEN TurnIs(d, t, state) ELSE d

\* markTurnFailureLocked leaves a turn alone that is over or being cancelled.
markTurnFailure(d, t, state) ==
  IF d.turn[t] \in {"prepared", "dispatching", "active"} THEN TurnIs(d, t, state) ELSE d

\* External: the execution of a turn changes.
RunIs(w, t, run) == [w EXCEPT !.run[t] = run]

\* External: the agent finishes a turn, loses the session, or dies with the
\* connection it was started over.
AgentEnds(t) ==
  /\ world.run[t] = "running"
  /\ \E end \in {"answered", "failed"} \cup (IF client THEN {} ELSE {"stopped"}) :
       world' = RunIs(world, t, end)
  /\ UNCHANGED <<kind, rec, client, team, call, attended, crashes, faults>>

SessionGoes ==
  /\ rec.state # "none" /\ ~world.gone /\ ~client /\ faults < MaxFaults
  /\ world' = [world EXCEPT !.gone = TRUE]
  /\ faults' = faults + 1
  /\ UNCHANGED <<kind, rec, client, team, call, attended, crashes>>

\* External: the agent takes the turn.
Launches(t) ==
  IF world.run[t] = "none" THEN RunIs(world, t, "running")
  ELSE [world EXCEPT !.twice = @ \cup {t}]

-----------------------------------------------------------------------------
(***************************************************************************)
(* The Team's side: one participant of a session, under its session lock.  *)
(***************************************************************************)

\* A turn is asked for when the earlier ones are over and the session usable.
Ask(t) ==
  /\ team.turn[t] = "none"
  /\ \A u \in Turn : team.turn[u] = "none" \/ TurnOver(team.turn[u])
  /\ team.state \in {"none", "active", "parked"} /\ ~team.closing
  /\ team' = TurnIs(team, t, "prepared")
  /\ attended' = attended \cup {t}
  /\ UNCHANGED <<kind, rec, world, client, call, crashes, faults>>

Dispatchable(t) ==
  t \in attended /\ call = Idle /\ team.turn[t] \in {"prepared", "dispatching"} /\ team.env[t] = 0

GiveUp(d, t) == team' = markTurnFailure(d, t, "indeterminate") /\ call' = Idle

\* A session that is active is used as it is, one that is over is not replaced.
UseSession(t) ==
  /\ Dispatchable(t)
  /\ \/ team.state = "active" /\ call' = [Idle EXCEPT !.at = "opened", !.turn = t, !.rev = team.rev] /\ UNCHANGED team
     \/ team.state \in {"lost", "closed"} /\ GiveUp(team, t)
  /\ UNCHANGED <<kind, rec, world, client, attended, crashes, faults>>

\* The new or resumed handle is stored.
StoreSession ==
  /\ call.at = "store"
  /\ Store(<<Held(team, "active", call.rev)>>, GoesTo("opened"))

MarkDispatching ==
  /\ call.at = "opened"
  /\ Store(<<TurnIs(team, call.turn, "dispatching")>>, GoesTo("start"))

\* The envelope of the execution, the record, and only then the turn.
StoreTurn ==
  LET t == call.turn
      e == Enveloped(team, t, call.rev)
      s == Held(e, "active", call.rev)
  IN /\ call.at = "started"
     /\ Store(<<e, s, TurnIs(s, t, "active")>>, Idle)

\* What an observation said is stored, then acted upon; only an active turn
\* takes an answer (commitContribution).  The dispatcher goes on only with a
\* turn that is still open.
StoreObservation ==
  LET t == call.turn
      e == Enveloped(team, t, call.rev)
      s == Held(e, "active", call.rev)
      l == Held(e, "lost", call.rev)
  IN /\ call.at = "settle"
     /\ CASE OpenTurn(call.ts) -> Store(<<e, s>>, Idle)
          [] call.ts = "responded" ->
               StoreAndLeave(<<e, s, IF s.turn[t] = "active" THEN TurnIs(s, t, "responded") ELSE s>>,
                     GoesTo("park"), {t})
          [] call.ts = "interrupted" ->
               StoreAndLeave(<<e, s, markTurnFailure(s, t, "cancelled")>>, GoesTo("park"), {t})
          [] call.ts = "failed" ->
               StoreAndLeave(<<e, s, markTurnFailure(s, t, "failed")>>, GoesTo("park"), {t})
          [] call.ts = "lost" -> StoreAndLeave(<<e, s, l, markTurnFailure(l, t, "indeterminate")>>, Idle, {t})

\* markSessionLost: the session is given up with its turn.
StoreLost ==
  LET l == Held(team, "lost", team.env[call.turn])
  IN call.at = "lose" /\ Store(<<l, markTurnFailure(l, call.turn, "indeterminate")>>, Idle)

\* The session is parked and its record stored; after a cancellation the turn
\* is over now.
StorePark ==
  LET t == call.turn
      e == Enveloped(team, t, call.rev)
      p == Held(e, "parked", call.rev)
  IN \/ call.at = "parking" /\ Store(<<Held(team, "parked", call.rev)>>, Idle)
     \/ call.at = "kept" /\ Store(<<e, p, TurnIs(p, t, "cancelled")>>, Idle)

\* The host cancels the active turn.
CancelAsked(t) ==
  /\ MayCancel /\ team.turn[t] = "active"
  /\ team' = TurnIs(team, t, "cancelling")
  /\ UNCHANGED <<kind, rec, world, client, call, attended, crashes, faults>>

\* The host closes the Team; its sessions are closed once the turns are over.
CloseAsked ==
  /\ ~team.closing /\ \E t \in Turn : team.turn[t] # "none"
  /\ team' = [team EXCEPT !.closing = TRUE]
  /\ UNCHANGED <<kind, rec, world, client, call, attended, crashes, faults>>

Closable ==
  /\ call = Idle /\ team.closing /\ team.state \in {"active", "parked"}
  /\ \A u \in Turn : team.turn[u] = "none" \/ TurnOver(team.turn[u])

StoreClose == call.at = "close" /\ Store(<<Held(team, "closed", call.rev)>>, Idle)
=============================================================================
