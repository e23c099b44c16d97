---------------------------- MODULE TeamSession ----------------------------
(***************************************************************************)
(* A session: every participant keeps an AgentSession at its driver, the   *)
(* host sends follow-ups, cancels a turn, closes or cancels the Team.      *)
(* Calls of the driver for one participant are serialised by its session   *)
(* lock, which is held over the call; the mutex of the service is not.     *)
(***************************************************************************)
EXTENDS Team

Free(p) == lock[p] = Nobody

\* What the driver of a session promises (Codex: driver/codexprocess/session.go).
TurnRuns(p) == \E t \in TurnId : Of(t) = p /\ ext.turn[t] = "running"

\* External: CloseSession and ParkSession are refused while a turn runs.
DriverLeaves(p, state) == IF TurnRuns(p) THEN {} ELSE {[ext EXCEPT !.sess[p] = state]}

Goroutine(t, at, holder) ==
  /\ pc' = [pc EXCEPT ![t] = at]
  /\ lock' = [lock EXCEPT ![Of(t)] = holder]
  /\ UNCHANGED act

-----------------------------------------------------------------------------
(***************************************************************************)
(* The dispatch of a turn.                                                 *)
(***************************************************************************)

\* A turn with an execution envelope is observed, one without is launched.
dispatchSessionTurn(t) ==
  /\ disk.mode = "session" /\ MayEnter(t)
  /\ pc' = [pc EXCEPT ![t] = CASE disk.turn[t] \notin {"prepared", "dispatching", "active"} -> "idle"
                               [] t \in disk.exec -> "watch"
                               [] OTHER -> "open"]
  /\ UNCHANGED <<disk, ext, act, lock, up, crashes, expired>>

\* Under the session lock the session is started or resumed; one that is lost
\* or closed is not replaced and the turn is given up.
ensureParticipantSession(t) ==
  LET p == Of(t)
      lost(d) == WriteTeamParticipantSession(d, p, "lost")
      giveUp(d) == markTurnFailure(d, t, "indeterminate")
  IN /\ pc[t] = "open" /\ Free(p)
     /\ \/ /\ disk.sess[p] \in {"none", "parked"} /\ ext.sess[p] # "closed"
           /\ ext' = [ext EXCEPT !.sess[p] = "active"]
           /\ Goroutine(t, "opened", t)
           /\ UNCHANGED <<disk, up, crashes, expired>>
        \/ /\ disk.sess[p] = "active"
           /\ Goroutine(t, "opened", t)
           /\ UNCHANGED <<disk, ext, up, crashes, expired>>
        \/ \* the driver says the thread is gone
           /\ disk.sess[p] = "parked" /\ p \in Faulty
           /\ Commit(After({lost(disk)}, giveUp(lost(disk))), Goroutine(t, "idle", Nobody))
           /\ UNCHANGED ext
        \/ \* the record is lost or closed, or the driver fails
           /\ disk.sess[p] \in {"lost", "closed"} \/ (disk.sess[p] # "active" /\ p \in Faulty)
           /\ Commit(giveUp(disk), Goroutine(t, "idle", Nobody))
           /\ UNCHANGED ext

\* The record of the session, then the turn: it may have been cancelled meanwhile.
SessionReady(t) ==
  LET d == WriteTeamParticipantSession(disk, Of(t), "active")
  IN /\ pc[t] = "opened"
     /\ IF disk.turn[t] \in {"prepared", "dispatching"}
        THEN Commit(Writes({d}, WriteTeamTurn(d, t, "dispatching")), Goroutine(t, "turn", t))
        ELSE Commit(Written(d), Goroutine(t, "idle", Nobody))
     /\ UNCHANGED ext

\* driver.StartTurn: a turn the driver already knows is only reconciled.
StartTurn(t) ==
  /\ pc[t] = "turn"
  /\ \/ /\ ext.turn[t] # "none" \/ ~TurnRuns(Of(t))
        /\ ext' = [ext EXCEPT !.turn[t] = IF @ = "none" THEN "running" ELSE @]
        /\ Goroutine(t, "started", t)
        /\ UNCHANGED <<disk, up, crashes, expired>>
     \/ /\ Of(t) \in Faulty \/ (ext.turn[t] = "none" /\ TurnRuns(Of(t)))
        /\ Commit(markTurnFailure(disk, t, "indeterminate"), Goroutine(t, "idle", Nobody))
        /\ UNCHANGED ext

TurnStarted(t) ==
  LET e == WriteTeamExecution(disk, t)
      s == WriteTeamParticipantSession(e, Of(t), "active")
  IN /\ disk.mode = "session" /\ pc[t] = "started"
     /\ IF disk.turn[t] = "dispatching"
        THEN Commit(Writes({e, s}, WriteTeamTurn(s, t, "active")), Goroutine(t, "watch", Nobody))
        ELSE Commit(Writes({e}, s), Goroutine(t, "idle", Nobody))
     /\ UNCHANGED ext

\* One observation under the session lock.  A turn that is no longer active
\* ends the goroutine; an answer, an interruption or a failure is committed
\* and the session parked; a driver that fails loses the session.
observeSessionTurn(t) ==
  LET p == Of(t)
      seen == WriteTeamParticipantSession(disk, p, "active")
      gone == WriteTeamParticipantSession(disk, p, "lost")
  IN /\ disk.mode = "session" /\ pc[t] = "watch" /\ Free(p)
     /\ IF disk.turn[t] \notin {"active", "dispatching"}
        THEN Commit(Written(disk), Goroutine(t, "idle", Nobody))
        ELSE \/ /\ ext.turn[t] = "responded"
                /\ Commit(After({seen}, commitContribution(seen, t)), Goroutine(t, "park", t))
             \/ /\ ext.turn[t] = "interrupted"
                /\ Commit(After({seen}, markTurnFailure(seen, t, "cancelled")), Goroutine(t, "park", t))
             \/ /\ ext.turn[t] = "failed"
                /\ Commit(After({seen}, markTurnFailure(seen, t, "failed")), Goroutine(t, "park", t))
             \/ p \in Faulty /\ Commit(After({gone}, markTurnFailure(gone, t, "indeterminate")), Goroutine(t, "idle", Nobody))
     /\ UNCHANGED ext

\* The session is parked; when the driver refuses, the record stays active.
parkParticipantSession(t) ==
  LET p == Of(t) IN
  /\ pc[t] = "park"
  /\ \/ /\ ext' \in DriverLeaves(p, "parked")
        /\ Commit(Writes({disk}, WriteTeamParticipantSession(disk, p, "parked")), Goroutine(t, "idle", Nobody))
     \/ /\ TurnRuns(p) \/ p \in Faulty
        /\ Goroutine(t, "idle", Nobody)
        /\ UNCHANGED <<disk, ext, up, crashes, expired>>

-----------------------------------------------------------------------------
(***************************************************************************)
(* The actions of the host.                                                *)
(***************************************************************************)

preflightFollowUp(d, to) ==
  /\ d.state = "open"
  /\ \A p \in to : /\ d.part[p].turn # Nobody => terminalTeamTurn(d.turn[d.part[p].turn])
                   /\ d.sess[p] \in {"active", "parked"}
  /\ d.cost + Cardinality(to) <= Grant

preflightCancelTurn(d, t) ==
  /\ d.state \in {"running", "open", "closing"}
  /\ d.turn[t] \in {"active", "cancelling"}
  /\ d.part[Of(t)].turn = t
  /\ t \in d.exec

\* The call of an action that has its intent.
Carry(a, t) ==
  IF a \in CancelTurn THEN Doing("exact", {}, {}, t) ELSE Doing("go", {}, {}, Nobody)

\* A new action is checked against the snapshot and its intent written; the
\* mutex is released before the action is carried out.
sessionAction(a) ==
  LET accept(t, to) == /\ disk' = WriteTeamActionIntent(disk, a, Asked("pending", disk.ver, t, to))
                       /\ act' = [act EXCEPT ![a] = Carry(a, t)]
  IN /\ disk.mode = "session" /\ up /\ act[a].at = "idle" /\ HostMayCall /\ Undisturbed
     /\ disk.intent[a].st = "none" /\ disk.state \notin {"none", "closed"}
     /\ \/ /\ a \in FollowUp /\ ~expired
           /\ \E to \in SUBSET Participant \ {{}} : preflightFollowUp(disk, to) /\ accept(Nobody, to)
        \/ /\ a \in CancelTurn
           /\ \E t \in TurnId : preflightCancelTurn(disk, t) /\ accept(t, {})
        \/ /\ a \in Close /\ disk.state \in {"open", "running", "closing"}
           /\ accept(Nobody, {})
        \/ /\ a \in Cancel /\ (EarlyCancel \/ TurnsPrepared)
           /\ accept(Nobody, {})
     /\ UNCHANGED <<ext, pc, lock, up, crashes, expired>>

\* A follow-up after the lifetime closes the Team instead; it has no intent.
followUpExpired(a) ==
  LET d == WriteTeamSnapshot(disk, "closing", disk.reason, disk.part)
  IN /\ disk.mode = "session" /\ up /\ a \in FollowUp /\ act[a].at = "idle" /\ HostMayCall
     /\ disk.intent[a].st = "none" /\ expired /\ disk.state \notin {"none", "closed"}
     /\ EarlyCancel \/ TurnsPrepared
     /\ disk.ver < MaxVersion
     /\ disk' = d
     /\ act' = [act EXCEPT ![a] = IF currentParticipantsTerminal(d)
                                  THEN Closing(OpenSessions(d))
                                  ELSE Idle]
     /\ UNCHANGED <<ext, pc, lock, up, crashes, expired>>

\* Mutant of ClosedApplied: a closed Team answers whatever is pending.
ClosedAnswersAll(a) == TRUE

\* What a closed Team says of an action whose response was not written.
ClosedApplied(a) ==
  \/ a \in FollowUp /\ a \in disk.msgs /\ \A p \in disk.intent[a].to : disk.turn[<<p, a>>] # "none"
  \/ a \in CancelTurn /\ disk.turn[disk.intent[a].turn] = "cancelled"
  \/ a \in Close /\ disk.reason = "host_closed"
  \/ a \in Cancel /\ disk.reason = "cancelled"

\* The host or the recovery repeats an action that has no response.
replayAction(a) ==
  /\ disk.mode = "session" /\ up /\ disk.intent[a].st = "pending"
  /\ act[a].at = "replay" \/ (act[a].at = "idle" /\ HostMayCall)
  /\ IF disk.state = "closed"
     THEN /\ disk' = IF ClosedApplied(a) THEN Answered(disk, a) ELSE disk
          /\ act' = [act EXCEPT ![a] = Idle]
     ELSE act' = [act EXCEPT ![a] = Carry(a, disk.intent[a].turn)] /\ UNCHANGED disk
  /\ UNCHANGED <<ext, pc, lock, up, crashes, expired>>

\* A follow-up that is repeated after its response only dispatches again.
replayFollowUp(a) ==
  /\ disk.mode = "session" /\ up /\ a \in FollowUp
  /\ disk.intent[a].st = "done" /\ act[a].at = "idle" /\ HostMayCall
  /\ act[Controller].at = "idle"
  /\ act' = DispatchAsync(act)
  /\ UNCHANGED <<disk, ext, pc, lock, up, crashes, expired>>

\* The snapshot with the participants as their files are and every turn paid.
FollowUpSnapshot(d, expected) ==
  LET s == [d EXCEPT !.part = d.file, !.cost = Cardinality(TurnIds(d)), !.ver = IF @ = expected THEN @ + 1 ELSE @]
  IN Lifecycle(s, IF currentParticipantsTerminal(s) THEN "open" ELSE "running", d.reason)

\* The message and a turn for every addressed participant, its file before the
\* participant's own.  Everything already there from an earlier try is kept.
FollowUpTurns(d, a, to) ==
  LET turns(P) == [t \in TurnId |-> IF t[2] = a /\ Of(t) \in to \cap P /\ d.turn[t] = "none"
                                    THEN "prepared" ELSE d.turn[t]]
      files(P) == [p \in Participant |->
                     IF p \in to \cap P
                     THEN [state |-> participantStateForTurn(turns(P)[<<p, a>>]), turn |-> <<p, a>>]
                     ELSE d.file[p]]
      at(i, j) == Moved(AppendTeamMessage(d, a), turns(Past(i)), files(Past(j)))
      n == Len(Order)
  IN Writes({at(i, i) : i \in 0..n} \cup {at(i, i - 1) : i \in 1..n}, at(n, n))

\* Then the snapshot and the response.  The snapshot may be refused, or the
\* catalog no longer has the model of a participant that needs a turn: then
\* the action ends with an error, after what was written before.
commitFollowUp(a) ==
  LET to == disk.intent[a].to
      m == FollowUpTurns(disk, a, to)
      n == FollowUpSnapshot(m.to, disk.intent[a].ver)
      Ends(mutation) == Commit(mutation, act' = [act EXCEPT ![a] = Idle] /\ UNCHANGED <<pc, lock>>)
  IN /\ a \in FollowUp /\ act[a].at = "go"
     /\ \/ IF ValidateTeamSession(n)
           THEN Commit(Writes(Disks(m) \cup {n}, Answered(n, a)),
                       act' = DispatchAsync([act EXCEPT ![a] = Idle]) /\ UNCHANGED <<pc, lock>>)
           ELSE Ends(m)
        \/ \E i \in DOMAIN Order :
             /\ Order[i] \in to \cap Unlisted /\ disk.turn[<<Order[i], a>>] = "none"
             /\ Ends(FollowUpTurns(disk, a, to \cap Past(i - 1)))
     /\ UNCHANGED ext

\* First half of the cancellation of one turn: it is marked, so that its
\* observer leaves it alone.
MarkTurn(d, t) ==
  IF d.turn[t] # "active" THEN Written(d)
  ELSE LET w == WriteTeamTurn(d, t, "cancelling") IN Writes({w}, WriteTeamSnapshot(w, d.state, d.reason, d.part))

\* The last writes of the cancellation of one turn.
completeCancelledTurn(d, t, transition) ==
  LET p == Of(t)
      q == [d.part[p] EXCEPT !.state = "cancelled"]
      w == IF transition THEN WriteTeamTurn(d, t, "cancelled") ELSE d
      f == WriteTeamParticipant(w, p, q)
      s == WriteTeamSnapshot(f, d.state, d.reason, [d.part EXCEPT ![p] = q])
  IN IF transition \/ d.part[p].state # "cancelled"
     THEN Writes({w, f}, settleTerminalRound(s, currentParticipantsTerminal(s)))
     ELSE Written(d)

cancelExactSessionTurn(a) ==
  LET t == act[a].now
      next(job) == act' = [act EXCEPT ![a] = job] /\ UNCHANGED <<pc, lock>>
  IN /\ act[a].at = "exact"
     /\ IF t \in disk.exec
        THEN Commit(MarkTurn(disk, t), next(Doing("confirm", act[a].turns, {}, t)))
        ELSE Commit(Written(disk), next(Idle))
     /\ UNCHANGED ext

\* Second half, under the session lock: observe, interrupt, park, and only
\* then the turn is cancelled.  An answer that came first is offered to
\* commitContribution and the action ends with a conflict.
ConfirmCancelTurn(a) ==
  LET t == act[a].now
      p == Of(t)
      answer(m) == IF a \in CancelTurn THEN Writes(Disks(m), Answered(m.to, a)) ELSE m
      next(job) == act' = [act EXCEPT ![a] = job] /\ UNCHANGED <<pc, lock>>
      done == next(IF a \in CancelTurn THEN Idle ELSE Doing("turns", act[a].turns, {}, Nobody))
      parked(d) == WriteTeamParticipantSession(d, p, "parked")
  IN /\ act[a].at = "confirm" /\ Free(p)
     /\ \/ /\ disk.turn[t] = "cancelled"
           /\ Commit(answer(completeCancelledTurn(disk, t, FALSE)), done)
           /\ UNCHANGED ext
        \/ /\ disk.turn[t] # "cancelled" /\ ext.turn[t] = "responded"
           /\ LET m == commitContribution(disk, t)
              IN \/ /\ ext' \in DriverLeaves(p, "parked")
                    /\ Commit(Writes({disk} \cup Disks(m), parked(m.to)), next(Idle))
                 \/ /\ TurnRuns(p) \/ p \in Faulty
                    /\ Commit(m, next(Idle)) /\ UNCHANGED ext
        \/ /\ disk.turn[t] # "cancelled" /\ ext.turn[t] \in {"interrupted", "running"}
           /\ LET stopped == Interrupted(ext, t)
              IN ext' = [stopped EXCEPT !.sess[p] = "parked"]
           /\ Commit(After({disk, parked(disk)}, answer(completeCancelledTurn(parked(disk), t, TRUE))), done)
        \/ /\ disk.turn[t] # "cancelled" /\ p \in Faulty \* the driver fails, or the turn did
           /\ ext' \in {ext, Interrupted(ext, t)}
           /\ Commit(Written(disk), next(Idle))

\* The Team stops accepting turns and the action has its response; it is
\* closed now if no turn is open, and by the controller otherwise.
closeTeamSession(a) ==
  LET d == IF disk.state = "closing" THEN disk
           ELSE WriteTeamSnapshot(disk, "closing", disk.reason, disk.part)
      r == Answered(d, a)
  IN /\ a \in Close /\ act[a].at = "go"
     /\ IF ValidateTeamSession(d)
        THEN Commit(Writes({d}, r),
                    /\ act' = [act EXCEPT ![a] = IF currentParticipantsTerminal(r)
                                                 THEN Closing(OpenSessions(r))
                                                 ELSE Idle]
                    /\ UNCHANGED <<pc, lock>>)
        ELSE Commit(Written(disk), act' = [act EXCEPT ![a] = Idle] /\ UNCHANGED <<pc, lock>>)
     /\ UNCHANGED ext

\* closeParticipantSessions: the next session, under its lock.
CloseParticipantSession(x, p) ==
  /\ act[x].at = "closing" /\ p \in act[x].parts /\ Free(p)
  /\ \/ /\ disk.sess[p] \in {"closed", "lost"}
        /\ act' = [act EXCEPT ![x] = Closing(@.parts \ {p})]
        /\ UNCHANGED <<disk, ext, pc, lock, up, crashes, expired>>
     \/ /\ disk.sess[p] \notin {"closed", "lost"}
        /\ ext' \in DriverLeaves(p, "closed")
        /\ Commit(Writes({disk}, WriteTeamParticipantSession(disk, p, "closed")),
                  act' = [act EXCEPT ![x] = Closing(@.parts \ {p})] /\ UNCHANGED <<pc, lock>>)
     \/ /\ disk.sess[p] \notin {"closed", "lost"} \* the driver refuses
        /\ TurnRuns(p) \/ p \in Faulty
        /\ act' = [act EXCEPT ![x] = Idle]
        /\ UNCHANGED <<disk, ext, pc, lock, up, crashes, expired>>

\* The last step of a graceful close: only a Team that is still closing and
\* has no open turn.
finalizeGracefulClose(x) ==
  LET c == WriteTeamSnapshot(disk, "closed", "host_closed", disk.part)
  IN /\ x \in Thread \ Cancel /\ act[x].at = "closing" /\ act[x].parts = {}
     /\ disk' = IF disk.state = "closing" /\ currentParticipantsTerminal(disk) THEN c ELSE disk
     /\ act' = [act EXCEPT ![x] = Idle]
     /\ UNCHANGED <<ext, pc, lock, up, crashes, expired>>

\* The cancellation of the whole Team: first it is marked.
cancelTeamSession(a) ==
  LET d == IF disk.state = "cancelling" THEN disk
           ELSE WriteTeamSnapshot(disk, "cancelling", disk.reason, disk.part)
  IN /\ a \in Cancel /\ act[a].at = "go" /\ disk.mode = "session"
     /\ CASE disk.state = "closed" /\ disk.reason = "cancelled" ->
               /\ disk' = Answered(disk, a)
               /\ act' = [act EXCEPT ![a] = Idle]
          [] disk.state = "closed" /\ disk.reason # "cancelled" ->
               /\ act' = [act EXCEPT ![a] = Idle]
               /\ UNCHANGED disk
          [] OTHER ->
               /\ disk' = d
               /\ act' = [act EXCEPT ![a] = Doing("turns", OpenTurns(d), {}, Nobody)]
     /\ UNCHANGED <<ext, pc, lock, up, crashes, expired>>

\* Then every turn, read without the mutex: an open one goes through
\* cancelExactSessionTurn, one seen without an execution through its file.
CancelReadTurn(a, t) ==
  /\ act[a].at = "turns" /\ t \in act[a].turns
  /\ LET job(at, now) == Doing(at, act[a].turns \ {t}, {}, now)
     IN act' = [act EXCEPT ![a] =
                  CASE disk.turn[t] \in {"active", "cancelling"} -> job("exact", t)
                    [] disk.turn[t] \in {"prepared", "dispatching"} -> job("mark", t)
                    [] OTHER -> job("turns", Nobody)]
  /\ UNCHANGED <<disk, ext, pc, lock, up, crashes, expired>>

CancelBeforeActive(a) ==
  /\ act[a].at = "mark"
  /\ Commit(markTurnFailure(disk, act[a].now, "cancelled"),
            act' = [act EXCEPT ![a] = Doing("turns", act[a].turns, {}, Nobody)] /\ UNCHANGED <<pc, lock>>)
  /\ UNCHANGED ext

CancelTurnsDone(a) ==
  /\ act[a].at = "turns" /\ act[a].turns = {}
  /\ act' = [act EXCEPT ![a] = Closing(OpenSessions(disk))]
  /\ UNCHANGED <<disk, ext, pc, lock, up, crashes, expired>>

CancelFinish(a) ==
  LET c == WriteTeamSnapshot(disk, "closed", "cancelled", disk.part)
  IN /\ a \in Cancel /\ act[a].at = "closing" /\ act[a].parts = {}
     /\ IF disk.state = "closed" /\ disk.reason = "cancelled"
        THEN Commit(Written(Answered(disk, a)), act' = [act EXCEPT ![a] = Idle] /\ UNCHANGED <<pc, lock>>)
        ELSE Commit(Writes({c}, Answered(c, a)), act' = [act EXCEPT ![a] = Idle] /\ UNCHANGED <<pc, lock>>)
     /\ UNCHANGED ext

SessionNext ==
  \/ \E t \in TurnId : \/ dispatchSessionTurn(t) \/ ensureParticipantSession(t) \/ SessionReady(t)
                       \/ StartTurn(t) \/ TurnStarted(t) \/ observeSessionTurn(t)
                       \/ parkParticipantSession(t)
  \/ \E a \in Action : \/ sessionAction(a) \/ followUpExpired(a) \/ replayAction(a)
                       \/ commitFollowUp(a) \/ cancelExactSessionTurn(a) \/ ConfirmCancelTurn(a)
                       \/ closeTeamSession(a) \/ cancelTeamSession(a)
                       \/ CancelTurnsDone(a) \/ CancelFinish(a)
                       \/ CancelBeforeActive(a) \/ replayFollowUp(a)
                       \/ \E t \in TurnId : CancelReadTurn(a, t)
  \/ \E x \in Thread : \/ finalizeGracefulClose(x)
                       \/ \E p \in Participant : CloseParticipantSession(x, p)
=============================================================================
