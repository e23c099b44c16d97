----------------------------- MODULE TeamPanel -----------------------------
(***************************************************************************)
(* A panel: every participant answers once and the Team closes.  The       *)
(* driver of a panel runs a one-shot execution per turn; the only action   *)
(* of the host is the cancellation of the whole Team.                      *)
(***************************************************************************)
EXTENDS Team

\* Mutant of dispatchTurn: a turn found dispatching is launched again.
dispatchTurnAgain(t) ==
  /\ disk.mode = "panel" /\ MayEnter(t)
  /\ LET next(s) == pc' = [pc EXCEPT ![t] = s] /\ UNCHANGED <<act, lock>>
     IN CASE disk.turn[t] = "active" /\ t \in disk.exec -> Commit(Written(disk), next("watch"))
          [] disk.turn[t] \in {"prepared", "dispatching"} ->
               Commit(Written(WriteTeamTurn(disk, t, "dispatching")), next("launch"))
          [] OTHER -> Commit(Written(disk), next("idle"))
  /\ UNCHANGED ext

\* The first step of a goroutine: what the file of the turn allows.  A turn
\* found dispatching has lost its execution and is never launched again.
dispatchTurn(t) ==
  /\ disk.mode = "panel" /\ MayEnter(t)
  /\ LET next(s) == pc' = [pc EXCEPT ![t] = s] /\ UNCHANGED <<act, lock>>
     IN CASE disk.turn[t] = "active" /\ t \in disk.exec ->
               Commit(Written(disk), next("watch"))
          [] disk.turn[t] = "dispatching" \/ (disk.turn[t] = "active" /\ t \notin disk.exec) ->
               Commit(markTurnFailure(disk, t, "indeterminate"), next("idle"))
          [] disk.turn[t] = "prepared" ->
               Commit(Written(WriteTeamTurn(disk, t, "dispatching")), next("launch"))
          [] OTHER -> Commit(Written(disk), next("idle"))
  /\ UNCHANGED ext

\* driver.Start: an execution runs, or the driver refused.
Launch(t) ==
  /\ pc[t] = "launch"
  /\ \/ /\ ext' = [ext EXCEPT !.turn[t] = IF @ = "none" THEN "running" ELSE "twice"]
        /\ pc' = [pc EXCEPT ![t] = "started"]
        /\ UNCHANGED <<disk, act, lock, up, crashes, expired>>
     \/ /\ Of(t) \in Faulty
        /\ Commit(markTurnFailure(disk, t, "failed"),
                  pc' = [pc EXCEPT ![t] = "idle"] /\ UNCHANGED <<act, lock>>)
        /\ UNCHANGED ext

\* The handle is stored; if the turn is no longer waiting for it, the late
\* execution has to be stopped.
Launched(t) ==
  /\ disk.mode = "panel" /\ pc[t] = "started"
  /\ LET h == WriteTeamExecution(disk, t)
     IN IF disk.turn[t] = "dispatching"
        THEN Commit(Writes({h}, WriteTeamTurn(h, t, "active")),
                    pc' = [pc EXCEPT ![t] = "watch"] /\ UNCHANGED <<act, lock>>)
        ELSE Commit(Written(h), pc' = [pc EXCEPT ![t] = "stop"] /\ UNCHANGED <<act, lock>>)
  /\ UNCHANGED ext

\* The late execution is cancelled; a cancellation that is not confirmed is
\* not repeated.
StopLate(t) ==
  /\ pc[t] = "stop"
  /\ pc' = [pc EXCEPT ![t] = "idle"]
  /\ \/ ext' = Interrupted(ext, t)
     \/ Of(t) \in Faulty /\ UNCHANGED ext
  /\ UNCHANGED <<disk, act, lock, up, crashes, expired>>

\* One observation that ends the goroutine: an answer, a bad answer or an
\* output that cannot be read, a lost execution or a failing driver.
observeTurn(t) ==
  /\ disk.mode = "panel" /\ pc[t] = "watch"
  /\ LET ends(m) == Commit(m, pc' = [pc EXCEPT ![t] = "idle"] /\ UNCHANGED <<act, lock>>)
     IN \/ ext.turn[t] = "responded" /\ ends(commitContribution(disk, t))
        \/ ext.turn[t] \in {"failed", "interrupted"} /\ ends(markTurnFailure(disk, t, "failed"))
        \/ Of(t) \in Faulty /\ ends(markTurnFailure(disk, t, "indeterminate"))
  /\ UNCHANGED ext

-----------------------------------------------------------------------------
(***************************************************************************)
(* The cancellation of a panel.                                            *)
(***************************************************************************)

\* Mutant of MarkCancelling: a turn that was not launched yet is left alone.
MarkActiveOnly(state) == IF state = "active" THEN "cancelling" ELSE state

\* What the first half makes of a turn.
MarkCancelling(state) ==
  CASE state \in {"active", "prepared"} -> "cancelling"
    [] state = "dispatching" -> "indeterminate"
    [] OTHER -> state

Unconfirmed(q) == [q EXCEPT !.state = "indeterminate"]
Dispatching(d, p) == \E t \in TurnIds(d) : Of(t) = p /\ d.turn[t] = "dispatching"

\* The turns are marked one after the other, and the file of a participant whose
\* turn was dispatching follows its turn; the other participants change only
\* in memory until the snapshot is written.
MarkTurns(d) ==
  LET turns(T) == [t \in TurnId |-> IF t \in T THEN MarkCancelling(d.turn[t]) ELSE d.turn[t]]
      files(T) == [p \in Participant |->
                     IF \E t \in T : Of(t) = p /\ d.turn[t] = "dispatching" THEN Unconfirmed(d.part[p]) ELSE d.file[p]]
      at(T, F) == Moved(d, turns(T), files(F))
      all == TurnIds(d)
  IN Writes({at(T, T) : T \in SUBSET all} \cup UNION {{at(T \cup {t}, T) : T \in SUBSET all} : t \in all}, at(all, all))

\* Then the snapshot, unless the Team was cancelling already.
CancellingSnapshot(before, d) ==
  IF d.state = "cancelling" THEN d
  ELSE WriteTeamSnapshot(d, "cancelling", d.reason,
         [p \in Participant |-> IF Dispatching(before, p) THEN Unconfirmed(d.part[p]) ELSE d.part[p]])

\* A new cancellation, or the same one again while it has no response.
PanelCancel(a) ==
  LET fresh == disk.intent[a].st = "none"
      d == IF fresh THEN WriteTeamActionIntent(disk, a, Asked("pending", disk.ver, Nobody, {})) ELSE disk
      marked == MarkTurns(d)
      next(job) == act' = [act EXCEPT ![a] = job] /\ UNCHANGED <<pc, lock>>
  IN /\ disk.mode = "panel" /\ up /\ disk.state # "none"
     /\ act[a].at = "replay" \/ (act[a].at = "idle" /\ HostMayCall)
     /\ disk.intent[a].st # "done"
     /\ IF fresh THEN /\ Undisturbed
                      /\ ~(disk.state = "closed" /\ disk.reason # "cancelled")
                      /\ EarlyCancel \/ TurnsPrepared
        ELSE TRUE
     /\ CASE disk.state = "closed" /\ disk.reason = "cancelled" -> Commit(Writes({d}, Answered(d, a)), next(Idle))
          [] disk.state = "closed" /\ disk.reason # "cancelled" -> Commit(Written(disk), next(Idle))
          [] OTHER ->
               Commit(Writes(Disks(marked), CancellingSnapshot(d, marked.to)),
                      next(Doing("calls", TurnIds(d),
                                 {Of(t) : t \in {u \in d.exec : marked.to.turn[u] = "cancelling"}}, Nobody)))
     /\ UNCHANGED ext

\* driver.Cancel of the next execution; without a confirmation the action
\* ends with an error and keeps its intent.
PanelCancelCall(a, p) ==
  /\ act[a].at = "calls" /\ p \in act[a].parts
  /\ \/ /\ ext' = Interrupted(ext, <<p, "initial">>)
        /\ act' = [act EXCEPT ![a] = Doing("calls", @.turns, @.parts \ {p}, Nobody)]
     \/ p \in Faulty /\ act' = [act EXCEPT ![a] = Idle] /\ UNCHANGED ext
  /\ UNCHANGED <<disk, pc, lock, up, crashes, expired>>

Ended(q) == IF q.state \in {"pending", "running"} THEN [q EXCEPT !.state = "cancelled"] ELSE q

\* The turns one after the other, the participants that were still at work in
\* the order of the snapshot, then the snapshot.
CancelledTurns(d, all) ==
  LET turns(T) == [t \in TurnId |-> IF t \in T /\ d.turn[t] = "cancelling" THEN "cancelled" ELSE d.turn[t]]
      files(P) == [p \in Participant |-> IF p \in P /\ d.part[p].state \in {"pending", "running"}
                                         THEN Ended(d.part[p]) ELSE d.file[p]]
      at(T, n) == Moved(d, turns(T), files(Past(n)))
  IN Writes({at(T, 0) : T \in SUBSET all} \cup {at(all, n) : n \in 1..Len(Order)},
            WriteTeamSnapshot(at(all, Len(Order)), "closed", "cancelled",
                              [p \in Participant |-> Ended(d.part[p])]))

\* Every call is confirmed: the turns, the participants, the Team.
PanelCancelFinish(a) ==
  LET m == CancelledTurns(disk, act[a].turns)
  IN /\ disk.mode = "panel" /\ act[a].at = "calls" /\ act[a].parts = {}
     /\ Commit(Writes(Disks(m), Answered(m.to, a)), act' = [act EXCEPT ![a] = Idle] /\ UNCHANGED <<pc, lock>>)
     /\ UNCHANGED ext

PanelNext ==
  \/ \E t \in TurnId : \/ dispatchTurn(t) \/ Launch(t) \/ Launched(t)
                       \/ StopLate(t) \/ observeTurn(t)
  \/ \E a \in Cancel : \/ PanelCancel(a) \/ PanelCancelFinish(a)
                       \/ \E p \in Participant : PanelCancelCall(a, p)
=============================================================================
