--------------------------- MODULE HarnessSession ---------------------------
(***************************************************************************)
(* The Claude and OpenCode driver.  Every turn is a process of its own     *)
(* under a supervisor that outlives the engine; its exit record says how   *)
(* the turn ended.  There is no connection to lose.                        *)
(***************************************************************************)
EXTENDS CodexSession

HarnessStartSession ==
  Fails(FALSE) \cup Writes(NewRecord, FALSE)

\* A changed executable is a lost session, but the record stays as it was.
HarnessResumeSession(rev) ==
  CASE Stale(rev) \/ rec.state = "closed" -> Refused("conflict")
    [] ~Stale(rev) /\ rec.state = "lost" -> Refused("lost")
    [] OTHER ->
         Fails(FALSE) \cup {Outcome(<<>>, "lost", FALSE, TRUE)}
         \cup (IF rec.state = "parked" THEN Writes(Moved(rec, "active"), FALSE) ELSE Answers(FALSE))

\* The last turn, asked for again, is answered from the record.
HarnessRecovers(rev, t) == ~Stale(rev) /\ rec.turn = t

HarnessIntends(rev, t) ==
  IF ~Stale(rev) /\ rec.turn # t /\ rec.state = "active" /\ ~OpenTurn(rec.ts)
  THEN Writes(Intended(rec, t), FALSE) ELSE Refused("conflict")

\* ObserveManagedProcess: a process that was killed left an exit record, or
\* none; an answer under another identity than an earlier answer gave the
\* session loses it.
Exits(run) ==
  CASE run = "answered" ->
         {Turned(rec, "responded")}
         \cup (IF \E u \in Turn \ {rec.turn} : world.run[u] = "answered"
               THEN {LostTurn(rec)} ELSE {})
    [] run = "failed" -> {Turned(rec, "failed")}
    [] run = "stopped" -> {Turned(rec, "failed"), LostTurn(rec)}

HarnessObserveTurn(rev, t) ==
  CASE Stale(rev) \/ rec.turn # t -> Refused("conflict")
    [] ~(Stale(rev) \/ rec.turn # t) /\ ~OpenTurn(rec.ts) -> Answers(FALSE)
    [] ~(Stale(rev) \/ rec.turn # t) /\ OpenTurn(rec.ts) ->
         Fails(FALSE)
         \cup CASE world.run[t] = "running" -> Answers(FALSE)
                [] world.run[t] = "none" -> Writes(LostTurn(rec), FALSE)
                [] OTHER -> UNION {Writes(r, FALSE) : r \in Exits(world.run[t])}

\* setLifecycle
setLifecycle(rev, from, to) ==
  CASE Stale(rev) -> Refused("conflict")
    [] ~Stale(rev) /\ rec.state = to -> Answers(FALSE)
    [] ~Stale(rev) /\ rec.state # to ->
         IF rec.state # from \/ OpenTurn(rec.ts) THEN Refused("conflict") ELSE Writes(Moved(rec, to), FALSE)

HarnessParkSession(rev) == setLifecycle(rev, "active", "parked")
HarnessCloseSession(rev) == setLifecycle(rev, "parked", "closed")

HarnessMayInterrupt(rev, t) ==
  IF Stale(rev) \/ rec.turn # t \/ rec.ts # "active" THEN Refused("conflict")
  ELSE Answers(FALSE) \cup Fails(FALSE)

\* Confirmed only by an exit record with another code than zero.
HarnessInterrupted ==
  {Outcome(<<>>, "unconfirmed", FALSE, FALSE)}
  \cup (IF world.run[rec.turn] \in {"stopped", "failed"}
        THEN {Outcome(<<Turned(rec, "interrupted")>>, "confirmed", FALSE, FALSE)} ELSE {})
=============================================================================
