---------------------------- MODULE CodexSession ----------------------------
(***************************************************************************)
(* The Codex driver.  A session is a thread of an app-server; the driver   *)
(* keeps one connection per session, forgets it in a crash and finds the   *)
(* fate of a turn by reading the thread again.                             *)
(***************************************************************************)
EXTENDS AgentSession

\* The agent's word for a turn, in the terms of the driver.
mapAppTurn(run) ==
  CASE run = "running" -> "active" [] run = "answered" -> "responded"
    [] run = "failed" -> "failed" [] run = "stopped" -> "interrupted"

\* thread/read finds the turn by its external identity or, when only the
\* intent was stored, by the identity the driver gave the message.  A record
\* that is not active is never written with an open turn.
ReadTurn(r) ==
  LET run == world.run[r.turn]
      ts == mapAppTurn(run)
  IN Fails(TRUE)
     \cup {Outcome(<<>>, "ok", TRUE, TRUE)}       \* a transient error changes nothing
     \cup CASE run = "none" /\ r.ts = "dispatching" -> Writes(LostTurn(r), TRUE)
            [] run = "none" /\ r.ts # "dispatching" -> {Outcome(<<>>, "lost", TRUE, FALSE)}
            [] run # "none" /\ r.known /\ r.ts = ts -> Answers(TRUE)
            [] run # "none" /\ ~(r.known /\ r.ts = ts) ->
                 IF r.state # "active" /\ OpenTurn(ts) THEN {Outcome(<<>>, "error", TRUE, FALSE)}
                 ELSE Writes(Identified(r, ts), TRUE)

\* reconcileTurn(r): a missing thread is a result, any other failure an error.
reconcileTurn(r, connected) ==
  IF r.turn = Nothing THEN Answers(connected)
  ELSE IF connected THEN ReadTurn(r)
  ELSE IF world.gone THEN Writes(LostTurn(r), FALSE)
  ELSE Fails(FALSE) \cup ReadTurn(r)

\* Mutant of Stale: a handle of any revision will do.
NeverStale(rev) == FALSE

\* requireCurrent
Stale(rev) == rec.rev # rev

CodexStartSession ==
  Fails(FALSE) \cup Writes(NewRecord, TRUE)

\* A parked session becomes active before its last turn is looked up again.
CodexResumeSession(rev) ==
  LET Activates ==
        Follow(rec, IF rec.state = "parked" THEN Writes(Moved(rec, "active"), TRUE) ELSE Answers(TRUE), reconcileTurn)
  IN CASE Stale(rev) \/ rec.state = "closed" -> Refused("conflict")
       [] ~Stale(rev) /\ rec.state = "lost" -> Refused("lost")
       [] OTHER ->
            IF client THEN Activates
            ELSE IF world.gone THEN {Outcome(<<Moved(rec, "lost")>>, "lost", FALSE, FALSE)}
            ELSE Fails(FALSE) \cup Activates

\* recoverStartedTurn: the turn was started before; its handle is made anew.
recoverStartedTurn ==
  IF client THEN reconcileTurn(rec, TRUE)
  ELSE IF world.gone THEN {Outcome(<<>>, "error", FALSE, FALSE)}
  ELSE Fails(FALSE) \cup reconcileTurn(rec, TRUE)

\* A turn known by its identity is recovered, even over a stale handle.
CodexRecovers(rev, t) == rec.turn = t /\ (Stale(rev) \/ rec.state = "active")

\* The intent of a turn: stored before the agent is asked.
CodexIntends(rev, t) ==
  IF /\ ~Stale(rev) /\ rec.state = "active" /\ rec.turn # t
     /\ ~OpenTurn(rec.ts) /\ t \notin rec.used /\ client
  THEN Writes(Intended(rec, t), TRUE) ELSE Refused("conflict")

\* reconcileStartError: turn/start failed, so the agent may have the turn or not.
reconcileStartError ==
  {IF o.says = "ok" /\ After(rec, o).ts = "lost" THEN [o EXCEPT !.says = "lost"] ELSE o :
     o \in reconcileTurn(rec, FALSE)}

CodexObserveTurn(rev, t) ==
  IF Stale(rev) \/ rec.turn # t THEN Refused("conflict") ELSE reconcileTurn(rec, client)

\* Parking and closing first look an open turn up again.
SettledThen(to) ==
  LET Then(r, connected) ==
        IF OpenTurn(r.ts) THEN {Outcome(<<>>, "conflict", connected, FALSE)} ELSE Writes(Moved(r, to), FALSE)
  IN IF OpenTurn(rec.ts) THEN Follow(rec, reconcileTurn(rec, client), Then) ELSE Then(rec, client)

CodexParkSession(rev) ==
  CASE Stale(rev) -> Refused("conflict")
    [] ~Stale(rev) /\ rec.state = "parked" -> Answers(client)
    [] ~Stale(rev) /\ rec.state \in {"lost", "closed"} -> Refused("conflict")
    [] ~Stale(rev) /\ rec.state = "active" -> SettledThen("parked")

CodexCloseSession(rev) ==
  CASE Stale(rev) -> Refused("conflict")
    [] ~Stale(rev) /\ rec.state = "closed" -> Answers(client)
    [] ~Stale(rev) /\ rec.state # "closed" -> SettledThen("closed")

\* CancelTurn up to turn/interrupt, which only an active turn gets.
CodexMayInterrupt(rev, t) ==
  LET Check(r, connected) ==
        IF r.ts # "active" THEN {Outcome(<<>>, "conflict", connected, FALSE)}
        ELSE Answers(connected) \cup Fails(connected)
  IN IF Stale(rev) \/ rec.turn # t THEN Refused("conflict")
     ELSE Follow(rec, reconcileTurn(rec, client), Check)

\* Mutant of CodexInterrupted: any end of the turn confirms the cancellation.
CodexEnded ==
  {IF o.says = "ok" THEN [o EXCEPT !.says = "confirmed"] ELSE o :
     o \in {x \in reconcileTurn(rec, client) : x.says = "ok" => ~OpenTurn(After(rec, x).ts)}}

\* After it the driver reads the thread until the turn has ended.
CodexInterrupted ==
  {CASE o.says # "ok" -> o
     [] o.says = "ok" /\ After(rec, o).ts = "interrupted" -> [o EXCEPT !.says = "confirmed"]
     [] o.says = "ok" /\ After(rec, o).ts # "interrupted" -> [o EXCEPT !.says = "unconfirmed"] :
     o \in {x \in reconcileTurn(rec, client) : x.says = "ok" => ~OpenTurn(After(rec, x).ts)}}
=============================================================================
