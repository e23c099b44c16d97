----------------------- MODULE SessionProtocol_proofs -----------------------
(***************************************************************************)
(* Proofs about the session of a participant, for every number of turns,   *)
(* crashes and failing calls and for both drivers: no turn is given to the *)
(* agent twice, the session is quiet when the driver says so, and what the *)
(* Team says of a turn is what the agent did.                              *)
(***************************************************************************)
EXTENDS SessionProtocol, SequenceTheorems, TLAPS

-----------------------------------------------------------------------------
(***************************************************************************)
(* The inductive invariant.                                                *)
(***************************************************************************)

OpenAtTeam(t) == team.turn[t] \in {"prepared", "dispatching", "active", "cancelling"}
Running(t) == world.run[t] = "running"

\* What a record says of its turn is what the agent did.
Truthful(r) ==
  /\ r.ts = "responded" => world.run[r.turn] = "answered"
  /\ r.ts = "failed" => world.run[r.turn] \in {"failed", "stopped"}
  /\ r.ts = "interrupted" => world.run[r.turn] \in {"failed", "stopped"}

\* Only the turn of the record may run, and only while the record is open or
\* given up.
Covers(r) ==
  \A t \in Turn : Running(t) => r.turn = t /\ (r.state = "lost" \/ (r.state = "active" /\ OpenTurn(r.ts)))

Shaped(r) ==
  /\ r \in sessionRecord
  /\ r.turn = Nothing <=> r.ts = "none"
  /\ r.turn # Nothing => r.turn \in r.used
  /\ r.state = "none" => r.used = {}
  /\ r.state # "none" => r.rev > 0

\* A record the driver may act upon.
Sound(r) == Shaped(r) /\ Truthful(r) /\ Covers(r)

\* The harness driver took a launch for failed that perhaps was none.  Nobody
\* holds a handle of this revision, so the record is never acted upon again.
Abandoned ==
  /\ Shaped(rec) /\ kind = "harness" /\ rec.ts = "failed" /\ rec.state = "active"
  /\ \A t \in Turn : Running(t) => rec.turn = t
  /\ team.rev < rec.rev /\ \A t \in Turn : team.env[t] < rec.rev
  /\ call.at \in {"idle", "opened", "start", "lose"}

\* The Team's turns and the turns the driver ever took.
TurnsOK ==
  /\ \A t, u \in Turn : OpenAtTeam(t) /\ OpenAtTeam(u) => t = u
  /\ \A t \in Turn : team.turn[t] \in {"none", "prepared"} => t \notin rec.used
  /\ \A t \in Turn : OpenAtTeam(t) /\ t \in rec.used => rec.turn = t
  /\ \A t \in Turn : t \notin rec.used => world.run[t] = "none"

\* The handles the Team keeps.  A handle that is current and usable belongs
\* to a turn that is open at the Team or does not run; a turn that was taken
\* but has no envelope yet leaves the participant's handle behind.
HandlesOK ==
  /\ team.rev <= rec.rev /\ \A t \in Turn : team.env[t] <= rec.rev
  /\ team.state = "none" =>
       team.rev = 0 /\ rec.used = {} /\ \A t \in Turn : team.env[t] = 0
  /\ team.state \in {"active", "parked"} /\ team.rev = rec.rev =>
       \A t \in Turn : Running(t) => OpenAtTeam(t)
  /\ \A t \in Turn : rec.turn = t /\ team.turn[t] = "dispatching" /\ team.env[t] = 0 =>
       team.state = "active" /\ team.rev < rec.rev

\* The place of the call in progress and what holds there.
InCall(places) == call.at \in places

CallOK ==
  LET t == call.turn
  IN /\ InCall({"idle"}) => call = Idle
     /\ ~InCall({"idle", "close"}) => t \in Turn
     /\ InCall({"store", "opened"}) => team.turn[t] \in {"prepared", "dispatching"}
     /\ InCall({"start", "launch", "launched", "unsure", "started"}) => team.turn[t] = "dispatching"
     /\ InCall({"store", "opened", "start", "launch", "launched", "unsure", "started"}) => team.env[t] = 0
     /\ InCall({"opened", "start", "launch", "launched", "unsure", "started"}) => team.state = "active"
     /\ InCall({"store"}) => team.state \in {"none", "parked"} /\ \A u \in Turn : ~Running(u)
     /\ InCall({"opened", "start"}) => call.rev = team.rev
     /\ ~InCall({"idle", "opened", "start", "lose"}) => call.rev = rec.rev /\ Sound(rec)
     /\ ~InCall({"idle", "store", "opened", "start", "lose", "close"}) => rec.turn = t
     /\ InCall({"launch", "launched", "unsure"}) => rec.ts = "dispatching" /\ rec.state = "active"
     /\ InCall({"launch"}) => world.run[t] = "none"
     /\ InCall({"launched"}) => world.run[t] # "none"
     /\ InCall({"settle"}) => call.ts = rec.ts
     /\ InCall({"settle", "lose"}) =>
          team.env[t] # 0 /\ team.turn[t] \in {"dispatching", "active", "cancelling"}
     /\ InCall({"park", "parking"}) => team.env[t] # 0 \/ team.turn[t] # "dispatching"
     /\ InCall({"park"}) => rec.ts \in {"responded", "interrupted", "failed"}
     /\ InCall({"parking", "kept"}) => rec.state = "parked"
     /\ InCall({"cancel", "interrupting", "keep", "kept"}) => team.turn[t] = "cancelling"
     /\ InCall({"keep", "kept"}) => rec.ts = "interrupted"
     /\ InCall({"close"}) => team.closing /\ \A u \in Turn : ~OpenAtTeam(u)

SessionInv ==
  /\ TypeOK /\ Shaped(rec) /\ (Sound(rec) \/ Abandoned)
  /\ TurnsOK /\ HandlesOK /\ CallOK
  /\ StartedOnce /\ OutcomeIsTrue

-----------------------------------------------------------------------------
(***************************************************************************)
(* The outcomes of the drivers' calls.                                     *)
(***************************************************************************)

\* s is r with the same turn and more to say about it.
Continues(r, s) == Sound(s) /\ s.rev > r.rev /\ s.turn = r.turn /\ s.used = r.used

\* Every record the outcome writes continues r.
Extends(r, o) ==
  /\ o.writes \in Seq(sessionRecord) /\ o.client \in BOOLEAN /\ o.fault \in BOOLEAN
  /\ \A i \in 1..Len(o.writes) : Continues(r, o.writes[i])

\* An outcome that writes nothing.
LEMMA NothingWritten ==
  ASSUME NEW r, NEW says, NEW connected \in BOOLEAN, NEW fault \in BOOLEAN,
         NEW o, o = Outcome(<<>>, says, connected, fault)
  PROVE  Extends(r, o) /\ After(r, o) = r /\ o.says = says /\ o.writes = <<>>
  BY DEF Outcome, Extends, After

\* An outcome that writes one record.
LEMMA OneWritten ==
  ASSUME NEW r, NEW s, Continues(r, s), NEW says, NEW connected \in BOOLEAN, NEW fault \in BOOLEAN,
         NEW o, o = Outcome(<<s>>, says, connected, fault)
  PROVE  Extends(r, o) /\ After(r, o) = s /\ o.says = says
<1>1. s \in sessionRecord
  BY DEF Continues, Sound, Shaped
<1>2. o.writes = <<s>> /\ o.client = connected /\ o.fault = fault /\ o.says = says
  BY DEF Outcome
<1>3. Len(o.writes) = 1 /\ o.writes[1] = s /\ o.writes \in Seq(sessionRecord) /\ o.writes # <<>>
  <2>1. Len(<<s>>) = 1 /\ <<s>>[1] = s /\ <<s>> # <<>>
    OBVIOUS
  <2>2. <<s>> \in Seq(sessionRecord)
    BY <1>1
  <2> QED BY <1>2, <2>1, <2>2
<1> QED BY <1>2, <1>3 DEF Extends, After

\* A record continues one that an earlier one continues.
LEMMA ContinuesOn ==
  ASSUME NEW r, NEW s, NEW x, r.rev \in Nat, Continues(r, s), Continues(s, x)
  PROVE  Continues(r, x)
<1>1. s.rev \in Nat /\ x.rev \in Nat
  BY DEF Continues, Sound, Shaped, sessionRecord
<1> QED BY <1>1 DEF Continues

\* The last record an outcome writes.
LEMMA AfterExtends ==
  ASSUME NEW r, NEW o, Extends(r, o)
  PROVE  After(r, o) = r \/ Continues(r, After(r, o))
<1>1. CASE o.writes = <<>>
  BY <1>1 DEF After
<1>2. CASE o.writes # <<>>
  <2>1. Len(o.writes) \in 1..Len(o.writes)
    BY <1>2 DEF Extends
  <2> QED BY <1>2, <2>1 DEF After, Extends
<1> QED BY <1>1, <1>2

\* A call of two parts extends the record when both do.
LEMMA TwoParts ==
  ASSUME NEW r, Sound(r), NEW o, Extends(r, o), NEW n, Extends(After(r, o), n),
         NEW x, x = Outcome(o.writes \o n.writes, n.says, n.client, o.fault \/ n.fault)
  PROVE  /\ Extends(r, x) /\ x.says = n.says
         /\ After(r, x) = After(After(r, o), n)
<1> DEFINE v == o.writes  w == n.writes
<1>1. v \in Seq(sessionRecord) /\ w \in Seq(sessionRecord)
  BY DEF Extends
<1>2. x.writes = v \o w /\ x.says = n.says /\ x.client = n.client /\ x.fault = (o.fault \/ n.fault)
  BY DEF Outcome
<1>3. v \o w \in Seq(sessionRecord) /\ Len(v \o w) = Len(v) + Len(w) /\ Len(v) \in Nat /\ Len(w) \in Nat
  BY <1>1
<1> HIDE DEF v, w
<1>4. ASSUME NEW i \in 1..Len(v \o w) PROVE Continues(r, (v \o w)[i])
  <2>1. CASE i <= Len(v)
    <3>1. (v \o w)[i] = v[i] /\ i \in 1..Len(v)
      BY <1>1, <1>3, <2>1
    <3> QED BY <3>1 DEF Extends, v
  <2>2. CASE i > Len(v)
    <3>1. (v \o w)[i] = w[i - Len(v)] /\ i - Len(v) \in 1..Len(w)
      <4>1. i - Len(v) \in 1..Len(w)
        BY <1>3, <2>2
      <4> QED BY <1>1, <1>3, <2>2, <4>1, ConcatProperties
    <3>2. Continues(After(r, o), (v \o w)[i])
      BY <3>1 DEF Extends, w
    <3>3. r.rev \in Nat
      BY DEF Sound, Shaped, sessionRecord
    <3> QED BY <3>2, <3>3, AfterExtends, ContinuesOn
  <2> QED BY <1>3, <2>1, <2>2
<1>5. After(r, x) = After(After(r, o), n)
  <2>1. CASE w = <<>>
    <3>1. v \o w = v
      BY <1>1, <2>1
    <3> QED BY <1>2, <2>1, <3>1 DEF After, v, w
  <2>2. CASE w # <<>>
    <3>1. (v \o w) # <<>> /\ (v \o w)[Len(v \o w)] = w[Len(w)]
      <4>1. Len(w) > 0
        BY <1>1, <2>2
      <4> QED BY <1>1, <1>3, <4>1, ConcatProperties
    <3> QED BY <1>2, <2>2, <3>1 DEF After, w
  <2> QED BY <2>1, <2>2
<1>6. x.client \in BOOLEAN /\ x.fault \in BOOLEAN
  BY <1>2 DEF Extends
<1>7. Extends(r, x)
  BY <1>2, <1>3, <1>4, <1>6 DEF Extends
<1> QED BY <1>2, <1>5, <1>7

\* The fields of a record after each kind of change.
LEMMA TurnedFields ==
  ASSUME NEW r \in sessionRecord, NEW ts \in DriverTurnStates, NEW s, s = Turned(r, ts)
  PROVE  /\ s \in sessionRecord /\ s.rev = r.rev + 1 /\ s.state = r.state
         /\ s.turn = r.turn /\ s.ts = ts /\ s.used = r.used
<1>1. s = [r EXCEPT !.rev = r.rev + 1, !.ts = ts]
  BY DEF Turned, Bump, sessionRecord
<1>2. r.rev + 1 \in Nat
  BY DEF sessionRecord
<1>3. s \in sessionRecord
  BY <1>1, <1>2, Zenon DEF sessionRecord
<1> QED BY <1>1, <1>3 DEF sessionRecord

LEMMA MovedFields ==
  ASSUME NEW r \in sessionRecord, NEW state \in SessionStates,
         NEW s, s = Moved(r, state)
  PROVE  /\ s \in sessionRecord /\ s.rev = r.rev + 1 /\ s.state = state
         /\ s.turn = r.turn /\ s.ts = r.ts /\ s.used = r.used
<1>1. s = [r EXCEPT !.rev = r.rev + 1, !.state = state]
  BY DEF Moved, Bump, sessionRecord
<1>2. r.rev + 1 \in Nat
  BY DEF sessionRecord
<1>3. s \in sessionRecord
  BY <1>1, <1>2, Zenon DEF sessionRecord
<1> QED BY <1>1, <1>3 DEF sessionRecord

LEMMA LostFields ==
  ASSUME NEW r \in sessionRecord, NEW s, s = LostTurn(r)
  PROVE  /\ s \in sessionRecord /\ s.rev = r.rev + 1 /\ s.state = "lost"
         /\ s.turn = r.turn /\ s.ts = "lost" /\ s.used = r.used
<1>1. s = [r EXCEPT !.rev = r.rev + 1, !.ts = "lost", !.state = "lost"]
  BY DEF LostTurn, Turned, Bump, sessionRecord
<1>2. r.rev + 1 \in Nat
  BY DEF sessionRecord
<1>3. s \in sessionRecord
  BY <1>1, <1>2, Zenon DEF sessionRecord, DriverTurnStates, SessionStates
<1> QED BY <1>1, <1>3 DEF sessionRecord

LEMMA IntendedFields ==
  ASSUME NEW r \in sessionRecord, NEW t \in Turn, NEW s, s = Intended(r, t)
  PROVE  /\ s \in sessionRecord /\ s.rev = r.rev + 1 /\ s.state = r.state
         /\ s.turn = t /\ s.ts = "dispatching" /\ s.used = r.used \cup {t}
<1>1. s = [r EXCEPT !.rev = r.rev + 1, !.ts = "dispatching", !.turn = t, !.known = FALSE, !.used = r.used \cup {t}]
  BY DEF Intended, Turned, Bump, sessionRecord
<1>2. r.rev + 1 \in Nat /\ r.used \cup {t} \in SUBSET Turn
  BY DEF sessionRecord
<1>3. s \in sessionRecord
  BY <1>1, <1>2, Zenon DEF sessionRecord, DriverTurnStates
<1> QED BY <1>1, <1>3 DEF sessionRecord

\* The external identity of the turn is noted with its state.
LEMMA IdentifiedFields ==
  ASSUME NEW r \in sessionRecord, NEW ts \in DriverTurnStates,
         NEW s, s = Identified(r, ts)
  PROVE  /\ s \in sessionRecord /\ s.rev = r.rev + 1 /\ s.state = r.state
         /\ s.turn = r.turn /\ s.ts = ts /\ s.used = r.used
<1>1. s = [r EXCEPT !.rev = r.rev + 1, !.ts = ts, !.known = TRUE]
  BY DEF Identified, Turned, Bump, sessionRecord
<1>2. r.rev + 1 \in Nat
  BY DEF sessionRecord
<1>3. s \in sessionRecord
  BY <1>1, <1>2, Zenon DEF sessionRecord
<1> QED BY <1>1, <1>3 DEF sessionRecord

\* When the new record is as true as the old one.
LEMMA Rewritten ==
  ASSUME NEW r, Sound(r), NEW s \in sessionRecord, s.rev = r.rev + 1, s.turn = r.turn, s.used = r.used,
         s.turn = Nothing <=> s.ts = "none", s.state # "none", Truthful(s), Covers(s)
  PROVE  Continues(r, s)
<1>1. r.rev \in Nat /\ s.rev \in Nat
  BY DEF Sound, Shaped, sessionRecord
<1>2. s.rev > r.rev /\ s.rev > 0
  BY <1>1
<1>3. Shaped(s)
  <2>1. s.turn # Nothing => s.turn \in s.used
    BY DEF Sound, Shaped
  <2> QED BY <1>2, <2>1 DEF Shaped
<1> QED BY <1>2, <1>3 DEF Continues, Sound

\* A turn that was looked up has the state the agent says it has.
LEMMA LookedUp ==
  ASSUME TypeOK, NEW r, Sound(r), r.turn # Nothing, world.run[r.turn] # "none",
         NEW ts, ts = mapAppTurn(world.run[r.turn]), ~(r.state # "active" /\ OpenTurn(ts)),
         NEW s, s = Identified(r, ts)
  PROVE  Continues(r, s)
<1>1. r \in sessionRecord /\ r.turn \in Turn
  BY DEF Sound, Shaped, sessionRecord
<1>2. world.run[r.turn] \in Runs
  BY <1>1 DEF TypeOK, Worlds
<1>3. /\ world.run[r.turn] = "running" => ts = "active"
      /\ world.run[r.turn] = "answered" => ts = "responded"
      /\ world.run[r.turn] = "failed" => ts = "failed"
      /\ world.run[r.turn] = "stopped" => ts = "interrupted"
  BY DEF mapAppTurn
<1>4. world.run[r.turn] \in {"running", "answered", "failed", "stopped"}
  BY <1>2 DEF Runs
<1>5. ts \in DriverTurnStates /\ ts # "none"
  BY <1>3, <1>4 DEF DriverTurnStates
<1>6. /\ s \in sessionRecord /\ s.rev = r.rev + 1 /\ s.state = r.state
      /\ s.turn = r.turn /\ s.ts = ts /\ s.used = r.used
  BY <1>1, <1>5, IdentifiedFields
<1>7. Truthful(s)
  BY <1>3, <1>4, <1>6 DEF Truthful
<1>8. Covers(s)
  BY <1>3, <1>4, <1>6 DEF Covers, Running, Sound, OpenTurn
<1>9. s.state # "none"
  BY <1>6 DEF Sound, Shaped
<1> QED BY <1>5, <1>6, <1>7, <1>8, <1>9, Rewritten

\* A turn is given up with its session.
LEMMA GivenUp ==
  ASSUME NEW r, Sound(r), r.turn # Nothing
  PROVE  Continues(r, LostTurn(r))
<1>1. r \in sessionRecord /\ r.turn \in Turn
  BY DEF Sound, Shaped, sessionRecord
<1> DEFINE s == LostTurn(r)
<1>2. /\ s \in sessionRecord /\ s.rev = r.rev + 1 /\ s.state = "lost"
      /\ s.turn = r.turn /\ s.ts = "lost" /\ s.used = r.used
  BY <1>1, LostFields
<1> HIDE DEF s
<1>3. Truthful(s)
  BY <1>2 DEF Truthful
<1>4. Covers(s)
  BY <1>2 DEF Covers, Sound
<1>5. Continues(r, s)
  BY <1>2, <1>3, <1>4, Rewritten
<1> QED BY <1>5 DEF s

\* thread/read
LEMMA ReadTurnExtends ==
  ASSUME TypeOK, NEW r, Sound(r), r.turn # Nothing, NEW o \in ReadTurn(r)
  PROVE  Extends(r, o)
<1> DEFINE run == world.run[r.turn]  ts == mapAppTurn(run)
<1>1. \/ \E says : \E fault \in BOOLEAN : o = Outcome(<<>>, says, TRUE, fault)
      \/ o = Outcome(<<LostTurn(r)>>, "ok", TRUE, FALSE)
      \/ /\ run # "none" /\ ~(r.state # "active" /\ OpenTurn(ts))
         /\ o = Outcome(<<Identified(r, ts)>>, "ok", TRUE, FALSE)
  BY DEF ReadTurn, Fails, Writes, Answers
<1>2. CASE \E says : \E fault \in BOOLEAN : o = Outcome(<<>>, says, TRUE, fault)
  BY <1>2, NothingWritten
<1>3. CASE o = Outcome(<<LostTurn(r)>>, "ok", TRUE, FALSE)
  <2>1. Continues(r, LostTurn(r))
    BY GivenUp
  <2> QED BY <1>3, <2>1, OneWritten
<1>4. CASE /\ run # "none" /\ ~(r.state # "active" /\ OpenTurn(ts))
           /\ o = Outcome(<<Identified(r, ts)>>, "ok", TRUE, FALSE)
  <2> DEFINE s == Identified(r, ts)
  <2>1. Continues(r, s)
    BY <1>4, LookedUp
  <2>2. o = Outcome(<<s>>, "ok", TRUE, FALSE)
    BY <1>4
  <2> HIDE DEF s
  <2> QED BY <2>1, <2>2, OneWritten
<1> QED BY <1>1, <1>2, <1>3, <1>4

LEMMA ReconcileExtends ==
  ASSUME TypeOK, NEW r, Sound(r), NEW connected \in BOOLEAN, NEW o \in reconcileTurn(r, connected)
  PROVE  Extends(r, o)
<1>1. \/ \E says : \E c \in BOOLEAN : \E fault \in BOOLEAN : o = Outcome(<<>>, says, c, fault)
      \/ r.turn # Nothing /\ o \in ReadTurn(r)
      \/ r.turn # Nothing /\ o = Outcome(<<LostTurn(r)>>, "ok", FALSE, FALSE)
  BY DEF reconcileTurn, Fails, Writes, Answers
<1>2. CASE \E says : \E c \in BOOLEAN : \E fault \in BOOLEAN : o = Outcome(<<>>, says, c, fault)
  BY <1>2, NothingWritten
<1>3. CASE r.turn # Nothing /\ o \in ReadTurn(r)
  BY <1>3, ReadTurnExtends
<1>4. CASE r.turn # Nothing /\ o = Outcome(<<LostTurn(r)>>, "ok", FALSE, FALSE)
  <2>1. Continues(r, LostTurn(r))
    BY <1>4, GivenUp
  <2> QED BY <1>4, <2>1, OneWritten
<1> QED BY <1>1, <1>2, <1>3, <1>4

\* A session changes its state; only a session that is given up may do so
\* while a turn runs.
LEMMA MoveContinues ==
  ASSUME NEW r, Sound(r), NEW state \in {"active", "parked", "lost", "closed"},
         state = "lost" \/ \A t \in Turn : ~Running(t)
  PROVE  Continues(r, Moved(r, state))
<1> DEFINE s == Moved(r, state)
<1>1. r \in sessionRecord
  BY DEF Sound, Shaped
<1>2. /\ s \in sessionRecord /\ s.rev = r.rev + 1 /\ s.state = state
      /\ s.turn = r.turn /\ s.ts = r.ts /\ s.used = r.used
  BY <1>1, MovedFields DEF SessionStates
<1> HIDE DEF s
<1>3. Truthful(s)
  BY <1>2 DEF Truthful, Sound
<1>4. Covers(s)
  BY <1>2 DEF Covers, Sound
<1>5. s.turn = Nothing <=> s.ts = "none"
  BY <1>2 DEF Sound, Shaped
<1>6. Continues(r, s)
  BY <1>2, <1>3, <1>4, <1>5, Rewritten
<1> QED BY <1>6 DEF s

\* An outcome with another answer writes the same.
LEMMA OtherAnswer ==
  ASSUME NEW r, NEW o, Extends(r, o), NEW says, NEW connected, NEW fault, NEW writes,
         o = Outcome(writes, says, connected, fault), NEW answer, NEW x, x = [o EXCEPT !.says = answer]
  PROVE  Extends(r, x) /\ After(r, x) = After(r, o) /\ x.says = answer
<1>1. x = Outcome(writes, answer, connected, fault)
  BY DEF Outcome
<1>2. /\ x.writes = writes /\ x.client = connected /\ x.fault = fault /\ x.says = answer
      /\ o.writes = writes /\ o.client = connected /\ o.fault = fault
  BY <1>1, Zenon DEF Outcome
<1> QED BY <1>2 DEF Extends, After

\* Nothing but outcomes.
LEMMA ReconcileOutcomes ==
  ASSUME NEW r, NEW connected \in BOOLEAN, NEW o \in reconcileTurn(r, connected)
  PROVE  \E writes, says, c, fault : o = Outcome(writes, says, c, fault)
  BY DEF reconcileTurn, ReadTurn, Fails, Writes, Answers

-----------------------------------------------------------------------------
\* The calls of the Codex driver.
LEMMA CodexResumeExtends ==
  ASSUME TypeOK, Sound(rec), NEW rev, NEW o \in CodexResumeSession(rev)
  PROVE  Extends(rec, o)
<1> DEFINE first == IF rec.state = "parked" THEN Writes(Moved(rec, "active"), TRUE) ELSE Answers(TRUE)
<1>0. client \in BOOLEAN
  BY DEF TypeOK
<1>1. \/ \E says : \E c \in BOOLEAN : \E fault \in BOOLEAN : o = Outcome(<<>>, says, c, fault)
      \/ o = Outcome(<<Moved(rec, "lost")>>, "lost", FALSE, FALSE)
      \/ o \in Follow(rec, first, reconcileTurn)
  BY <1>0 DEF CodexResumeSession, Refused, Fails
<1>5. ASSUME NEW p \in first
      PROVE  \/ p = Outcome(<<>>, "ok", TRUE, FALSE)
             \/ rec.state = "parked" /\ p = Outcome(<<Moved(rec, "active")>>, "ok", TRUE, FALSE)
  BY <1>5 DEF Writes, Answers
<1> HIDE DEF first
<1>2. CASE \E says : \E c \in BOOLEAN : \E fault \in BOOLEAN : o = Outcome(<<>>, says, c, fault)
  BY <1>2, NothingWritten
<1>3. CASE o = Outcome(<<Moved(rec, "lost")>>, "lost", FALSE, FALSE)
  <2>1. Continues(rec, Moved(rec, "lost"))
    BY MoveContinues
  <2> QED BY <1>3, <2>1, OneWritten
<1>4. CASE o \in Follow(rec, first, reconcileTurn)
  <2>1. PICK p \in first :
          \/ o = p
          \/ \E n \in reconcileTurn(After(rec, p), p.client) :
               o = Outcome(p.writes \o n.writes, n.says, n.client, p.fault \/ n.fault)
    BY <1>4 DEF Follow
  <2>2. Extends(rec, p) /\ Sound(After(rec, p)) /\ p.client \in BOOLEAN
    <3>1. CASE p = Outcome(<<>>, "ok", TRUE, FALSE)
      <4>1. Extends(rec, p) /\ After(rec, p) = rec
        BY <3>1, NothingWritten
      <4> QED BY <4>1 DEF Extends
    <3>2. CASE rec.state = "parked" /\ p = Outcome(<<Moved(rec, "active")>>, "ok", TRUE, FALSE)
      <4>1. Continues(rec, Moved(rec, "active"))
        BY <3>2, MoveContinues DEF Sound, Covers
      <4>2. Extends(rec, p) /\ After(rec, p) = Moved(rec, "active")
        <5> DEFINE m == Moved(rec, "active")
        <5>1. p = Outcome(<<m>>, "ok", TRUE, FALSE) /\ Continues(rec, m)
          BY <3>2, <4>1
        <5> HIDE DEF m
        <5>2. Extends(rec, p)
          BY <5>1, OneWritten
        <5>3. After(rec, p) = m
          BY <5>1 DEF After, Outcome
        <5> QED BY <5>2, <5>3 DEF m
      <4> QED BY <4>1, <4>2 DEF Continues, Extends
    <3> QED BY <1>5, <3>1, <3>2
  <2>3. ASSUME NEW n \in reconcileTurn(After(rec, p), p.client),
               o = Outcome(p.writes \o n.writes, n.says, n.client, p.fault \/ n.fault)
        PROVE  Extends(rec, o)
    <3>1. Extends(After(rec, p), n)
      BY <2>2, ReconcileExtends
    <3> QED BY <2>2, <2>3, <3>1, TwoParts
  <2> QED BY <2>1, <2>2, <2>3
<1> QED BY <1>1, <1>2, <1>3, <1>4

LEMMA RecoverExtends ==
  ASSUME TypeOK, Sound(rec), NEW o \in recoverStartedTurn
  PROVE  Extends(rec, o)
<1>1. \/ \E says : \E c \in BOOLEAN : \E fault \in BOOLEAN : o = Outcome(<<>>, says, c, fault)
      \/ o \in reconcileTurn(rec, TRUE)
  BY DEF recoverStartedTurn, Fails
<1>2. CASE \E says : \E c \in BOOLEAN : \E fault \in BOOLEAN : o = Outcome(<<>>, says, c, fault)
  BY <1>2, NothingWritten
<1>3. CASE o \in reconcileTurn(rec, TRUE)
  BY <1>3, ReconcileExtends
<1> QED BY <1>1, <1>2, <1>3

LEMMA UnsureExtends ==
  ASSUME TypeOK, Sound(rec), NEW o \in reconcileStartError
  PROVE  Extends(rec, o)
<1>1. PICK p \in reconcileTurn(rec, FALSE) : o = p \/ o = [p EXCEPT !.says = "lost"]
  BY DEF reconcileStartError
<1>2. Extends(rec, p)
  BY ReconcileExtends
<1>3. PICK writes, says, c, fault : p = Outcome(writes, says, c, fault)
  BY ReconcileOutcomes
<1>4. CASE o = [p EXCEPT !.says = "lost"]
  BY <1>2, <1>3, <1>4, OtherAnswer
<1> QED BY <1>1, <1>2, <1>4

LEMMA CodexObserveExtends ==
  ASSUME TypeOK, Sound(rec), NEW rev, NEW t \in Turn, NEW o \in CodexObserveTurn(rev, t)
  PROVE  Extends(rec, o) /\ (o.says = "ok" => rec.rev = rev /\ rec.turn = t)
<1>0. client \in BOOLEAN
  BY DEF TypeOK
<1>1. \/ o = Outcome(<<>>, "conflict", client, FALSE)
      \/ rec.rev = rev /\ rec.turn = t /\ o \in reconcileTurn(rec, client)
  BY DEF CodexObserveTurn, Refused, Stale
<1>2. CASE o = Outcome(<<>>, "conflict", client, FALSE)
  <2>1. Extends(rec, o) /\ o.says = "conflict"
    BY <1>0, <1>2, NothingWritten
  <2> QED BY <2>1
<1>3. CASE rec.rev = rev /\ rec.turn = t /\ o \in reconcileTurn(rec, client)
  BY <1>0, <1>3, ReconcileExtends
<1> QED BY <1>1, <1>2, <1>3

LEMMA CodexInterruptedExtends ==
  ASSUME TypeOK, Sound(rec), NEW o \in CodexInterrupted
  PROVE  Extends(rec, o) /\ (o.says = "confirmed" => After(rec, o).ts = "interrupted")
<1>0. client \in BOOLEAN
  BY DEF TypeOK
<1>1. PICK p \in reconcileTurn(rec, client) :
        \/ p.says # "ok" /\ o = p
        \/ p.says = "ok" /\ After(rec, p).ts = "interrupted" /\ o = [p EXCEPT !.says = "confirmed"]
        \/ p.says = "ok" /\ o = [p EXCEPT !.says = "unconfirmed"]
  BY DEF CodexInterrupted
<1>2. Extends(rec, p)
  BY <1>0, ReconcileExtends
<1>3. p.says # "confirmed"
  BY <1>0 DEF reconcileTurn, ReadTurn, Fails, Writes, Answers, Outcome
<1>4. \E writes, says, c, fault : p = Outcome(writes, says, c, fault)
  BY <1>0, ReconcileOutcomes
<1> QED BY <1>1, <1>2, <1>3, <1>4, OtherAnswer

\* Parking is asked for when the turn of the record is over.
LEMMA CodexParkExtends ==
  ASSUME TypeOK, Sound(rec), ~OpenTurn(rec.ts), rec.state # "none",
         NEW rev, NEW o \in CodexParkSession(rev)
  PROVE  /\ Extends(rec, o)
         /\ o.says = "ok" => After(rec, o).state = "parked" /\ After(rec, o).ts = rec.ts
<1>0. client \in BOOLEAN /\ rec \in sessionRecord
  BY DEF TypeOK
<1>1. \/ o = Outcome(<<>>, "conflict", client, FALSE)
      \/ rec.state = "parked" /\ o = Outcome(<<>>, "ok", client, FALSE)
      \/ rec.state = "active" /\ o = Outcome(<<Moved(rec, "parked")>>, "ok", FALSE, FALSE)
  <2>1. rec.state \in {"active", "parked", "lost", "closed"}
    BY <1>0 DEF sessionRecord, SessionStates
  <2> QED BY <2>1 DEF CodexParkSession, SettledThen, Refused, Answers, Writes
<1>2. CASE o = Outcome(<<>>, "conflict", client, FALSE)
  <2>1. Extends(rec, o) /\ o.says = "conflict"
    BY <1>0, <1>2, NothingWritten
  <2> QED BY <2>1
<1>3. CASE rec.state = "parked" /\ o = Outcome(<<>>, "ok", client, FALSE)
  <2>1. Extends(rec, o)
    BY <1>0, <1>3, NothingWritten
  <2>2. After(rec, o) = rec
    BY <1>3 DEF After, Outcome
  <2> QED BY <1>3, <2>1, <2>2
<1>4. CASE rec.state = "active" /\ o = Outcome(<<Moved(rec, "parked")>>, "ok", FALSE, FALSE)
  <2> DEFINE m == Moved(rec, "parked")
  <2>1. m.state = "parked" /\ m.ts = rec.ts
    BY <1>0, MovedFields DEF SessionStates
  <2>2. Continues(rec, m)
    BY <1>4, MoveContinues DEF Sound, Covers
  <2>3. o = Outcome(<<m>>, "ok", FALSE, FALSE)
    BY <1>4
  <2> HIDE DEF m
  <2>4. Extends(rec, o)
    BY <2>2, <2>3, OneWritten
  <2>5. After(rec, o) = m
    BY <2>3 DEF After, Outcome
  <2> QED BY <2>1, <2>4, <2>5
<1> QED BY <1>1, <1>2, <1>3, <1>4

\* A session whose turn does not run may be closed.
LEMMA CodexCloseExtends ==
  ASSUME TypeOK, Sound(rec), NEW rev, NEW o \in CodexCloseSession(rev),
         rec.rev = rev => \A t \in Turn : ~Running(t)
  PROVE  Extends(rec, o)
<1> DEFINE Then(r, connected) ==
             IF OpenTurn(r.ts) THEN {Outcome(<<>>, "conflict", connected, FALSE)}
             ELSE {Outcome(<<Moved(r, "closed")>>, "ok", FALSE, FALSE)}
<1>0. client \in BOOLEAN
  BY DEF TypeOK
<1>1. ASSUME NEW r, Sound(r), NEW connected \in BOOLEAN, NEW n \in Then(r, connected), rec.rev = rev
      PROVE  Extends(r, n)
  <2>1. CASE n = Outcome(<<>>, "conflict", connected, FALSE)
    BY <1>1, <2>1, NothingWritten
  <2>2. CASE n = Outcome(<<Moved(r, "closed")>>, "ok", FALSE, FALSE)
    <3> DEFINE m == Moved(r, "closed")
    <3>1. Continues(r, m)
      BY <1>1, MoveContinues
    <3>2. n = Outcome(<<m>>, "ok", FALSE, FALSE)
      BY <2>2
    <3> HIDE DEF m, Then
    <3> QED BY <3>1, <3>2, OneWritten
  <2> QED BY <1>1, <2>1, <2>2
<1>2. \/ \E says : \E c \in BOOLEAN : o = Outcome(<<>>, says, c, FALSE)
      \/ rec.rev = rev /\ o \in Then(rec, client)
      \/ rec.rev = rev /\ o \in Follow(rec, reconcileTurn(rec, client), Then)
  BY <1>0 DEF CodexCloseSession, SettledThen, Refused, Answers, Writes, Stale
<1> HIDE DEF Then
<1>3. CASE \E says : \E c \in BOOLEAN : o = Outcome(<<>>, says, c, FALSE)
  BY <1>3, NothingWritten
<1>4. CASE rec.rev = rev /\ o \in Then(rec, client)
  BY <1>0, <1>1, <1>4
<1>5. CASE rec.rev = rev /\ o \in Follow(rec, reconcileTurn(rec, client), Then)
  <2>1. PICK p \in reconcileTurn(rec, client) :
          \/ o = p
          \/ \E n \in Then(After(rec, p), p.client) :
               o = Outcome(p.writes \o n.writes, n.says, n.client, p.fault \/ n.fault)
    BY <1>5 DEF Follow
  <2>2. Extends(rec, p) /\ p.client \in BOOLEAN
    BY <1>0, ReconcileExtends DEF Extends
  <2>3. Sound(After(rec, p))
    BY <2>2, AfterExtends DEF Continues
  <2>4. ASSUME NEW n \in Then(After(rec, p), p.client),
               o = Outcome(p.writes \o n.writes, n.says, n.client, p.fault \/ n.fault)
        PROVE  Extends(rec, o)
    <3>1. Extends(After(rec, p), n)
      BY <1>1, <1>5, <2>2, <2>3
    <3> QED BY <2>2, <2>4, <3>1, TwoParts
  <2> QED BY <2>1, <2>2, <2>4
<1> QED BY <1>2, <1>3, <1>4, <1>5

LEMMA CodexMayInterruptExtends ==
  ASSUME TypeOK, Sound(rec), NEW rev, NEW t \in Turn, NEW o \in CodexMayInterrupt(rev, t)
  PROVE  Extends(rec, o)
<1> DEFINE Check(r, connected) ==
             IF r.ts # "active" THEN {Outcome(<<>>, "conflict", connected, FALSE)}
             ELSE Answers(connected) \cup Fails(connected)
<1>0. client \in BOOLEAN
  BY DEF TypeOK
<1>1. ASSUME NEW r, NEW connected \in BOOLEAN, NEW n \in Check(r, connected)
      PROVE  Extends(r, n)
  <2>1. \E says : \E fault \in BOOLEAN : n = Outcome(<<>>, says, connected, fault)
    BY <1>1 DEF Answers, Fails
  <2> QED BY <2>1, NothingWritten
<1>2. \/ o = Outcome(<<>>, "conflict", client, FALSE)
      \/ o \in Follow(rec, reconcileTurn(rec, client), Check)
  BY DEF CodexMayInterrupt, Refused
<1> HIDE DEF Check
<1>3. CASE o = Outcome(<<>>, "conflict", client, FALSE)
  BY <1>0, <1>3, NothingWritten
<1>4. CASE o \in Follow(rec, reconcileTurn(rec, client), Check)
  <2>1. PICK p \in reconcileTurn(rec, client) :
          \/ o = p
          \/ \E n \in Check(After(rec, p), p.client) :
               o = Outcome(p.writes \o n.writes, n.says, n.client, p.fault \/ n.fault)
    BY <1>4 DEF Follow
  <2>2. Extends(rec, p) /\ p.client \in BOOLEAN
    BY <1>0, ReconcileExtends DEF Extends
  <2>3. ASSUME NEW n \in Check(After(rec, p), p.client),
               o = Outcome(p.writes \o n.writes, n.says, n.client, p.fault \/ n.fault)
        PROVE  Extends(rec, o)
    <3>1. Extends(After(rec, p), n)
      BY <1>1, <2>2
    <3> QED BY <2>2, <2>3, <3>1, TwoParts
  <2> QED BY <2>1, <2>2, <2>3
<1> QED BY <1>2, <1>3, <1>4

-----------------------------------------------------------------------------
\* The calls of the harness driver.
LEMMA HarnessResumeExtends ==
  ASSUME TypeOK, Sound(rec), NEW rev, NEW o \in HarnessResumeSession(rev)
  PROVE  Extends(rec, o) /\ (o.says = "ok" => rec.rev = rev)
<1>0. client \in BOOLEAN
  BY DEF TypeOK
<1>1. \/ \E says \in {"conflict", "lost", "error"} : \E c \in BOOLEAN : \E fault \in BOOLEAN :
           o = Outcome(<<>>, says, c, fault)
      \/ rec.rev = rev /\ o = Outcome(<<>>, "ok", FALSE, FALSE)
      \/ rec.rev = rev /\ rec.state = "parked" /\ o = Outcome(<<Moved(rec, "active")>>, "ok", FALSE, FALSE)
  BY <1>0 DEF HarnessResumeSession, Refused, Fails, Writes, Answers, Stale
<1>2. CASE \E says \in {"conflict", "lost", "error"} : \E c \in BOOLEAN : \E fault \in BOOLEAN :
           o = Outcome(<<>>, says, c, fault)
  <2>1. Extends(rec, o) /\ o.says # "ok"
    BY <1>2, NothingWritten
  <2> QED BY <2>1
<1>3. CASE rec.rev = rev /\ o = Outcome(<<>>, "ok", FALSE, FALSE)
  BY <1>3, NothingWritten
<1>4. CASE rec.rev = rev /\ rec.state = "parked" /\ o = Outcome(<<Moved(rec, "active")>>, "ok", FALSE, FALSE)
  <2> DEFINE m == Moved(rec, "active")
  <2>1. Continues(rec, m)
    BY <1>4, MoveContinues DEF Sound, Covers
  <2>2. o = Outcome(<<m>>, "ok", FALSE, FALSE)
    BY <1>4
  <2> HIDE DEF m
  <2> QED BY <1>4, <2>1, <2>2, OneWritten
<1> QED BY <1>1, <1>2, <1>3, <1>4

\* The exit record of a turn that is over.
LEMMA ExitContinues ==
  ASSUME NEW r, Sound(r), r.turn # Nothing, NEW ts,
         \/ world.run[r.turn] = "answered" /\ ts = "responded"
         \/ world.run[r.turn] \in {"failed", "stopped"} /\ ts \in {"failed", "interrupted"}
  PROVE  Continues(r, Turned(r, ts))
<1> DEFINE s == Turned(r, ts)
<1>1. r \in sessionRecord /\ r.turn \in Turn /\ ts \in DriverTurnStates /\ ts # "none"
  BY DEF Sound, Shaped, sessionRecord, DriverTurnStates
<1>2. /\ s \in sessionRecord /\ s.rev = r.rev + 1 /\ s.state = r.state
      /\ s.turn = r.turn /\ s.ts = ts /\ s.used = r.used
  BY <1>1, TurnedFields
<1> HIDE DEF s
<1>3. Truthful(s)
  BY <1>2 DEF Truthful
<1>4. Covers(s)
  BY <1>2 DEF Covers, Sound, Running
<1>5. s.state # "none"
  BY <1>1, <1>2 DEF Sound, Shaped
<1>6. Continues(r, s)
  BY <1>1, <1>2, <1>3, <1>4, <1>5, Rewritten
<1> QED BY <1>6 DEF s

LEMMA HarnessObserveExtends ==
  ASSUME TypeOK, Sound(rec), NEW rev, NEW t \in Turn, NEW o \in HarnessObserveTurn(rev, t)
  PROVE  Extends(rec, o) /\ (o.says = "ok" => rec.rev = rev /\ rec.turn = t)
<1>0. client \in BOOLEAN /\ world.run[t] \in Runs
  BY DEF TypeOK, Worlds
<1>1. \/ \E says \in {"conflict", "error"} : \E c \in BOOLEAN : \E fault \in BOOLEAN :
           o = Outcome(<<>>, says, c, fault)
      \/ /\ rec.rev = rev /\ rec.turn = t
         /\ \/ o = Outcome(<<>>, "ok", FALSE, FALSE)
            \/ \E s \in {LostTurn(rec)} \cup Exits(world.run[t]) :
                 /\ world.run[t] \notin {"none", "running"} \/ s = LostTurn(rec)
                 /\ o = Outcome(<<s>>, "ok", FALSE, FALSE)
  BY <1>0 DEF HarnessObserveTurn, Refused, Fails, Writes, Answers, Stale
<1>2. CASE \E says \in {"conflict", "error"} : \E c \in BOOLEAN : \E fault \in BOOLEAN :
           o = Outcome(<<>>, says, c, fault)
  <2>1. Extends(rec, o) /\ o.says # "ok"
    BY <1>2, NothingWritten
  <2> QED BY <2>1
<1>3. CASE rec.rev = rev /\ rec.turn = t /\ o = Outcome(<<>>, "ok", FALSE, FALSE)
  BY <1>3, NothingWritten
<1>4. ASSUME rec.rev = rev, rec.turn = t, NEW s \in {LostTurn(rec)} \cup Exits(world.run[t]),
             world.run[t] \notin {"none", "running"} \/ s = LostTurn(rec),
             o = Outcome(<<s>>, "ok", FALSE, FALSE)
      PROVE  Extends(rec, o)
  <2>0. rec.turn # Nothing
    BY <1>4, SessionAssumption
  <2>1. Continues(rec, s)
    <3>1. Continues(rec, LostTurn(rec))
      BY <2>0, GivenUp
    <3>2. world.run[t] = "answered" => Continues(rec, Turned(rec, "responded"))
      BY <1>4, <2>0, ExitContinues
    <3>3. world.run[t] \in {"failed", "stopped"} => Continues(rec, Turned(rec, "failed"))
      BY <1>4, <2>0, ExitContinues
    <3>4. world.run[t] \in {"answered", "failed", "stopped"} \/ s = LostTurn(rec)
      BY <1>0, <1>4 DEF Runs
    <3> QED BY <1>4, <3>1, <3>2, <3>3, <3>4 DEF Exits
  <2> QED BY <1>4, <2>1, OneWritten
<1> QED BY <1>1, <1>2, <1>3, <1>4

\* setLifecycle moves a session only while its turn is over.
LEMMA LifecycleExtends ==
  ASSUME TypeOK, Sound(rec), NEW rev, NEW from \in {"active", "parked"}, NEW to \in {"parked", "closed"},
         NEW o \in setLifecycle(rev, from, to)
  PROVE  /\ Extends(rec, o)
         /\ o.says = "ok" => After(rec, o).state = to /\ After(rec, o).ts = rec.ts
<1>0. client \in BOOLEAN /\ rec \in sessionRecord
  BY DEF TypeOK
<1>1. \/ o = Outcome(<<>>, "conflict", client, FALSE)
      \/ rec.state = to /\ o = Outcome(<<>>, "ok", FALSE, FALSE)
      \/ rec.state = from /\ ~OpenTurn(rec.ts) /\ o = Outcome(<<Moved(rec, to)>>, "ok", FALSE, FALSE)
  BY DEF setLifecycle, Refused, Answers, Writes
<1>2. CASE o = Outcome(<<>>, "conflict", client, FALSE)
  <2>1. Extends(rec, o) /\ o.says = "conflict"
    BY <1>0, <1>2, NothingWritten
  <2> QED BY <2>1
<1>3. CASE rec.state = to /\ o = Outcome(<<>>, "ok", FALSE, FALSE)
  <2>1. Extends(rec, o)
    BY <1>0, <1>3, NothingWritten
  <2>2. After(rec, o) = rec
    BY <1>3 DEF After, Outcome
  <2> QED BY <1>3, <2>1, <2>2
<1>4. CASE rec.state = from /\ ~OpenTurn(rec.ts) /\ o = Outcome(<<Moved(rec, to)>>, "ok", FALSE, FALSE)
  <2> DEFINE m == Moved(rec, to)
  <2>1. m.state = to /\ m.ts = rec.ts
    BY <1>0, MovedFields DEF SessionStates
  <2>2. Continues(rec, m)
    <3>1. \A t \in Turn : ~Running(t)
      BY <1>4 DEF Sound, Covers
    <3> QED BY <3>1, MoveContinues
  <2>3. o = Outcome(<<m>>, "ok", FALSE, FALSE)
    BY <1>4
  <2> HIDE DEF m
  <2>4. Extends(rec, o)
    BY <2>2, <2>3, OneWritten
  <2>5. After(rec, o) = m
    BY <2>3 DEF After, Outcome
  <2> QED BY <2>1, <2>4, <2>5
<1> QED BY <1>1, <1>2, <1>3, <1>4

LEMMA HarnessMayInterruptExtends ==
  ASSUME TypeOK, Sound(rec), NEW rev, NEW t \in Turn, NEW o \in HarnessMayInterrupt(rev, t)
  PROVE  Extends(rec, o)
<1>1. \E says : \E c \in BOOLEAN : \E fault \in BOOLEAN : o = Outcome(<<>>, says, c, fault)
  BY DEF HarnessMayInterrupt, Refused, Fails, Answers, TypeOK
<1> QED BY <1>1, NothingWritten

LEMMA HarnessInterruptedExtends ==
  ASSUME TypeOK, Sound(rec), rec.turn # Nothing, NEW o \in HarnessInterrupted
  PROVE  Extends(rec, o) /\ (o.says = "confirmed" => After(rec, o).ts = "interrupted")
<1>1. \/ o = Outcome(<<>>, "unconfirmed", FALSE, FALSE)
      \/ /\ world.run[rec.turn] \in {"stopped", "failed"}
         /\ o = Outcome(<<Turned(rec, "interrupted")>>, "confirmed", FALSE, FALSE)
  BY DEF HarnessInterrupted
<1>2. CASE o = Outcome(<<>>, "unconfirmed", FALSE, FALSE)
  <2>1. Extends(rec, o) /\ o.says = "unconfirmed"
    BY <1>2, NothingWritten
  <2> QED BY <2>1
<1>3. CASE /\ world.run[rec.turn] \in {"stopped", "failed"}
           /\ o = Outcome(<<Turned(rec, "interrupted")>>, "confirmed", FALSE, FALSE)
  <2> DEFINE m == Turned(rec, "interrupted")
  <2>1. m.ts = "interrupted"
    BY TurnedFields DEF TypeOK, DriverTurnStates
  <2>2. Continues(rec, m)
    BY <1>3, ExitContinues
  <2>3. o = Outcome(<<m>>, "confirmed", FALSE, FALSE)
    BY <1>3
  <2> HIDE DEF m
  <2>4. Extends(rec, o)
    BY <2>2, <2>3, OneWritten
  <2>5. After(rec, o) = m
    BY <2>3 DEF After, Outcome
  <2> QED BY <2>1, <2>4, <2>5
<1> QED BY <1>1, <1>2, <1>3

-----------------------------------------------------------------------------
\* The calls of either driver.
LEMMA ResumeExtends ==
  ASSUME TypeOK, Sound(rec), NEW rev,
         NEW o \in ByKind(CodexResumeSession(rev), HarnessResumeSession(rev))
  PROVE  Extends(rec, o)
  BY CodexResumeExtends, HarnessResumeExtends DEF ByKind

LEMMA ObserveExtends ==
  ASSUME TypeOK, Sound(rec), NEW rev, NEW t \in Turn, NEW o \in ObserveTurn(rev, t)
  PROVE  Extends(rec, o) /\ (o.says = "ok" => rec.rev = rev /\ rec.turn = t)
  BY CodexObserveExtends, HarnessObserveExtends DEF ByKind, ObserveTurn

LEMMA ParkExtends ==
  ASSUME TypeOK, Sound(rec), ~OpenTurn(rec.ts), rec.state # "none", NEW rev, NEW o \in ParkSession(rev)
  PROVE  /\ Extends(rec, o)
         /\ o.says = "ok" => After(rec, o).state = "parked" /\ After(rec, o).ts = rec.ts
  BY CodexParkExtends, LifecycleExtends DEF ByKind, ParkSession, HarnessParkSession

LEMMA CloseExtends ==
  ASSUME TypeOK, Sound(rec), NEW rev,
         NEW o \in ByKind(CodexCloseSession(rev), HarnessCloseSession(rev)),
         rec.rev = rev => \A t \in Turn : ~Running(t)
  PROVE  Extends(rec, o)
  BY CodexCloseExtends, LifecycleExtends DEF ByKind, HarnessCloseSession

LEMMA MayInterruptExtends ==
  ASSUME TypeOK, Sound(rec), NEW rev, NEW t \in Turn,
         NEW o \in ByKind(CodexMayInterrupt(rev, t), HarnessMayInterrupt(rev, t))
  PROVE  Extends(rec, o)
  BY CodexMayInterruptExtends, HarnessMayInterruptExtends DEF ByKind

LEMMA InterruptedExtends ==
  ASSUME TypeOK, Sound(rec), rec.turn # Nothing, NEW o \in ByKind(CodexInterrupted, HarnessInterrupted)
  PROVE  Extends(rec, o) /\ (o.says = "confirmed" => After(rec, o).ts = "interrupted")
  BY CodexInterruptedExtends, HarnessInterruptedExtends DEF ByKind

-----------------------------------------------------------------------------
(***************************************************************************)
(* The Team's records and the place of a call.                             *)
(***************************************************************************)

LEMMA HeldFields ==
  ASSUME NEW d \in TeamRecords, NEW state \in SessionStates, NEW rev \in Nat, NEW e, e = Held(d, state, rev)
  PROVE  /\ e \in TeamRecords /\ e.state = state /\ e.rev = rev
         /\ e.env = d.env /\ e.turn = d.turn /\ e.closing = d.closing
<1>1. e \in TeamRecords
  BY Zenon DEF Held, TeamRecords
<1> QED BY <1>1 DEF Held, TeamRecords

LEMMA EnvFields ==
  ASSUME NEW d \in TeamRecords, NEW t \in Turn, NEW rev \in Nat, NEW e, e = Enveloped(d, t, rev)
  PROVE  /\ e \in TeamRecords /\ e.state = d.state /\ e.rev = d.rev /\ e.turn = d.turn /\ e.closing = d.closing
         /\ e.env[t] = rev /\ \A u \in Turn : u # t => e.env[u] = d.env[u]
<1>1. e = [d EXCEPT !.env = [d.env EXCEPT ![t] = rev]]
  BY DEF Enveloped, TeamRecords
<1>2. [d.env EXCEPT ![t] = rev] \in [Turn -> Nat]
  BY DEF TeamRecords
<1>3. e \in TeamRecords
  BY <1>1, <1>2, Zenon DEF TeamRecords
<1> QED BY <1>1, <1>3 DEF TeamRecords

LEMMA TurnFields ==
  ASSUME NEW d \in TeamRecords, NEW t \in Turn, NEW s \in TeamTurnStates, NEW e, e = TurnIs(d, t, s)
  PROVE  /\ e \in TeamRecords /\ e.state = d.state /\ e.rev = d.rev /\ e.env = d.env /\ e.closing = d.closing
         /\ e.turn[t] = s /\ \A u \in Turn : u # t => e.turn[u] = d.turn[u]
<1>1. e = [d EXCEPT !.turn = [d.turn EXCEPT ![t] = s]]
  BY DEF TurnIs, TeamRecords
<1>2. [d.turn EXCEPT ![t] = s] \in [Turn -> TeamTurnStates]
  BY DEF TeamRecords
<1>3. e \in TeamRecords
  BY <1>1, <1>2, Zenon DEF TeamRecords
<1> QED BY <1>1, <1>3 DEF TeamRecords

\* A turn that was given up is over or stays as it was.
LEMMA MarkedFields ==
  ASSUME NEW d \in TeamRecords, NEW t \in Turn, NEW s, s \in {"failed", "indeterminate", "cancelled"},
         NEW e, e = markTurnFailure(d, t, s)
  PROVE  /\ e \in TeamRecords /\ e.state = d.state /\ e.rev = d.rev /\ e.env = d.env
         /\ \A u \in Turn : u # t => e.turn[u] = d.turn[u]
         /\ e.turn[t] = d.turn[t] \/ e.turn[t] = s
<1>1. s \in TeamTurnStates
  BY DEF TeamTurnStates
<1>2. CASE e = TurnIs(d, t, s)
  BY <1>1, <1>2, TurnFields
<1>3. CASE e = d
  BY <1>3
<1> QED BY <1>2, <1>3 DEF markTurnFailure

LEMMA GivenUpFields ==
  ASSUME NEW d \in TeamRecords, NEW t \in Turn, d.turn[t] \in {"prepared", "dispatching"},
         NEW e, e = markTurnFailure(d, t, "indeterminate")
  PROVE  /\ e \in TeamRecords /\ e.state = d.state /\ e.rev = d.rev /\ e.env = d.env
         /\ e.turn[t] = "indeterminate" /\ \A u \in Turn : u # t => e.turn[u] = d.turn[u]
<1>1. e = TurnIs(d, t, "indeterminate") /\ "indeterminate" \in TeamTurnStates
  BY DEF markTurnFailure, TeamTurnStates
<1> QED BY <1>1, TurnFields

LEMMA CallFields ==
  ASSUME NEW where \in Places, NEW t \in Turn \cup {Nothing}, NEW r \in sessionRecord, NEW c, c = At(where, t, r)
  PROVE  c \in Calls /\ c.at = where /\ c.turn = t /\ c.rev = r.rev /\ c.ts = r.ts
  BY DEF At, Calls, sessionRecord

LEMMA IdleFields ==
  Idle \in Calls /\ Idle.at = "idle" /\ Idle.turn = Nothing /\ Idle.rev = 0
  BY DEF Idle, Calls, Places, DriverTurnStates

LEMMA NextPlace ==
  ASSUME call \in Calls, NEW where \in Places, NEW d, d = GoesTo(where)
  PROVE  d \in Calls /\ d.at = where /\ d.turn = call.turn /\ d.rev = call.rev /\ d.ts = call.ts
  BY DEF Calls, GoesTo

LEMMA RunFields ==
  ASSUME NEW w \in Worlds, NEW t \in Turn, NEW run \in Runs, NEW v, v = RunIs(w, t, run)
  PROVE  /\ v \in Worlds /\ v.twice = w.twice /\ v.gone = w.gone
         /\ v.run[t] = run /\ \A u \in Turn : u # t => v.run[u] = w.run[u]
<1>1. v = [w EXCEPT !.run = [w.run EXCEPT ![t] = run]]
  BY DEF RunIs, Worlds
<1>2. [w.run EXCEPT ![t] = run] \in [Turn -> Runs]
  BY DEF Worlds
<1>3. v \in Worlds
  BY <1>1, <1>2, Zenon DEF Worlds
<1> QED BY <1>1, <1>3 DEF Worlds

\* Outside a call nothing is said of the call.
LEMMA IdleCallOK ==
  ASSUME call' = Idle
  PROVE  CallOK'
  BY IdleFields DEF CallOK, InCall

-----------------------------------------------------------------------------
(***************************************************************************)
(* What the two sides preserve by themselves.                              *)
(***************************************************************************)

\* The driver's record stays or continues.
Advances == rec' = rec \/ (Sound(rec) /\ Continues(rec, rec'))

LEMMA AdvanceFacts ==
  ASSUME TypeOK, Shaped(rec), Advances, world' = world
  PROVE  /\ rec' \in sessionRecord /\ rec'.turn = rec.turn /\ rec'.used = rec.used
         /\ rec'.rev \in Nat /\ rec.rev \in Nat /\ rec'.rev >= rec.rev /\ (rec' # rec => rec'.rev > rec.rev)
         /\ Shaped(rec)' /\ (Sound(rec) => Sound(rec)')
<1>1. rec \in sessionRecord /\ rec.rev \in Nat
  BY DEF TypeOK, sessionRecord
<1>2. CASE rec' = rec
  BY <1>1, <1>2 DEF Shaped, Sound, Truthful, Covers, Running
<1>3. CASE Sound(rec) /\ Continues(rec, rec')
  <2>1. rec' \in sessionRecord /\ rec'.turn = rec.turn /\ rec'.used = rec.used /\ rec'.rev > rec.rev
    BY <1>3 DEF Continues, Sound, Shaped
  <2>2. rec'.rev \in Nat
    BY <2>1 DEF sessionRecord
  <2>3. Shaped(rec)' /\ Sound(rec)'
    BY <1>3 DEF Continues, Shaped, Sound, Truthful, Covers, Running
  <2> QED BY <1>1, <2>1, <2>2, <2>3
<1> QED BY <1>2, <1>3 DEF Advances

\* A step that changes at most one turn at the Team.
LEMMA TeamStep ==
  ASSUME SessionInv, world' = world, Advances, team' \in TeamRecords, NEW t \in Turn,
         \A u \in Turn : u # t => team'.turn[u] = team.turn[u] /\ team'.env[u] = team.env[u],
         team'.turn[t] # team.turn[t] => OpenAtTeam(t) /\ team'.turn[t] \notin {"none", "prepared"},
         team'.turn[t] # team.turn[t] =>
           /\ team'.turn[t] = "responded" => world.run[t] = "answered"
           /\ team'.turn[t] = "failed" => world.run[t] \in {"failed", "stopped"}
           /\ team'.turn[t] = "cancelled" => world.run[t] \in {"failed", "stopped"},
         team'.rev <= rec'.rev, team'.env[t] = team.env[t] \/ team'.env[t] = rec'.rev,
         team'.state = "none" =>
           team.state = "none" /\ team'.rev = team.rev /\ team'.env[t] = team.env[t],
         team'.state \in {"active", "parked"} /\ team'.rev = rec'.rev =>
           \A u \in Turn : Running(u) => OpenAtTeam(u)',
         \A u \in Turn : rec'.turn = u /\ team'.turn[u] = "dispatching" /\ team'.env[u] = 0 =>
           team'.state = "active" /\ team'.rev < rec'.rev
  PROVE  TurnsOK' /\ HandlesOK' /\ OutcomeIsTrue' /\ StartedOnce'
<1>0. TypeOK /\ Shaped(rec) /\ TurnsOK /\ HandlesOK /\ OutcomeIsTrue /\ StartedOnce
  BY DEF SessionInv
<1>1. /\ rec'.turn = rec.turn /\ rec'.used = rec.used /\ rec'.rev \in Nat /\ rec.rev \in Nat
      /\ rec'.rev >= rec.rev
  BY <1>0, AdvanceFacts
<1>2. TurnsOK'
  <2>1. \A u \in Turn : OpenAtTeam(u)' => OpenAtTeam(u)
    BY <1>0 DEF TypeOK, TeamRecords, TeamTurnStates, OpenAtTeam
  <2>2. \A u \in Turn : team'.turn[u] \in {"none", "prepared"} => team'.turn[u] = team.turn[u]
    OBVIOUS
  <2> QED BY <1>0, <1>1, <2>1, <2>2 DEF TurnsOK
<1>3. HandlesOK'
  <2>1. \A u \in Turn : team'.env[u] <= rec'.rev
    <3>1. \A u \in Turn : team.env[u] \in Nat /\ team.env[u] <= rec.rev
      BY <1>0 DEF HandlesOK, TypeOK, TeamRecords
    <3> QED BY <1>1, <3>1
  <2>2. team'.state = "none" => team'.rev = 0 /\ rec'.used = {} /\ \A u \in Turn : team'.env[u] = 0
    BY <1>0, <1>1 DEF HandlesOK
  <2>3. team'.state \in {"active", "parked"} /\ team'.rev = rec'.rev =>
           \A u \in Turn : Running(u)' => OpenAtTeam(u)'
    BY DEF Running
  <2> QED BY <2>1, <2>2, <2>3 DEF HandlesOK
<1>4. OutcomeIsTrue'
  BY <1>0 DEF OutcomeIsTrue
<1>5. StartedOnce'
  BY <1>0 DEF StartedOnce
<1> QED BY <1>2, <1>3, <1>4, <1>5

\* A step that leaves the Team's record alone.
LEMMA DriverStep ==
  ASSUME SessionInv, world' = world, team' = team, Advances
  PROVE  TurnsOK' /\ HandlesOK' /\ OutcomeIsTrue' /\ StartedOnce'
<1>0. TypeOK /\ Shaped(rec) /\ TurnsOK /\ HandlesOK /\ OutcomeIsTrue /\ StartedOnce
  BY DEF SessionInv
<1>1. /\ rec'.turn = rec.turn /\ rec'.used = rec.used /\ rec'.rev \in Nat /\ rec.rev \in Nat
      /\ rec'.rev >= rec.rev /\ (rec' # rec => rec'.rev > rec.rev)
  BY <1>0, AdvanceFacts
<1>2. TurnsOK' /\ OutcomeIsTrue' /\ StartedOnce'
  BY <1>0, <1>1 DEF TurnsOK, OutcomeIsTrue, StartedOnce, OpenAtTeam
<1>3. HandlesOK'
  <2>1. team.rev \in Nat /\ \A u \in Turn : team.env[u] \in Nat
    BY <1>0 DEF TypeOK, TeamRecords
  <2> QED BY <1>0, <1>1, <2>1 DEF HandlesOK, OpenAtTeam, Running
<1> QED BY <1>2, <1>3

\* The engine crashes between two calls, or between two writes of a driver.
LEMMA CrashKeeps ==
  ASSUME SessionInv, Advances, Crashed, UNCHANGED <<world, team>>
  PROVE  SessionInv'
<1>0. TypeOK /\ Shaped(rec) /\ (Sound(rec) \/ Abandoned)
  BY DEF SessionInv
<1>1. TypeOK'
  <2>1. rec' \in sessionRecord /\ call' \in Calls
    BY <1>0, AdvanceFacts, IdleFields DEF Crashed
  <2>2. crashes' \in 0..MaxCrashes /\ faults' \in 0..MaxFaults
    BY <1>0, SessionAssumption DEF TypeOK, Crashed
  <2>3. client' \in BOOLEAN /\ attended' \subseteq Turn
    BY DEF Crashed
  <2> QED BY <1>0, <2>1, <2>2, <2>3 DEF TypeOK, Crashed
<1>2. TurnsOK' /\ HandlesOK' /\ OutcomeIsTrue' /\ StartedOnce'
  BY DriverStep
<1>3. CallOK'
  BY IdleCallOK DEF Crashed
<1>4. Shaped(rec)' /\ (Sound(rec)' \/ Abandoned')
  <2>1. Shaped(rec)' /\ (Sound(rec) => Sound(rec)')
    BY <1>0, AdvanceFacts
  <2>2. CASE rec' = rec /\ Abandoned
    BY <2>1, <2>2, IdleFields DEF Abandoned, Crashed, Running
  <2> QED BY <1>0, <2>1, <2>2 DEF Advances
<1> QED BY <1>1, <1>2, <1>3, <1>4 DEF SessionInv

\* The state after a call of the driver that was not cut off.
LEMMA Returned ==
  ASSUME TypeOK, NEW o, Extends(rec, o), Sound(rec) \/ o.writes = <<>>,
         o.fault => faults < MaxFaults, faults' = IF o.fault THEN faults + 1 ELSE faults,
         rec' = After(rec, o), client' = o.client
  PROVE  Advances /\ client' \in BOOLEAN /\ faults' \in 0..MaxFaults
<1>1. Advances
  BY AfterExtends DEF Advances, After
<1>2. client' \in BOOLEAN
  BY DEF Extends
<1>3. faults' \in 0..MaxFaults
  BY SessionAssumption DEF TypeOK
<1> QED BY <1>1, <1>2, <1>3

\* A crash between two writes of the driver.
LEMMA CutOff ==
  ASSUME SessionInv, NEW o, Extends(rec, o), Sound(rec) \/ o.writes = <<>>,
         NEW i \in 1..(Len(o.writes) - 1), rec' = o.writes[i], Crashed, UNCHANGED <<world, team>>
  PROVE  SessionInv'
<1>1. Len(o.writes) \in Nat /\ (o.writes = <<>> => Len(o.writes) = 0)
  BY DEF Extends
<1>2. Sound(rec) /\ i \in 1..Len(o.writes)
  BY <1>1
<1>3. Continues(rec, rec')
  BY <1>2 DEF Extends
<1> QED BY <1>2, <1>3, CrashKeeps DEF Advances

\* A handle of an earlier revision is refused whatever it is for.
LEMMA StaleRefused ==
  ASSUME TypeOK, kind = "harness", NEW rev, rec.rev # rev, NEW t, NEW o,
         \/ o \in ByKind(CodexResumeSession(rev), HarnessResumeSession(rev))
         \/ o \in ObserveTurn(rev, t)
         \/ o \in ByKind(CodexCloseSession(rev), HarnessCloseSession(rev))
         \/ o \in HarnessIntends(rev, t)
  PROVE  Extends(rec, o) /\ o.writes = <<>> /\ o.says = "conflict" /\ After(rec, o) = rec
<1>0. client \in BOOLEAN
  BY DEF TypeOK
<1>1. o = Outcome(<<>>, "conflict", client, FALSE)
  BY DEF ByKind, HarnessResumeSession, ObserveTurn, HarnessObserveTurn, HarnessCloseSession, setLifecycle,
         HarnessIntends, Refused, Stale
<1>2. Extends(rec, o)
  BY <1>0, <1>1, NothingWritten
<1>3. o.writes = <<>> /\ o.says = "conflict"
  BY <1>1 DEF Outcome
<1> QED BY <1>2, <1>3 DEF After

\* A call returned and the Team has written nothing yet.
LEMMA CallReturns ==
  ASSUME SessionInv, Advances, UNCHANGED <<kind, world, team, attended, crashes>>,
         client' \in BOOLEAN, faults' \in 0..MaxFaults, call' \in Calls, CallOK',
         Sound(rec) \/ (rec' = rec /\ call'.at \in {"idle", "opened", "start", "lose"})
  PROVE  SessionInv'
<1>0. TypeOK /\ Shaped(rec) /\ (Sound(rec) \/ Abandoned)
  BY DEF SessionInv
<1>1. rec' \in sessionRecord /\ Shaped(rec)' /\ (Sound(rec) => Sound(rec)')
  BY <1>0, AdvanceFacts
<1>2. TypeOK'
  BY <1>0, <1>1 DEF TypeOK
<1>3. Sound(rec)' \/ Abandoned'
  <2>1. CASE Abandoned /\ rec' = rec /\ call'.at \in {"idle", "opened", "start", "lose"}
    BY <1>1, <2>1 DEF Abandoned, Running
  <2> QED BY <1>0, <1>1, <2>1
<1>4. TurnsOK' /\ HandlesOK' /\ OutcomeIsTrue' /\ StartedOnce'
  BY DriverStep
<1> QED BY <1>1, <1>2, <1>3, <1>4 DEF SessionInv

-----------------------------------------------------------------------------
(***************************************************************************)
(* The actions that call the driver and leave the Team's record to a later *)
(* step.                                                                   *)
(***************************************************************************)

\* What every call that is under way has in common.
LEMMA UnderWay ==
  ASSUME SessionInv
  PROVE  /\ TypeOK /\ Shaped(rec) /\ rec \in sessionRecord /\ call \in Calls /\ team \in TeamRecords
         /\ (rec.turn # Nothing => rec.turn \in Turn /\ rec.state # "none" /\ rec.ts # "none" /\ rec.rev > 0)
         /\ (~InCall({"idle", "opened", "start", "lose"}) => Sound(rec) /\ call.rev = rec.rev)
         /\ (~InCall({"idle", "close"}) => call.turn \in Turn)
<1>1. TypeOK /\ Shaped(rec) /\ CallOK
  BY DEF SessionInv
<1>2. rec \in sessionRecord /\ call \in Calls /\ team \in TeamRecords
  BY <1>1 DEF TypeOK
<1>3. rec.turn # Nothing => rec.turn \in Turn /\ rec.state # "none" /\ rec.ts # "none" /\ rec.rev > 0
  BY <1>1, <1>2 DEF Shaped, sessionRecord
<1>4. /\ ~InCall({"idle", "opened", "start", "lose"}) => Sound(rec) /\ call.rev = rec.rev
      /\ ~InCall({"idle", "close"}) => call.turn \in Turn
  BY <1>1 DEF CallOK
<1> QED BY <1>1, <1>2, <1>3, <1>4

LEMMA ObserveKeeps ==
  ASSUME SessionInv, NEW t \in Turn, Observe(t)
  PROVE  SessionInv'
<1>0. TypeOK /\ (Sound(rec) \/ Abandoned) /\ call = Idle
  BY DEF SessionInv, Observe
<1>1. PICK o \in ObserveTurn(team.env[t], t) : Driver(o, Returns(o, IF o.says = "ok" THEN "settle" ELSE "lose", t))
  BY DEF Observe
<1>2. /\ Extends(rec, o) /\ (Sound(rec) \/ o.writes = <<>>)
      /\ o.says = "ok" => Sound(rec) /\ rec.turn = t
  <2>1. CASE Sound(rec)
    BY <1>0, <2>1, ObserveExtends
  <2>2. CASE Abandoned
    <3>1. kind = "harness" /\ rec.rev # team.env[t]
      BY <1>0, <2>2 DEF Abandoned, TypeOK, TeamRecords, sessionRecord
    <3> QED BY <1>0, <3>1, StaleRefused
  <2> QED BY <1>0, <2>1, <2>2
<1>3. CASE \E i \in 1..(Len(o.writes) - 1) : rec' = o.writes[i] /\ Crashed /\ UNCHANGED <<world, team>>
  BY <1>2, <1>3, CutOff
<1>4. CASE /\ o.fault => faults < MaxFaults
           /\ faults' = IF o.fault THEN faults + 1 ELSE faults
           /\ rec' = After(rec, o)
           /\ client' = o.client
           /\ Returns(o, IF o.says = "ok" THEN "settle" ELSE "lose", t)
           /\ UNCHANGED <<kind, attended, crashes>>
  <2>1. Advances /\ client' \in BOOLEAN /\ faults' \in 0..MaxFaults
    BY <1>0, <1>2, <1>4, Returned
  <2>2. UNCHANGED <<world, team>> /\ call' = At(IF o.says = "ok" THEN "settle" ELSE "lose", t, rec')
    BY <1>4 DEF Returns
  <2>3. rec' \in sessionRecord /\ rec'.turn = rec.turn /\ (Sound(rec) => Sound(rec)')
    BY <1>0, <2>1, <2>2, AdvanceFacts DEF SessionInv
  <2>4. /\ call' \in Calls /\ call'.turn = t /\ call'.rev = rec'.rev /\ call'.ts = rec'.ts
        /\ call'.at = IF o.says = "ok" THEN "settle" ELSE "lose"
    BY <2>2, <2>3, CallFields DEF Places
  <2>5. CallOK'
    BY <1>2, <2>2, <2>3, <2>4 DEF CallOK, InCall, Observe
  <2>6. Sound(rec) \/ (rec' = rec /\ call'.at = "lose")
    BY <1>2, <1>4, <2>4 DEF After
  <2> QED BY <1>4, <2>1, <2>2, <2>4, <2>5, <2>6, CallReturns
<1> QED BY <1>1, <1>3, <1>4 DEF Driver

LEMMA ParkKeeps ==
  ASSUME SessionInv, Park
  PROVE  SessionInv'
<1> DEFINE t == call.turn
<1>0. TypeOK /\ Sound(rec) /\ t \in Turn /\ call.at = "park" /\ CallOK
  BY UnderWay DEF Park, SessionInv, InCall
<1>00. rec.turn = t /\ rec.ts \in {"responded", "interrupted", "failed"} /\ rec.state # "none"
  BY <1>0, UnderWay, SessionAssumption DEF CallOK, InCall
<1>1. PICK o \in ParkSession(call.rev) : Driver(o, IF o.says = "ok" THEN Returns(o, "parking", t) ELSE Drops)
  BY DEF Park
<1>2. /\ Extends(rec, o)
      /\ o.says = "ok" => After(rec, o).state = "parked" /\ After(rec, o).ts = rec.ts
  BY <1>0, <1>00, ParkExtends DEF OpenTurn
<1>3. CASE \E i \in 1..(Len(o.writes) - 1) : rec' = o.writes[i] /\ Crashed /\ UNCHANGED <<world, team>>
  BY <1>0, <1>2, <1>3, CutOff
<1>4. CASE /\ o.fault => faults < MaxFaults
           /\ faults' = IF o.fault THEN faults + 1 ELSE faults
           /\ rec' = After(rec, o)
           /\ client' = o.client
           /\ IF o.says = "ok" THEN Returns(o, "parking", t) ELSE Drops
           /\ UNCHANGED <<kind, attended, crashes>>
  <2>1. Advances /\ client' \in BOOLEAN /\ faults' \in 0..MaxFaults
    BY <1>0, <1>2, <1>4, Returned
  <2>2. UNCHANGED <<world, team>> /\ call' = IF o.says = "ok" THEN At("parking", t, rec') ELSE Idle
    BY <1>4 DEF Returns, Drops
  <2>3. rec' \in sessionRecord /\ rec'.turn = rec.turn /\ Sound(rec)'
    BY <1>0, <2>1, <2>2, AdvanceFacts DEF SessionInv
  <2>4. CASE o.says = "ok"
    <3>1. /\ call' \in Calls /\ call'.turn = t /\ call'.rev = rec'.rev /\ call'.ts = rec'.ts
          /\ call'.at = "parking"
      BY <1>0, <2>2, <2>3, <2>4, CallFields DEF Places
    <3>2. CallOK'
      BY <1>0, <1>00, <1>2, <1>4, <2>2, <2>3, <2>4, <3>1 DEF CallOK, InCall
    <3> QED BY <1>0, <1>4, <2>1, <2>2, <3>1, <3>2, CallReturns
  <2>5. CASE o.says # "ok"
    BY <1>0, <1>4, <2>1, <2>2, <2>5, IdleFields, IdleCallOK, CallReturns
  <2> QED BY <2>4, <2>5
<1> QED BY <1>1, <1>3, <1>4 DEF Driver

LEMMA KeepKeeps ==
  ASSUME SessionInv, Keep
  PROVE  SessionInv'
<1> DEFINE t == call.turn
<1>0. TypeOK /\ Sound(rec) /\ t \in Turn /\ call.at = "keep" /\ CallOK
  BY UnderWay DEF Keep, SessionInv, InCall
<1>00. rec.turn = t /\ rec.ts = "interrupted" /\ rec.state # "none" /\ team.turn[t] = "cancelling"
  BY <1>0, UnderWay, SessionAssumption DEF CallOK, InCall
<1>1. PICK o \in ParkSession(call.rev) : Driver(o, IF o.says = "ok" THEN Returns(o, "kept", t) ELSE Drops)
  BY DEF Keep
<1>2. /\ Extends(rec, o)
      /\ o.says = "ok" => After(rec, o).state = "parked" /\ After(rec, o).ts = rec.ts
  BY <1>0, <1>00, ParkExtends DEF OpenTurn
<1>3. CASE \E i \in 1..(Len(o.writes) - 1) : rec' = o.writes[i] /\ Crashed /\ UNCHANGED <<world, team>>
  BY <1>0, <1>2, <1>3, CutOff
<1>4. CASE /\ o.fault => faults < MaxFaults
           /\ faults' = IF o.fault THEN faults + 1 ELSE faults
           /\ rec' = After(rec, o)
           /\ client' = o.client
           /\ IF o.says = "ok" THEN Returns(o, "kept", t) ELSE Drops
           /\ UNCHANGED <<kind, attended, crashes>>
  <2>1. Advances /\ client' \in BOOLEAN /\ faults' \in 0..MaxFaults
    BY <1>0, <1>2, <1>4, Returned
  <2>2. UNCHANGED <<world, team>> /\ call' = IF o.says = "ok" THEN At("kept", t, rec') ELSE Idle
    BY <1>4 DEF Returns, Drops
  <2>3. rec' \in sessionRecord /\ rec'.turn = rec.turn /\ Sound(rec)'
    BY <1>0, <2>1, <2>2, AdvanceFacts DEF SessionInv
  <2>4. CASE o.says = "ok"
    <3>1. /\ call' \in Calls /\ call'.turn = t /\ call'.rev = rec'.rev /\ call'.ts = rec'.ts
          /\ call'.at = "kept"
      BY <1>0, <2>2, <2>3, <2>4, CallFields DEF Places
    <3>2. CallOK'
      BY <1>0, <1>00, <1>2, <1>4, <2>2, <2>3, <2>4, <3>1 DEF CallOK, InCall
    <3> QED BY <1>0, <1>4, <2>1, <2>2, <3>1, <3>2, CallReturns
  <2>5. CASE o.says # "ok"
    BY <1>0, <1>4, <2>1, <2>2, <2>5, IdleFields, IdleCallOK, CallReturns
  <2> QED BY <2>4, <2>5
<1> QED BY <1>1, <1>3, <1>4 DEF Driver

LEMMA InterruptedKeeps ==
  ASSUME SessionInv, Interrupted
  PROVE  SessionInv'
<1> DEFINE t == call.turn
<1>0. TypeOK /\ Sound(rec) /\ t \in Turn /\ call.at = "interrupting" /\ CallOK
  BY UnderWay DEF Interrupted, SessionInv, InCall
<1>00. rec.turn = t /\ rec.turn # Nothing /\ team.turn[t] = "cancelling"
  BY <1>0, SessionAssumption DEF CallOK, InCall
<1>1. PICK o \in ByKind(CodexInterrupted, HarnessInterrupted) :
        Driver(o, IF o.says = "confirmed" THEN Returns(o, "keep", t) ELSE Drops)
  BY DEF Interrupted
<1>2. Extends(rec, o) /\ (o.says = "confirmed" => After(rec, o).ts = "interrupted")
  BY <1>0, <1>00, InterruptedExtends
<1>3. CASE \E i \in 1..(Len(o.writes) - 1) : rec' = o.writes[i] /\ Crashed /\ UNCHANGED <<world, team>>
  BY <1>0, <1>2, <1>3, CutOff
<1>4. CASE /\ o.fault => faults < MaxFaults
           /\ faults' = IF o.fault THEN faults + 1 ELSE faults
           /\ rec' = After(rec, o)
           /\ client' = o.client
           /\ IF o.says = "confirmed" THEN Returns(o, "keep", t) ELSE Drops
           /\ UNCHANGED <<kind, attended, crashes>>
  <2>1. Advances /\ client' \in BOOLEAN /\ faults' \in 0..MaxFaults
    BY <1>0, <1>2, <1>4, Returned
  <2>2. UNCHANGED <<world, team>> /\ call' = IF o.says = "confirmed" THEN At("keep", t, rec') ELSE Idle
    BY <1>4 DEF Returns, Drops
  <2>3. rec' \in sessionRecord /\ rec'.turn = rec.turn /\ Sound(rec)'
    BY <1>0, <2>1, <2>2, AdvanceFacts DEF SessionInv
  <2>4. CASE o.says = "confirmed"
    <3>1. /\ call' \in Calls /\ call'.turn = t /\ call'.rev = rec'.rev /\ call'.ts = rec'.ts
          /\ call'.at = "keep"
      BY <1>0, <2>2, <2>3, <2>4, CallFields DEF Places
    <3>2. CallOK'
      BY <1>0, <1>00, <1>2, <1>4, <2>2, <2>3, <2>4, <3>1 DEF CallOK, InCall
    <3> QED BY <1>0, <1>4, <2>1, <2>2, <3>1, <3>2, CallReturns
  <2>5. CASE o.says # "confirmed"
    BY <1>0, <1>4, <2>1, <2>2, <2>5, IdleFields, IdleCallOK, CallReturns
  <2> QED BY <2>4, <2>5
<1> QED BY <1>1, <1>3, <1>4 DEF Driver

LEMMA CloseKeeps ==
  ASSUME SessionInv, Close
  PROVE  SessionInv'
<1>0. TypeOK /\ (Sound(rec) \/ Abandoned) /\ HandlesOK /\ team.state \in {"active", "parked"}
  BY DEF SessionInv, Close, Closable
<1>1. PICK o \in ByKind(CodexCloseSession(team.rev), HarnessCloseSession(team.rev)) :
        Driver(o, IF o.says = "ok" THEN Returns(o, "close", Nothing) ELSE Drops)
  BY DEF Close
<1>2. /\ Extends(rec, o) /\ (Sound(rec) \/ o.writes = <<>>)
      /\ o.says = "ok" => Sound(rec)
  <2>1. CASE Sound(rec)
    <3>1. rec.rev = team.rev => \A t \in Turn : ~Running(t)
      BY <1>0 DEF HandlesOK, Close, Closable, OpenAtTeam, TurnOver
    <3> QED BY <1>0, <2>1, <3>1, CloseExtends
  <2>2. CASE Abandoned
    <3>1. kind = "harness" /\ rec.rev # team.rev
      BY <1>0, <2>2 DEF Abandoned, TypeOK, TeamRecords, sessionRecord
    <3> QED BY <1>0, <3>1, StaleRefused
  <2> QED BY <1>0, <2>1, <2>2
<1>3. CASE \E i \in 1..(Len(o.writes) - 1) : rec' = o.writes[i] /\ Crashed /\ UNCHANGED <<world, team>>
  BY <1>2, <1>3, CutOff
<1>4. CASE /\ o.fault => faults < MaxFaults
           /\ faults' = IF o.fault THEN faults + 1 ELSE faults
           /\ rec' = After(rec, o)
           /\ client' = o.client
           /\ IF o.says = "ok" THEN Returns(o, "close", Nothing) ELSE Drops
           /\ UNCHANGED <<kind, attended, crashes>>
  <2>1. Advances /\ client' \in BOOLEAN /\ faults' \in 0..MaxFaults
    BY <1>0, <1>2, <1>4, Returned
  <2>2. UNCHANGED <<world, team>> /\ call' = IF o.says = "ok" THEN At("close", Nothing, rec') ELSE Idle
    BY <1>4 DEF Returns, Drops
  <2>3. rec' \in sessionRecord /\ (Sound(rec) => Sound(rec)')
    BY <1>0, <2>1, <2>2, AdvanceFacts DEF SessionInv
  <2>4. CASE o.says = "ok"
    <3>1. call' \in Calls /\ call'.rev = rec'.rev /\ call'.at = "close"
      BY <2>2, <2>3, <2>4, CallFields DEF Places
    <3>2. team'.closing /\ \A u \in Turn : ~OpenAtTeam(u)'
      BY <2>2 DEF Close, Closable, TurnOver, OpenAtTeam
    <3>3. CallOK'
      BY <1>2, <2>3, <2>4, <3>1, <3>2 DEF CallOK, InCall
    <3> QED BY <1>2, <1>4, <2>1, <2>2, <2>4, <3>1, <3>3, CallReturns
  <2>5. CASE o.says # "ok"
    <3>1. Sound(rec) \/ rec' = rec
      BY <1>2, <1>4 DEF After
    <3> QED BY <1>4, <2>1, <2>2, <2>5, <3>1, IdleFields, IdleCallOK, CallReturns
  <2> QED BY <2>4, <2>5
<1> QED BY <1>1, <1>3, <1>4 DEF Driver

\* cancelExactSessionTurn observes the turn once more.
LEMMA CancelTurnKeeps ==
  ASSUME SessionInv, NEW t \in Turn, CancelTurn(t)
  PROVE  SessionInv'
<1>0. TypeOK /\ (Sound(rec) \/ Abandoned) /\ call = Idle /\ team.turn[t] = "cancelling"
  BY DEF SessionInv, CancelTurn
<1>1. PICK o \in ObserveTurn(team.env[t], t) :
        \/ /\ o.fault => faults < MaxFaults
           /\ faults' = IF o.fault THEN faults + 1 ELSE faults
           /\ rec' = After(rec, o) /\ client' = o.client
           /\ UNCHANGED <<kind, attended, crashes, world, team>>
           /\ \/ /\ o.says = "ok" /\ After(rec, o).ts = "responded"
                 /\ call' = At("park", t, After(rec, o))
              \/ /\ o.says = "ok" /\ After(rec, o).ts = "interrupted"
                 /\ call' = At("keep", t, After(rec, o))
              \/ /\ o.says = "ok" /\ OpenTurn(After(rec, o).ts)
                 /\ call' = At("cancel", t, After(rec, o))
              \/ call' = Idle
        \/ \E i \in 1..(Len(o.writes) - 1) : rec' = o.writes[i] /\ Crashed /\ UNCHANGED <<world, team>>
  BY DEF CancelTurn, Driver, Returns, Drops
<1>2. /\ Extends(rec, o) /\ (Sound(rec) \/ o.writes = <<>>)
      /\ o.says = "ok" => Sound(rec) /\ rec.turn = t
  <2>1. CASE Sound(rec)
    BY <1>0, <2>1, ObserveExtends
  <2>2. CASE Abandoned
    <3>1. kind = "harness" /\ rec.rev # team.env[t]
      BY <1>0, <2>2 DEF Abandoned, TypeOK, TeamRecords, sessionRecord
    <3> QED BY <1>0, <3>1, StaleRefused
  <2> QED BY <1>0, <2>1, <2>2
<1>3. CASE \E i \in 1..(Len(o.writes) - 1) : rec' = o.writes[i] /\ Crashed /\ UNCHANGED <<world, team>>
  BY <1>2, <1>3, CutOff
<1>4. CASE /\ o.fault => faults < MaxFaults
           /\ faults' = IF o.fault THEN faults + 1 ELSE faults
           /\ rec' = After(rec, o) /\ client' = o.client
           /\ UNCHANGED <<kind, attended, crashes, world, team>>
           /\ \/ /\ o.says = "ok" /\ After(rec, o).ts = "responded"
                 /\ call' = At("park", t, After(rec, o))
              \/ /\ o.says = "ok" /\ After(rec, o).ts = "interrupted"
                 /\ call' = At("keep", t, After(rec, o))
              \/ /\ o.says = "ok" /\ OpenTurn(After(rec, o).ts)
                 /\ call' = At("cancel", t, After(rec, o))
              \/ call' = Idle
  <2>1. Advances /\ client' \in BOOLEAN /\ faults' \in 0..MaxFaults
    BY <1>0, <1>2, <1>4, Returned
  <2>3. rec' \in sessionRecord /\ rec'.turn = rec.turn /\ (Sound(rec) => Sound(rec)')
    BY <1>0, <1>4, <2>1, AdvanceFacts DEF SessionInv
  <2>4. ASSUME NEW w \in {"park", "keep", "cancel"}, o.says = "ok", call' = At(w, t, rec'),
               w = "park" => rec'.ts = "responded", w = "keep" => rec'.ts = "interrupted"
        PROVE  SessionInv'
    <3>1. call' \in Calls /\ call'.turn = t /\ call'.rev = rec'.rev /\ call'.ts = rec'.ts /\ call'.at = w
      BY <2>3, <2>4, CallFields DEF Places
    <3>2. CallOK'
      BY <1>0, <1>2, <1>4, <2>3, <2>4, <3>1 DEF CallOK, InCall
    <3> QED BY <1>2, <1>4, <2>1, <2>4, <3>1, <3>2, CallReturns
  <2>5. CASE call' = Idle
    <3>1. Sound(rec) \/ rec' = rec
      BY <1>2, <1>4 DEF After
    <3> QED BY <1>4, <2>1, <2>5, <3>1, IdleFields, IdleCallOK, CallReturns
  <2> QED BY <1>4, <2>4, <2>5
<1> QED BY <1>1, <1>3, <1>4

-----------------------------------------------------------------------------
(***************************************************************************)
(* The agent by itself.                                                    *)
(***************************************************************************)

\* Turns that run come to an end, and nothing else.
WorldQuiets ==
  /\ world'.twice = world.twice
  /\ \A t \in Turn : \/ world'.run[t] = world.run[t]
                     \/ Running(t) /\ world'.run[t] \in {"answered", "failed", "stopped"}

LEMMA QuietStep ==
  ASSUME SessionInv, Advances, WorldQuiets, team' = team
  PROVE  /\ Shaped(rec)' /\ (Sound(rec) => Sound(rec)')
         /\ TurnsOK' /\ HandlesOK' /\ OutcomeIsTrue' /\ StartedOnce'
         /\ rec' \in sessionRecord /\ rec'.turn = rec.turn
<1>0. TypeOK /\ Shaped(rec) /\ TurnsOK /\ HandlesOK /\ OutcomeIsTrue /\ StartedOnce
  BY DEF SessionInv
<1>1. rec \in sessionRecord /\ rec.rev \in Nat
  BY <1>0 DEF TypeOK, sessionRecord
<1>2. rec' = rec \/ Continues(rec, rec')
  BY DEF Advances
<1>3. rec' \in sessionRecord /\ Shaped(rec)' /\ rec'.turn = rec.turn /\ rec'.used = rec.used
  BY <1>0, <1>1, <1>2 DEF Continues, Sound, Shaped
<1>4. rec'.rev \in Nat /\ rec'.rev >= rec.rev /\ (rec' # rec => rec'.rev > rec.rev)
  BY <1>1, <1>2, <1>3 DEF Continues, sessionRecord
<1>5. ASSUME Sound(rec) PROVE Sound(rec)'
  <2>1. Truthful(rec') /\ Covers(rec')
    BY <1>2, <1>5 DEF Continues, Sound
  <2>2. rec'.turn # Nothing => rec'.turn \in Turn
    BY <1>3 DEF sessionRecord
  <2>3. rec'.turn = Nothing <=> rec'.ts = "none"
    BY <1>3 DEF Shaped
  <2>4. Truthful(rec)'
    BY <2>1, <2>2, <2>3 DEF Truthful, WorldQuiets, Running
  <2>5. Covers(rec)'
    BY <2>1 DEF Covers, WorldQuiets, Running
  <2> QED BY <1>3, <2>4, <2>5 DEF Sound
<1>6. TurnsOK'
  BY <1>0, <1>3 DEF TurnsOK, WorldQuiets, Running, OpenAtTeam
<1>7. OutcomeIsTrue' /\ StartedOnce'
  BY <1>0 DEF OutcomeIsTrue, StartedOnce, WorldQuiets, Running
<1>8. HandlesOK'
  <2>1. team.rev \in Nat /\ \A u \in Turn : team.env[u] \in Nat
    BY <1>0 DEF TypeOK, TeamRecords
  <2>2. \A u \in Turn : Running(u)' => Running(u)
    BY DEF WorldQuiets, Running
  <2> QED BY <1>0, <1>1, <1>3, <1>4, <2>1, <2>2 DEF HandlesOK, OpenAtTeam
<1> QED BY <1>3, <1>5, <1>6, <1>7, <1>8

\* The agent acts while a call may be under way.
LEMMA AgentKeeps ==
  ASSUME SessionInv, WorldQuiets, world' \in Worlds, faults' \in 0..MaxFaults,
         UNCHANGED <<kind, rec, client, team, call, attended, crashes>>
  PROVE  SessionInv'
<1>0. TypeOK /\ (Sound(rec) \/ Abandoned) /\ CallOK
  BY DEF SessionInv
<1>1. /\ Shaped(rec)' /\ (Sound(rec) => Sound(rec)')
      /\ TurnsOK' /\ HandlesOK' /\ OutcomeIsTrue' /\ StartedOnce'
  BY QuietStep DEF Advances
<1>2. TypeOK'
  BY <1>0 DEF TypeOK
<1>3. Abandoned => Abandoned'
  BY <1>1 DEF Abandoned, WorldQuiets, Running
<1>4. CallOK'
  BY <1>0, <1>1 DEF CallOK, InCall, WorldQuiets, Running, OpenAtTeam
<1> QED BY <1>0, <1>1, <1>2, <1>3, <1>4 DEF SessionInv

LEMMA AgentEndsKeeps ==
  ASSUME SessionInv, NEW t \in Turn, AgentEnds(t)
  PROVE  SessionInv'
<1>0. world \in Worlds /\ faults \in 0..MaxFaults
  BY DEF SessionInv, TypeOK
<1>1. PICK end \in {"answered", "failed", "stopped"} : world' = RunIs(world, t, end)
  BY DEF AgentEnds
<1>2. /\ world' \in Worlds /\ world'.twice = world.twice
      /\ world'.run[t] = end /\ \A u \in Turn : u # t => world'.run[u] = world.run[u]
  <2>1. end \in Runs
    BY DEF Runs
  <2> QED BY <1>0, <1>1, <2>1, RunFields
<1>3. WorldQuiets
  BY <1>1, <1>2 DEF WorldQuiets, Running, AgentEnds
<1> QED BY <1>0, <1>2, <1>3, AgentKeeps DEF AgentEnds

LEMMA SessionGoesKeeps ==
  ASSUME SessionInv, SessionGoes
  PROVE  SessionInv'
<1>0. world \in Worlds /\ faults \in 0..MaxFaults
  BY DEF SessionInv, TypeOK
<1>1. world' \in Worlds
  BY <1>0, Zenon DEF SessionGoes, Worlds
<1>2. world'.run = world.run /\ world'.twice = world.twice
  BY <1>0 DEF SessionGoes, Worlds
<1>3. WorldQuiets
  BY <1>2 DEF WorldQuiets
<1>4. faults' \in 0..MaxFaults
  BY <1>0, SessionAssumption DEF SessionGoes
<1> QED BY <1>1, <1>3, <1>4, AgentKeeps DEF SessionGoes

\* The agent is told to stop.
LEMMA InterruptKeeps ==
  ASSUME SessionInv, Interrupt
  PROVE  SessionInv'
<1> DEFINE t == call.turn
<1>0. TypeOK /\ Sound(rec) /\ t \in Turn /\ call.at = "cancel" /\ CallOK
  BY UnderWay DEF Interrupt, SessionInv, InCall
<1>00. rec.turn = t /\ team.turn[t] = "cancelling"
  BY <1>0 DEF CallOK, InCall
<1>1. PICK o \in ByKind(CodexMayInterrupt(call.rev, t), HarnessMayInterrupt(call.rev, t)) :
        \/ /\ o.fault => faults < MaxFaults
           /\ faults' = IF o.fault THEN faults + 1 ELSE faults
           /\ rec' = After(rec, o) /\ client' = o.client
           /\ UNCHANGED <<kind, attended, crashes, team>>
           /\ \/ call' = Idle /\ world' = world
              \/ /\ call' = At("interrupting", t, After(rec, o))
                 /\ \/ world' = world
                    \/ world.run[t] = "running" /\ world' = RunIs(world, t, "stopped")
        \/ \E i \in 1..(Len(o.writes) - 1) : rec' = o.writes[i] /\ Crashed /\ UNCHANGED <<world, team>>
  BY DEF Interrupt, Driver, Drops
<1>2. Extends(rec, o)
  BY <1>0, MayInterruptExtends
<1>3. CASE \E i \in 1..(Len(o.writes) - 1) : rec' = o.writes[i] /\ Crashed /\ UNCHANGED <<world, team>>
  BY <1>0, <1>2, <1>3, CutOff
<1>4. CASE /\ o.fault => faults < MaxFaults
           /\ faults' = IF o.fault THEN faults + 1 ELSE faults
           /\ rec' = After(rec, o) /\ client' = o.client
           /\ UNCHANGED <<kind, attended, crashes, team>>
           /\ \/ call' = Idle /\ world' = world
              \/ /\ call' = At("interrupting", t, After(rec, o))
                 /\ \/ world' = world
                    \/ world.run[t] = "running" /\ world' = RunIs(world, t, "stopped")
  <2>1. Advances /\ client' \in BOOLEAN /\ faults' \in 0..MaxFaults
    BY <1>0, <1>2, <1>4, Returned
  <2>2. world' \in Worlds /\ WorldQuiets
    <3>1. world \in Worlds /\ "stopped" \in Runs
      BY <1>0 DEF TypeOK, Runs
    <3>2. CASE world' = world
      BY <3>1, <3>2 DEF WorldQuiets
    <3>3. CASE world.run[t] = "running" /\ world' = RunIs(world, t, "stopped")
      <4>1. /\ world' \in Worlds /\ world'.twice = world.twice
            /\ world'.run[t] = "stopped" /\ \A u \in Turn : u # t => world'.run[u] = world.run[u]
        BY <1>0, <3>1, <3>3, RunFields
      <4> QED BY <3>3, <4>1 DEF WorldQuiets, Running
    <3> QED BY <1>4, <3>2, <3>3
  <2>3. /\ Shaped(rec)' /\ Sound(rec)' /\ rec' \in sessionRecord /\ rec'.turn = t
        /\ TurnsOK' /\ HandlesOK' /\ OutcomeIsTrue' /\ StartedOnce'
    BY <1>0, <1>00, <1>4, <2>1, <2>2, QuietStep
  <2>4. call' \in Calls /\ CallOK'
    <3>1. CASE call' = Idle
      BY <3>1, IdleFields, IdleCallOK
    <3>2. CASE call' = At("interrupting", t, rec')
      <4>1. call' \in Calls /\ call'.turn = t /\ call'.rev = rec'.rev /\ call'.at = "interrupting"
        BY <1>0, <2>3, <3>2, CallFields DEF Places
      <4>2. CallOK'
        BY <1>0, <1>00, <1>4, <2>3, <4>1 DEF CallOK, InCall
      <4> QED BY <4>1, <4>2
    <3> QED BY <1>4, <3>1, <3>2
  <2>5. TypeOK'
    BY <1>0, <1>4, <2>1, <2>2, <2>3, <2>4 DEF TypeOK
  <2> QED BY <2>3, <2>4, <2>5 DEF SessionInv
<1> QED BY <1>1, <1>3, <1>4

-----------------------------------------------------------------------------
(***************************************************************************)
(* The start of a turn.                                                    *)
(***************************************************************************)

\* A turn on its way to the agent whose envelope the Team does not have.
Unstored(t) == team.turn[t] \in {"prepared", "dispatching"} /\ team.env[t] = 0

\* While such a turn runs, the Team's handle is of an earlier revision.
LEMMA UnstoredTurn ==
  ASSUME SessionInv, NEW t \in Turn, Unstored(t)
  PROVE  /\ t \in rec.used => rec.turn = t /\ team.state = "active" /\ team.rev < rec.rev
         /\ Running(t) => t \in rec.used
         /\ \A u \in Turn : OpenAtTeam(u) => u = t
<1>0. TurnsOK /\ HandlesOK
  BY DEF SessionInv
<1>1. OpenAtTeam(t)
  BY DEF Unstored, OpenAtTeam
<1>2. t \in rec.used => rec.turn = t /\ team.turn[t] = "dispatching"
  BY <1>0, <1>1 DEF TurnsOK, Unstored
<1> QED BY <1>0, <1>1, <1>2 DEF TurnsOK, HandlesOK, Unstored, Running

\* The turn is given up, perhaps with the session.
LEMMA GiveUpKeeps ==
  ASSUME SessionInv, Advances, NEW t \in Turn, Unstored(t), NEW d, d = team \/ d = Held(team, "lost", team.rev),
         GiveUp(d, t), UNCHANGED <<kind, world, attended, crashes>>,
         client' \in BOOLEAN, faults' \in 0..MaxFaults, Sound(rec) \/ rec' = rec
  PROVE  SessionInv'
<1>0. /\ TypeOK /\ Shaped(rec) /\ (Sound(rec) \/ Abandoned) /\ TurnsOK /\ HandlesOK
      /\ team \in TeamRecords /\ team.rev \in Nat
  BY DEF SessionInv, TypeOK, TeamRecords
<1>1. /\ d \in TeamRecords /\ d.state \in {team.state, "lost"} /\ d.rev = team.rev
      /\ d.env = team.env /\ d.turn = team.turn
  <2>1. "lost" \in SessionStates
    BY DEF SessionStates
  <2>2. CASE d = Held(team, "lost", team.rev)
    BY <1>0, <2>1, <2>2, HeldFields
  <2> QED BY <1>0, <2>2
<1>2. /\ team' \in TeamRecords /\ team'.state = d.state /\ team'.rev = d.rev /\ team'.env = d.env
      /\ team'.turn[t] = "indeterminate" /\ \A u \in Turn : u # t => team'.turn[u] = d.turn[u]
  <2>1. team' = markTurnFailure(d, t, "indeterminate") /\ d.turn[t] \in {"prepared", "dispatching"}
    BY <1>1 DEF GiveUp, Unstored
  <2> QED BY <1>1, <2>1, GivenUpFields
<1>3. /\ rec' \in sessionRecord /\ rec'.turn = rec.turn /\ rec'.rev \in Nat /\ rec.rev \in Nat
      /\ rec'.rev >= rec.rev /\ (rec' # rec => rec'.rev > rec.rev)
      /\ Shaped(rec)' /\ (Sound(rec) => Sound(rec)')
  BY <1>0, AdvanceFacts
<1>4. \A u \in Turn : OpenAtTeam(u) => u = t
  BY UnstoredTurn
<1>5. ASSUME team'.state \in {"active", "parked"}, team'.rev = rec'.rev, NEW u \in Turn, Running(u)
      PROVE  OpenAtTeam(u)'
  <2>1. team.state \in {"active", "parked"} /\ team.rev = rec.rev
    BY <1>0, <1>1, <1>2, <1>3, <1>5 DEF HandlesOK
  <2>2. u = t
    BY <1>0, <1>4, <1>5, <2>1 DEF HandlesOK
  <2> QED BY <1>3, <1>5, <2>1, <2>2, UnstoredTurn
<1>6. ASSUME NEW u \in Turn, team'.turn[u] = "dispatching" PROVE FALSE
  BY <1>1, <1>2, <1>4, <1>6 DEF OpenAtTeam
<1>7. TurnsOK' /\ HandlesOK' /\ OutcomeIsTrue' /\ StartedOnce'
  <2>1. team'.rev <= rec'.rev
    BY <1>0, <1>1, <1>2, <1>3 DEF HandlesOK
  <2>2. OpenAtTeam(t)
    BY DEF Unstored, OpenAtTeam
  <2> QED BY <1>1, <1>2, <1>5, <1>6, <2>1, <2>2, TeamStep
<1>8. Sound(rec)' \/ Abandoned'
  <2>1. CASE Abandoned /\ rec' = rec
    BY <1>1, <1>2, <1>3, <2>1, IdleFields DEF Abandoned, GiveUp, Running
  <2> QED BY <1>0, <1>3, <2>1
<1>9. TypeOK' /\ CallOK'
  BY <1>0, <1>2, <1>3, IdleFields, IdleCallOK DEF TypeOK, GiveUp
<1> QED BY <1>3, <1>7, <1>8, <1>9 DEF SessionInv

LEMMA UseSessionKeeps ==
  ASSUME SessionInv, NEW t \in Turn, UseSession(t)
  PROVE  SessionInv'
<1>0. TypeOK /\ Unstored(t) /\ rec' = rec /\ Advances /\ client' \in BOOLEAN /\ faults' \in 0..MaxFaults
  BY DEF SessionInv, UseSession, Dispatchable, Unstored, Advances, TypeOK
<1>1. CASE team.state = "active" /\ UNCHANGED team
           /\ call' = [Idle EXCEPT !.at = "opened", !.turn = t, !.rev = team.rev]
  <2>1. call' \in Calls /\ call'.at = "opened" /\ call'.turn = t /\ call'.rev = team.rev
    BY <1>0, <1>1 DEF Idle, Calls, Places, DriverTurnStates, TypeOK, TeamRecords
  <2>2. CallOK'
    BY <1>0, <1>1, <2>1 DEF CallOK, InCall, Unstored
  <2> QED BY <1>0, <1>1, <2>1, <2>2, CallReturns DEF UseSession
<1>2. CASE GiveUp(team, t)
  BY <1>0, <1>2, GiveUpKeeps DEF UseSession
<1> QED BY <1>1, <1>2 DEF UseSession

LEMMA OpenSessionKeeps ==
  ASSUME SessionInv, NEW t \in Turn, OpenSession(t)
  PROVE  SessionInv'
<1>0. /\ TypeOK /\ Unstored(t) /\ TurnsOK /\ HandlesOK /\ OutcomeIsTrue /\ StartedOnce
      /\ team.state = "none" /\ client \in BOOLEAN
  BY DEF SessionInv, OpenSession, Dispatchable, Unstored, TypeOK
<1>1. PICK o : /\ \E connected \in BOOLEAN : \/ o = Outcome(<<>>, "error", FALSE, TRUE)
                                             \/ o = Outcome(<<NewRecord>>, "ok", connected, FALSE)
               /\ Driver(o, IF o.says = "ok"
                            THEN /\ call' = At("store", t, After(rec, o)) /\ world' = [world EXCEPT !.gone = FALSE]
                                 /\ UNCHANGED team
                            ELSE GiveUp(team, t) /\ UNCHANGED world)
  <2>1. PICK o \in ByKind(CodexStartSession, HarnessStartSession) :
          Driver(o, IF o.says = "ok"
                    THEN /\ call' = At("store", t, After(rec, o)) /\ world' = [world EXCEPT !.gone = FALSE]
                         /\ UNCHANGED team
                    ELSE GiveUp(team, t) /\ UNCHANGED world)
    BY DEF OpenSession
  <2>2. \E connected \in BOOLEAN : \/ o = Outcome(<<>>, "error", FALSE, TRUE)
                                   \/ o = Outcome(<<NewRecord>>, "ok", connected, FALSE)
    BY DEF ByKind, CodexStartSession, HarnessStartSession, Fails, Writes
  <2> QED BY <2>1, <2>2
<1>2. CASE o = Outcome(<<>>, "error", FALSE, TRUE)
  <2>1. Extends(rec, o)
    BY <1>2, NothingWritten
  <2>2. o.writes = <<>> /\ o.says = "error" /\ After(rec, o) = rec
    BY <1>2 DEF Outcome, After
  <2>3. /\ o.fault => faults < MaxFaults
        /\ faults' = IF o.fault THEN faults + 1 ELSE faults
        /\ rec' = After(rec, o) /\ client' = o.client
        /\ GiveUp(team, t) /\ UNCHANGED <<kind, world, attended, crashes>>
    BY <1>1, <2>2 DEF Driver
  <2>4. Advances /\ client' \in BOOLEAN /\ faults' \in 0..MaxFaults
    BY <1>0, <2>1, <2>2, <2>3, Returned
  <2> QED BY <1>0, <2>2, <2>3, <2>4, GiveUpKeeps
<1>3. ASSUME NEW connected \in BOOLEAN, o = Outcome(<<NewRecord>>, "ok", connected, FALSE)
      PROVE  SessionInv'
  <2>1. o.writes = <<NewRecord>> /\ o.says = "ok" /\ After(rec, o) = NewRecord /\ o.client = connected /\ ~o.fault
    BY <1>3 DEF Outcome, After
  <2>2. /\ rec' = NewRecord /\ client' = connected /\ faults' = faults
        /\ call' = At("store", t, NewRecord) /\ world' = [world EXCEPT !.gone = FALSE]
        /\ UNCHANGED <<kind, attended, crashes, team>>
    <3>1. Len(o.writes) = 1
      BY <2>1
    <3> QED BY <1>1, <2>1, <3>1 DEF Driver
  <2>3. /\ rec'.rev = 1 /\ rec'.state = "active" /\ rec'.turn = Nothing /\ rec'.ts = "none" /\ rec'.used = {}
        /\ rec' \in sessionRecord
    <3>1. NewRecord \in sessionRecord
      <4>1. 1 \in Nat /\ {} \in SUBSET Turn
        OBVIOUS
      <4> QED BY <4>1, Zenon DEF NewRecord, Unused, sessionRecord, SessionStates, DriverTurnStates
    <3> QED BY <2>2, <3>1 DEF NewRecord, Unused
  <2>4. world' \in Worlds /\ world'.run = world.run /\ world'.twice = world.twice
    <3>1. world \in Worlds
      BY <1>0 DEF TypeOK
    <3>2. world' \in Worlds
      BY <2>2, <3>1, Zenon DEF Worlds
    <3> QED BY <2>2, <3>1, <3>2 DEF Worlds
  <2>5. rec.used = {} /\ team.rev = 0 /\ \A u \in Turn : team.env[u] = 0
    BY <1>0 DEF HandlesOK
  <2>6. \A u \in Turn : world.run[u] = "none"
    BY <1>0, <2>5 DEF TurnsOK
  <2>7. Shaped(rec)' /\ Sound(rec)'
    BY <2>3, <2>4, <2>6 DEF Shaped, Sound, Truthful, Covers, Running
  <2>8. TurnsOK'
    BY <1>0, <2>2, <2>3, <2>4, <2>5, <2>6, SessionAssumption DEF TurnsOK, OpenAtTeam
  <2>9. HandlesOK'
    BY <1>0, <2>2, <2>3, <2>4, <2>5, <2>6, SessionAssumption DEF HandlesOK, Running
  <2>10. OutcomeIsTrue' /\ StartedOnce'
    BY <1>0, <2>2, <2>4 DEF OutcomeIsTrue, StartedOnce
  <2>11. call' \in Calls /\ call'.at = "store" /\ call'.turn = t /\ call'.rev = rec'.rev
    <3>1. call' = At("store", t, rec')
      BY <2>2
    <3> QED BY <2>3, <3>1, CallFields DEF Places
  <2>12. CallOK'
    BY <1>0, <2>2, <2>4, <2>6, <2>7, <2>11 DEF CallOK, InCall, Unstored, Running
  <2>13. TypeOK'
    BY <1>0, <2>2, <2>3, <2>4, <2>11 DEF TypeOK
  <2> QED BY <2>7, <2>8, <2>9, <2>10, <2>12, <2>13 DEF SessionInv
<1> QED BY <1>1, <1>2, <1>3

LEMMA ResumeSessionKeeps ==
  ASSUME SessionInv, NEW t \in Turn, ResumeSession(t)
  PROVE  SessionInv'
<1>0. TypeOK /\ Unstored(t) /\ HandlesOK /\ TurnsOK /\ (Sound(rec) \/ Abandoned) /\ team.state = "parked"
  BY DEF SessionInv, ResumeSession, Dispatchable, Unstored
<1>1. PICK o \in ByKind(CodexResumeSession(team.rev), HarnessResumeSession(team.rev)) :
        Driver(o, IF o.says = "ok" THEN Returns(o, "store", t)
                  ELSE /\ GiveUp(IF o.says = "lost" THEN Held(team, "lost", team.rev) ELSE team, t)
                       /\ UNCHANGED world)
  BY DEF ResumeSession
<1>2. /\ Extends(rec, o) /\ (Sound(rec) \/ o.writes = <<>>)
      /\ o.says = "ok" => Sound(rec) /\ rec.rev = team.rev
  <2>1. CASE Sound(rec)
    <3>1. o.says = "ok" => rec.rev = team.rev
      <4>1. CASE rec.rev # team.rev
        <5>1. o = Outcome(<<>>, "conflict", client, FALSE)
          BY <1>1, <4>1 DEF ByKind, CodexResumeSession, HarnessResumeSession, Refused, Stale
        <5> QED BY <5>1 DEF Outcome
      <4> QED BY <4>1
    <3> QED BY <1>0, <2>1, <3>1, ResumeExtends
  <2>2. CASE Abandoned
    <3>1. kind = "harness" /\ rec.rev # team.rev
      BY <1>0, <2>2 DEF Abandoned, TypeOK, TeamRecords, sessionRecord
    <3> QED BY <1>0, <3>1, StaleRefused
  <2> QED BY <1>0, <2>1, <2>2
<1>3. CASE \E i \in 1..(Len(o.writes) - 1) : rec' = o.writes[i] /\ Crashed /\ UNCHANGED <<world, team>>
  BY <1>2, <1>3, CutOff
<1>4. CASE /\ o.fault => faults < MaxFaults
           /\ faults' = IF o.fault THEN faults + 1 ELSE faults
           /\ rec' = After(rec, o)
           /\ client' = o.client
           /\ IF o.says = "ok" THEN Returns(o, "store", t)
              ELSE /\ GiveUp(IF o.says = "lost" THEN Held(team, "lost", team.rev) ELSE team, t)
                   /\ UNCHANGED world
           /\ UNCHANGED <<kind, attended, crashes>>
  <2>1. Advances /\ client' \in BOOLEAN /\ faults' \in 0..MaxFaults
    BY <1>0, <1>2, <1>4, Returned
  <2>2. world' = world
    BY <1>4 DEF Returns
  <2>3. rec' \in sessionRecord /\ (Sound(rec) => Sound(rec)')
    BY <1>0, <2>1, <2>2, AdvanceFacts DEF SessionInv
  <2>4. CASE o.says = "ok"
    <3>1. team' = team /\ call' = At("store", t, rec')
      BY <1>4, <2>4 DEF Returns
    <3>2. call' \in Calls /\ call'.turn = t /\ call'.rev = rec'.rev /\ call'.at = "store"
      BY <2>3, <3>1, CallFields DEF Places
    <3>3. \A u \in Turn : ~Running(u)
      BY <1>0, <1>2, <2>4, UnstoredTurn DEF HandlesOK
    <3>4. CallOK'
      BY <1>0, <1>2, <2>2, <2>3, <2>4, <3>1, <3>2, <3>3 DEF CallOK, InCall, Unstored, Running
    <3> QED BY <1>2, <1>4, <2>1, <2>2, <2>4, <3>1, <3>2, <3>4, CallReturns
  <2>5. CASE o.says # "ok"
    <3> DEFINE d == IF o.says = "lost" THEN Held(team, "lost", team.rev) ELSE team
    <3>1. GiveUp(d, t) /\ (d = team \/ d = Held(team, "lost", team.rev)) /\ (Sound(rec) \/ rec' = rec)
      BY <1>2, <1>4, <2>5 DEF After
    <3> HIDE DEF d
    <3> QED BY <1>0, <1>4, <2>1, <2>2, <3>1, GiveUpKeeps
  <2> QED BY <2>4, <2>5
<1> QED BY <1>1, <1>3, <1>4 DEF Driver

\* An intent is stored only while no turn runs, for a turn that never ran.
LEMMA IntentKeeps ==
  ASSUME SessionInv, call.at = "start", rec.rev = call.rev, rec.state = "active", rec.turn # call.turn,
         ~OpenTurn(rec.ts), rec' = Intended(rec, call.turn), call' = At("launch", call.turn, rec'),
         client' \in BOOLEAN, faults' \in 0..MaxFaults, UNCHANGED <<kind, world, team, attended, crashes>>
  PROVE  SessionInv'
<1> DEFINE t == call.turn
<1>0. /\ TypeOK /\ Shaped(rec) /\ (Sound(rec) \/ Abandoned) /\ TurnsOK /\ HandlesOK /\ OutcomeIsTrue /\ StartedOnce
      /\ CallOK /\ t \in Turn /\ rec \in sessionRecord /\ rec.rev \in Nat
      /\ team.turn[t] = "dispatching" /\ team.env[t] = 0 /\ team.state = "active" /\ call.rev = team.rev
  BY DEF SessionInv, CallOK, InCall, TypeOK, sessionRecord
<1>1. Sound(rec)
  BY <1>0 DEF Abandoned, TypeOK, TeamRecords
<1>2. \A u \in Turn : ~Running(u)
  BY <1>1 DEF Sound, Covers
<1>3. t \notin rec.used /\ world.run[t] = "none"
  BY <1>0, UnstoredTurn DEF Unstored, TurnsOK
<1>4. /\ rec' \in sessionRecord /\ rec'.rev = rec.rev + 1 /\ rec'.state = "active"
      /\ rec'.turn = t /\ rec'.ts = "dispatching" /\ rec'.used = rec.used \cup {t}
  BY <1>0, IntendedFields
<1>5. call' \in Calls /\ call'.at = "launch" /\ call'.turn = t /\ call'.rev = rec'.rev
  BY <1>0, <1>4, CallFields DEF Places
<1> HIDE DEF t
<1>6. Shaped(rec)' /\ Sound(rec)'
  <2>1. Shaped(rec)'
    BY <1>0, <1>4, SessionAssumption DEF Shaped
  <2>2. Truthful(rec)' /\ Covers(rec)'
    BY <1>2, <1>4 DEF Truthful, Covers, Running
  <2> QED BY <2>1, <2>2 DEF Sound
<1>7. TurnsOK'
  <2>1. \A u \in Turn : OpenAtTeam(u) => u = t
    BY <1>0, UnstoredTurn DEF Unstored
  <2> QED BY <1>0, <1>3, <1>4, <2>1 DEF TurnsOK, OpenAtTeam
<1>8. HandlesOK'
  <2>1. team.rev \in Nat /\ \A u \in Turn : team.env[u] \in Nat
    BY <1>0 DEF TypeOK, TeamRecords
  <2> QED BY <1>0, <1>2, <1>4, <2>1 DEF HandlesOK, OpenAtTeam, Running
<1>9. OutcomeIsTrue' /\ StartedOnce'
  BY <1>0 DEF OutcomeIsTrue, StartedOnce
<1>10. CallOK'
  BY <1>0, <1>3, <1>4, <1>5, <1>6 DEF CallOK, InCall
<1>11. TypeOK'
  BY <1>0, <1>4, <1>5 DEF TypeOK
<1> QED BY <1>6, <1>7, <1>8, <1>9, <1>10, <1>11 DEF SessionInv

\* A turn that was recovered, or found after a launch that failed.
LEMMA StartedKeeps ==
  ASSUME SessionInv, Sound(rec), Advances, InCall({"start", "launched", "unsure"}), rec.turn = call.turn,
         call' = At("started", call.turn, rec'),
         client' \in BOOLEAN, faults' \in 0..MaxFaults, UNCHANGED <<kind, world, team, attended, crashes>>
  PROVE  SessionInv'
<1>0. /\ TypeOK /\ Shaped(rec) /\ call.turn \in Turn
      /\ team.turn[call.turn] = "dispatching" /\ team.env[call.turn] = 0 /\ team.state = "active"
  BY DEF SessionInv, CallOK, InCall
<1>1. rec' \in sessionRecord /\ rec'.turn = rec.turn /\ Sound(rec)'
  BY <1>0, AdvanceFacts
<1>2. call' \in Calls /\ call'.at = "started" /\ call'.turn = call.turn /\ call'.rev = rec'.rev
  BY <1>0, <1>1, CallFields DEF Places
<1>3. CallOK'
  BY <1>0, <1>1, <1>2 DEF CallOK, InCall
<1> QED BY <1>2, <1>3, CallReturns

LEMMA StartTurnKeeps ==
  ASSUME SessionInv, StartTurn
  PROVE  SessionInv'
<1> DEFINE t == call.turn
           recovers == ByKind(CodexRecovers(call.rev, t), HarnessRecovers(call.rev, t))
           outcomes == IF recovers THEN ByKind(recoverStartedTurn, Answers(FALSE))
                       ELSE ByKind(CodexIntends(call.rev, t), HarnessIntends(call.rev, t))
<1>0. /\ TypeOK /\ (Sound(rec) \/ Abandoned) /\ CallOK /\ HandlesOK /\ call.at = "start" /\ t \in Turn
      /\ client \in BOOLEAN /\ kind \in {"codex", "harness"}
      /\ team.turn[t] = "dispatching" /\ team.env[t] = 0 /\ team.state = "active" /\ call.rev = team.rev
  BY SessionAssumption DEF SessionInv, CallOK, InCall, StartTurn, TypeOK
<1>1. PICK o \in outcomes :
        Driver(o, IF o.says = "ok" THEN Returns(o, IF recovers THEN "started" ELSE "launch", t)
                  ELSE GiveUp(team, t) /\ UNCHANGED world)
  BY DEF StartTurn
<1>2. recovers => rec.turn = t /\ kind = "codex"
  <2>1. kind = "harness" => ~HarnessRecovers(call.rev, t)
    BY <1>0, UnstoredTurn DEF HarnessRecovers, Stale, HandlesOK, TypeOK, TeamRecords, sessionRecord
  <2> QED BY <1>0, <2>1 DEF ByKind, CodexRecovers
<1>3. CASE recovers
  <2>1. Sound(rec) /\ o \in recoverStartedTurn
    BY <1>0, <1>2, <1>3 DEF Abandoned, ByKind
  <2>2. Extends(rec, o)
    BY <1>0, <2>1, RecoverExtends
  <2>3. CASE \E i \in 1..(Len(o.writes) - 1) : rec' = o.writes[i] /\ Crashed /\ UNCHANGED <<world, team>>
    BY <2>1, <2>2, <2>3, CutOff
  <2>4. CASE /\ o.fault => faults < MaxFaults
             /\ faults' = IF o.fault THEN faults + 1 ELSE faults
             /\ rec' = After(rec, o) /\ client' = o.client
             /\ \/ o.says = "ok" /\ Returns(o, "started", t)
                \/ GiveUp(team, t) /\ UNCHANGED world
             /\ UNCHANGED <<kind, attended, crashes>>
    <3>1. Advances /\ client' \in BOOLEAN /\ faults' \in 0..MaxFaults
      BY <1>0, <2>1, <2>2, <2>4, Returned
    <3>2. CASE Returns(o, "started", t)
      <4>1. call' = At("started", t, rec') /\ UNCHANGED <<world, team>>
        BY <2>4, <3>2 DEF Returns
      <4> QED BY <1>0, <1>2, <1>3, <2>1, <2>4, <3>1, <4>1, StartedKeeps DEF InCall
    <3>3. CASE GiveUp(team, t) /\ UNCHANGED world
      BY <1>0, <2>1, <2>4, <3>1, <3>3, GiveUpKeeps DEF Unstored
    <3> QED BY <2>4, <3>2, <3>3
  <2> QED BY <1>1, <1>3, <2>3, <2>4 DEF Driver
<1>4. CASE ~recovers
  <2>1. \/ o = Outcome(<<>>, "conflict", client, FALSE)
        \/ /\ rec.rev = call.rev /\ rec.state = "active" /\ rec.turn # t /\ ~OpenTurn(rec.ts)
           /\ \E c \in BOOLEAN : o = Outcome(<<Intended(rec, t)>>, "ok", c, FALSE)
    BY <1>0, <1>4 DEF ByKind, CodexIntends, HarnessIntends, Refused, Writes, Stale
  <2>2. CASE o = Outcome(<<>>, "conflict", client, FALSE)
    <3>1. Extends(rec, o)
      BY <1>0, <2>2, NothingWritten
    <3>2. o.writes = <<>> /\ o.says = "conflict" /\ After(rec, o) = rec
      BY <2>2 DEF Outcome, After
    <3>3. /\ o.fault => faults < MaxFaults
          /\ faults' = IF o.fault THEN faults + 1 ELSE faults
          /\ rec' = After(rec, o) /\ client' = o.client
          /\ GiveUp(team, t) /\ UNCHANGED <<kind, world, attended, crashes>>
      BY <1>1, <3>2 DEF Driver
    <3>4. Advances /\ client' \in BOOLEAN /\ faults' \in 0..MaxFaults
      BY <1>0, <3>1, <3>2, <3>3, Returned
    <3> QED BY <1>0, <3>2, <3>3, <3>4, GiveUpKeeps DEF Unstored
  <2>3. ASSUME NEW c \in BOOLEAN, o = Outcome(<<Intended(rec, t)>>, "ok", c, FALSE),
               rec.rev = call.rev, rec.state = "active", rec.turn # t, ~OpenTurn(rec.ts)
        PROVE  SessionInv'
    <3>1. /\ Len(o.writes) = 1 /\ o.says = "ok" /\ After(rec, o) = Intended(rec, t)
          /\ o.client = c /\ ~o.fault
      BY <2>3 DEF Outcome, After
    <3>2. /\ faults' = faults /\ rec' = Intended(rec, t) /\ client' = c
          /\ call' = At("launch", t, Intended(rec, t)) /\ UNCHANGED <<kind, world, team, attended, crashes>>
      BY <1>1, <1>4, <3>1 DEF Driver, Returns
    <3>3. client' \in BOOLEAN /\ faults' \in 0..MaxFaults /\ call' = At("launch", t, rec')
      BY <1>0, <3>2 DEF TypeOK
    <3> QED BY <1>0, <2>3, <3>2, <3>3, IntentKeeps
  <2> QED BY <2>1, <2>2, <2>3
<1> QED BY <1>3, <1>4

\* Before the launch nothing runs, and the turn is the only one that may.
LEMMA BeforeLaunch ==
  ASSUME SessionInv, call.at = "launch"
  PROVE  /\ TypeOK /\ Sound(rec) /\ call.turn \in Turn /\ rec.turn = call.turn /\ rec.ts = "dispatching"
         /\ rec.state = "active" /\ Unstored(call.turn) /\ team.turn[call.turn] = "dispatching"
         /\ team.rev < rec.rev /\ team.state = "active"
         /\ call.rev = rec.rev /\ call.turn \in rec.used
         /\ world.run[call.turn] = "none" /\ \A u \in Turn : ~Running(u)
<1>1. /\ TypeOK /\ Sound(rec) /\ call.turn \in Turn /\ rec.turn = call.turn /\ rec.ts = "dispatching"
      /\ rec.state = "active" /\ Unstored(call.turn) /\ team.turn[call.turn] = "dispatching"
      /\ call.rev = rec.rev /\ world.run[call.turn] = "none"
  BY DEF SessionInv, CallOK, InCall, Unstored
<1>2. call.turn \in rec.used
  BY <1>1, SessionAssumption DEF Sound, Shaped
<1>3. team.rev < rec.rev /\ team.state = "active"
  BY <1>1, <1>2, UnstoredTurn
<1>4. \A u \in Turn : ~Running(u)
  BY <1>1 DEF Sound, Covers, Running
<1> QED BY <1>1, <1>2, <1>3, <1>4

\* The agent has the turn, or has it not.
LEMMA LaunchedWorld ==
  ASSUME SessionInv, call.at = "launch", world' = world \/ world' = Launches(call.turn)
  PROVE  /\ world' \in Worlds /\ world'.twice = world.twice
         /\ \A u \in Turn : u # call.turn => world'.run[u] = world.run[u]
         /\ world'.run[call.turn] = "running" \/ world' = world
         /\ world' = Launches(call.turn) => world'.run[call.turn] = "running"
<1>1. world \in Worlds /\ call.turn \in Turn /\ world.run[call.turn] = "none" /\ "running" \in Runs
  BY BeforeLaunch DEF TypeOK, Runs
<1>2. Launches(call.turn) = RunIs(world, call.turn, "running")
  BY <1>1 DEF Launches
<1>3. CASE world' = Launches(call.turn)
  <2>1. world' = RunIs(world, call.turn, "running")
    BY <1>2, <1>3
  <2> QED BY <1>1, <2>1, RunFields
<1>4. CASE world' = world /\ world' # Launches(call.turn)
  BY <1>1, <1>4
<1> QED BY <1>3, <1>4

\* The launch itself, whatever becomes of the call.
LEMMA LaunchStep ==
  ASSUME SessionInv, call.at = "launch", world' = world \/ world' = Launches(call.turn),
         rec' \in sessionRecord, rec'.turn = rec.turn, rec'.used = rec.used, rec'.rev >= rec.rev,
         team' = team \/ team' = markTurnFailure(team, call.turn, "indeterminate")
  PROVE  TurnsOK' /\ HandlesOK' /\ OutcomeIsTrue' /\ StartedOnce' /\ team' \in TeamRecords
         /\ team'.rev = team.rev /\ team'.env = team.env
<1> DEFINE t == call.turn
<1>0. /\ TypeOK /\ TurnsOK /\ HandlesOK /\ OutcomeIsTrue /\ StartedOnce /\ team \in TeamRecords
      /\ team.rev \in Nat /\ rec.rev \in Nat /\ rec'.rev \in Nat
  BY DEF SessionInv, TypeOK, TeamRecords, sessionRecord
<1>1. /\ Sound(rec) /\ t \in Turn /\ rec.turn = t /\ Unstored(t) /\ team.turn[t] = "dispatching"
      /\ team.rev < rec.rev /\ team.state = "active" /\ t \in rec.used
      /\ world.run[t] = "none" /\ \A u \in Turn : ~Running(u)
  BY BeforeLaunch
<1>2. /\ world'.twice = world.twice /\ \A u \in Turn : u # t => world'.run[u] = world.run[u]
  BY LaunchedWorld
<1>3. /\ team' \in TeamRecords /\ team'.state = team.state /\ team'.rev = team.rev /\ team'.env = team.env
      /\ team'.turn[t] \in {"dispatching", "indeterminate"}
      /\ \A u \in Turn : u # t => team'.turn[u] = team.turn[u]
  <2>1. CASE team' = team
    BY <1>0, <1>1, <2>1
  <2>2. CASE team' = markTurnFailure(team, call.turn, "indeterminate")
    BY <1>0, <1>1, <2>2, GivenUpFields
  <2> QED BY <2>1, <2>2
<1>4. \A u \in Turn : OpenAtTeam(u) => u = t
  BY <1>1, UnstoredTurn
<1> HIDE DEF t
<1>5. TurnsOK'
  BY <1>0, <1>1, <1>2, <1>3, <1>4 DEF TurnsOK, OpenAtTeam
<1>6. HandlesOK'
  <2>1. team'.rev < rec'.rev
    BY <1>0, <1>1, <1>3
  <2>2. \A u \in Turn : team'.env[u] <= rec'.rev
    BY <1>0, <1>3 DEF HandlesOK, TypeOK, TeamRecords
  <2> QED BY <1>0, <1>1, <1>3, <2>1, <2>2 DEF HandlesOK
<1>7. OutcomeIsTrue' /\ StartedOnce'
  BY <1>0, <1>2, <1>3 DEF OutcomeIsTrue, StartedOnce
<1> QED BY <1>3, <1>5, <1>6, <1>7

\* The record of the intent covers the launched turn.
LEMMA LaunchCovered ==
  ASSUME SessionInv, call.at = "launch", world' = world \/ world' = Launches(call.turn), rec' = rec
  PROVE  Shaped(rec)' /\ Sound(rec)'
<1>1. Sound(rec) /\ rec.turn = call.turn /\ rec.ts = "dispatching" /\ rec.state = "active"
      /\ \A u \in Turn : ~Running(u)
  BY BeforeLaunch
<1>2. \A u \in Turn : u # call.turn => world'.run[u] = world.run[u]
  BY LaunchedWorld
<1>3. Truthful(rec)' /\ Covers(rec)'
  BY <1>1, <1>2 DEF Truthful, Covers, Running, OpenTurn
<1> QED BY <1>1, <1>3 DEF Sound, Shaped

LEMMA LaunchKeeps ==
  ASSUME SessionInv, Launch
  PROVE  SessionInv'
<1> DEFINE t == call.turn
<1>0. /\ call.at = "launch" /\ world' = Launches(t) /\ call' = GoesTo("launched")
      /\ UNCHANGED <<kind, rec, client, team, attended, crashes, faults>>
  BY DEF Launch
<1>1. /\ TypeOK /\ t \in Turn /\ rec.turn = t /\ rec.ts = "dispatching" /\ rec.state = "active"
      /\ Unstored(t) /\ team.turn[t] = "dispatching" /\ team.state = "active" /\ call.rev = rec.rev
  BY <1>0, BeforeLaunch
<1>2. rec \in sessionRecord /\ rec.rev \in Nat /\ call \in Calls
  BY <1>1 DEF TypeOK, sessionRecord
<1>3. TurnsOK' /\ HandlesOK' /\ OutcomeIsTrue' /\ StartedOnce'
  BY <1>0, <1>2, LaunchStep
<1>4. Shaped(rec)' /\ Sound(rec)'
  BY <1>0, LaunchCovered
<1>5. world' \in Worlds /\ world'.run[t] = "running"
  BY <1>0, LaunchedWorld
<1>6. call' \in Calls /\ call'.at = "launched" /\ call'.turn = t /\ call'.rev = call.rev
  BY <1>0, <1>2, NextPlace DEF Places
<1>7. CallOK'
  BY <1>0, <1>1, <1>4, <1>5, <1>6 DEF CallOK, InCall, Unstored
<1>8. TypeOK'
  BY <1>0, <1>1, <1>5, <1>6 DEF TypeOK
<1> QED BY <1>3, <1>4, <1>7, <1>8 DEF SessionInv

LEMMA LaunchFailsKeeps ==
  ASSUME SessionInv, LaunchFails
  PROVE  SessionInv'
<1> DEFINE t == call.turn
<1>0. /\ call.at = "launch" /\ (world' = world \/ world' = Launches(t)) /\ faults' \in 0..MaxFaults
      /\ UNCHANGED <<kind, attended, crashes>>
  BY SessionAssumption DEF LaunchFails, SessionInv, TypeOK
<1>1. /\ TypeOK /\ Sound(rec) /\ t \in Turn /\ rec.turn = t /\ rec.ts = "dispatching" /\ rec.state = "active"
      /\ Unstored(t) /\ team.turn[t] = "dispatching" /\ team.rev < rec.rev /\ team.state = "active"
      /\ call.rev = rec.rev /\ \A u \in Turn : ~Running(u)
  BY <1>0, BeforeLaunch
<1>2. rec \in sessionRecord /\ rec.rev \in Nat /\ call \in Calls /\ client \in BOOLEAN
  BY <1>1 DEF TypeOK, sessionRecord
<1>3. world' \in Worlds /\ \A u \in Turn : u # t => world'.run[u] = world.run[u]
  BY <1>0, LaunchedWorld
<1>4. CASE client' = FALSE /\ call' = GoesTo("unsure") /\ UNCHANGED <<rec, team>>
  <2>1. TurnsOK' /\ HandlesOK' /\ OutcomeIsTrue' /\ StartedOnce'
    BY <1>0, <1>2, <1>4, LaunchStep
  <2>2. Shaped(rec)' /\ Sound(rec)'
    BY <1>0, <1>4, LaunchCovered
  <2>3. call' \in Calls /\ call'.at = "unsure" /\ call'.turn = t /\ call'.rev = call.rev
    BY <1>2, <1>4, NextPlace DEF Places
  <2>4. CallOK'
    BY <1>1, <1>4, <2>2, <2>3 DEF CallOK, InCall, Unstored
  <2>5. TypeOK'
    BY <1>0, <1>1, <1>3, <1>4, <2>3 DEF TypeOK
  <2> QED BY <2>1, <2>2, <2>4, <2>5 DEF SessionInv
<1>5. CASE GiveUp(team, t) /\ UNCHANGED <<rec, client>>
  <2>0. call' = Idle /\ team' = markTurnFailure(team, t, "indeterminate")
    BY <1>5 DEF GiveUp
  <2>1. TurnsOK' /\ HandlesOK' /\ OutcomeIsTrue' /\ StartedOnce' /\ team' \in TeamRecords
    BY <1>0, <1>2, <1>5, <2>0, LaunchStep
  <2>2. Shaped(rec)' /\ Sound(rec)'
    BY <1>0, <1>5, LaunchCovered
  <2>3. CallOK' /\ call' \in Calls
    BY <2>0, IdleFields, IdleCallOK
  <2>4. TypeOK'
    BY <1>0, <1>1, <1>3, <1>5, <2>1, <2>3 DEF TypeOK
  <2> QED BY <2>1, <2>2, <2>3, <2>4 DEF SessionInv
<1>6. CASE kind = "harness" /\ rec' = Turned(rec, "failed") /\ GiveUp(team, t) /\ UNCHANGED client
  <2>0. call' = Idle /\ team' = markTurnFailure(team, t, "indeterminate")
    BY <1>6 DEF GiveUp
  <2>1. /\ rec' \in sessionRecord /\ rec'.rev = rec.rev + 1 /\ rec'.state = "active"
        /\ rec'.turn = t /\ rec'.ts = "failed" /\ rec'.used = rec.used
    <3>1. "failed" \in DriverTurnStates
      BY DEF DriverTurnStates
    <3> QED BY <1>1, <1>2, <1>6, <3>1, TurnedFields
  <2>2. /\ TurnsOK' /\ HandlesOK' /\ OutcomeIsTrue' /\ StartedOnce' /\ team' \in TeamRecords
        /\ team'.rev = team.rev /\ team'.env = team.env
    <3>1. rec'.turn = rec.turn /\ rec'.rev >= rec.rev
      BY <1>1, <1>2, <2>1
    <3> QED BY <1>0, <2>0, <2>1, <3>1, LaunchStep
  <2>3. Shaped(rec)'
    BY <1>1, <1>2, <2>1, SessionAssumption DEF Sound, Shaped
  <2>4. Abandoned'
    <3>1. team.rev \in Nat /\ \A u \in Turn : team.env[u] \in Nat /\ team.env[u] <= rec.rev
      BY <1>1 DEF SessionInv, HandlesOK, TypeOK, TeamRecords
    <3>2. team'.rev < rec'.rev /\ \A u \in Turn : team'.env[u] < rec'.rev
      BY <1>1, <1>2, <2>1, <2>2, <3>1
    <3>3. \A u \in Turn : Running(u)' => rec'.turn = u
      BY <1>1, <1>3, <2>1 DEF Running
    <3> QED BY <1>0, <1>6, <2>0, <2>1, <2>3, <3>2, <3>3, IdleFields DEF Abandoned
  <2>5. CallOK' /\ call' \in Calls
    BY <2>0, IdleFields, IdleCallOK
  <2>6. TypeOK'
    BY <1>0, <1>1, <1>3, <1>6, <2>1, <2>2, <2>5 DEF TypeOK
  <2> QED BY <2>2, <2>3, <2>4, <2>5, <2>6 DEF SessionInv
<1> QED BY <1>4, <1>5, <1>6 DEF LaunchFails

LEMMA LaunchedKeeps ==
  ASSUME SessionInv, Launched
  PROVE  SessionInv'
<1> DEFINE t == call.turn
<1>0. /\ TypeOK /\ Sound(rec) /\ t \in Turn /\ rec.turn = t /\ call.at = "launched" /\ rec.state = "active"
      /\ world.run[t] # "none" /\ rec \in sessionRecord
  BY DEF SessionInv, Launched, CallOK, InCall, TypeOK
<1>1. /\ rec' = Identified(rec, "active") /\ call' = At("started", t, rec')
      /\ UNCHANGED <<kind, world, client, team, attended, crashes, faults>>
  BY DEF Launched
<1>2. /\ rec' \in sessionRecord /\ rec'.rev = rec.rev + 1 /\ rec'.state = rec.state
      /\ rec'.turn = rec.turn /\ rec'.ts = "active" /\ rec'.used = rec.used
  <2>1. "active" \in DriverTurnStates
    BY DEF DriverTurnStates
  <2> QED BY <1>0, <1>1, <2>1, IdentifiedFields
<1>3. Continues(rec, rec')
  <2>1. Truthful(rec')
    BY <1>2 DEF Truthful
  <2>2. Covers(rec')
    BY <1>0, <1>2 DEF Covers, Sound, OpenTurn
  <2> QED BY <1>0, <1>2, <2>1, <2>2, Rewritten, SessionAssumption
<1>4. Advances /\ client' \in BOOLEAN /\ faults' \in 0..MaxFaults
  BY <1>0, <1>1, <1>3 DEF Advances, TypeOK
<1> QED BY <1>0, <1>1, <1>4, StartedKeeps DEF InCall

LEMMA LaunchUnsureKeeps ==
  ASSUME SessionInv, LaunchUnsure
  PROVE  SessionInv'
<1> DEFINE t == call.turn
<1>0. /\ TypeOK /\ Sound(rec) /\ t \in Turn /\ rec.turn = t /\ call.at = "unsure" /\ Unstored(t)
  BY DEF SessionInv, LaunchUnsure, CallOK, InCall, Unstored
<1>1. PICK o \in reconcileStartError :
        Driver(o, IF o.says = "ok" THEN Returns(o, "started", t) ELSE GiveUp(team, t) /\ UNCHANGED world)
  BY DEF LaunchUnsure
<1>2. Extends(rec, o)
  BY <1>0, UnsureExtends
<1>3. CASE \E i \in 1..(Len(o.writes) - 1) : rec' = o.writes[i] /\ Crashed /\ UNCHANGED <<world, team>>
  BY <1>0, <1>2, <1>3, CutOff
<1>4. CASE /\ o.fault => faults < MaxFaults
           /\ faults' = IF o.fault THEN faults + 1 ELSE faults
           /\ rec' = After(rec, o) /\ client' = o.client
           /\ \/ Returns(o, "started", t)
              \/ GiveUp(team, t) /\ UNCHANGED world
           /\ UNCHANGED <<kind, attended, crashes>>
  <2>1. Advances /\ client' \in BOOLEAN /\ faults' \in 0..MaxFaults
    BY <1>0, <1>2, <1>4, Returned
  <2>2. CASE Returns(o, "started", t)
    <3>1. call' = At("started", t, rec') /\ UNCHANGED <<world, team>>
      BY <1>4, <2>2 DEF Returns
    <3> QED BY <1>0, <1>4, <2>1, <3>1, StartedKeeps DEF InCall
  <2>3. CASE GiveUp(team, t) /\ UNCHANGED world
    BY <1>0, <1>4, <2>1, <2>3, GiveUpKeeps
  <2> QED BY <1>4, <2>2, <2>3
<1> QED BY <1>1, <1>3, <1>4 DEF Driver

-----------------------------------------------------------------------------
(***************************************************************************)
(* What the Team stores.                                                   *)
(***************************************************************************)

\* A record the Team may store for turn t, whatever it does next.
Storable(d, t) ==
  /\ d \in TeamRecords
  /\ \A u \in Turn : u # t => d.turn[u] = team.turn[u] /\ d.env[u] = team.env[u]
  /\ d.turn[t] # team.turn[t] => OpenAtTeam(t) /\ d.turn[t] \notin {"none", "prepared"}
  /\ d.turn[t] # team.turn[t] =>
       /\ d.turn[t] = "responded" => world.run[t] = "answered"
       /\ d.turn[t] = "failed" => world.run[t] \in {"failed", "stopped"}
       /\ d.turn[t] = "cancelled" => world.run[t] \in {"failed", "stopped"}
  /\ d.rev <= rec.rev /\ (d.env[t] = team.env[t] \/ d.env[t] = rec.rev)
  /\ d.state = "none" => team.state = "none" /\ d.rev = team.rev /\ d.env[t] = team.env[t]
  /\ d.state \in {"active", "parked"} /\ d.rev = rec.rev =>
       \A u \in Turn : Running(u) => d.turn[u] \in {"prepared", "dispatching", "active", "cancelling"}
  /\ \A u \in Turn : rec.turn = u /\ d.turn[u] = "dispatching" /\ d.env[u] = 0 =>
       d.state = "active" /\ d.rev < rec.rev

\* A step that stores it.
LEMMA StoredKeeps ==
  ASSUME SessionInv, NEW t \in Turn, Storable(team', t), UNCHANGED <<kind, rec, world, faults>>,
         call' \in Calls, client' \in BOOLEAN, attended' \subseteq Turn, crashes' \in 0..MaxCrashes,
         CallOK', Sound(rec) \/ Abandoned'
  PROVE  SessionInv'
<1>0. TypeOK /\ Shaped(rec) /\ Advances
  BY DEF SessionInv, Advances
<1>1. TurnsOK' /\ HandlesOK' /\ OutcomeIsTrue' /\ StartedOnce'
  <2>1. team'.state \in {"active", "parked"} /\ team'.rev = rec'.rev =>
           \A u \in Turn : Running(u) => OpenAtTeam(u)'
    BY DEF Storable, OpenAtTeam
  <2> QED BY <1>0, <2>1, TeamStep DEF Storable
<1>2. Shaped(rec)' /\ (Sound(rec) => Sound(rec)')
  BY <1>0, AdvanceFacts
<1>3. TypeOK'
  BY <1>0 DEF TypeOK, Storable
<1> QED BY <1>1, <1>2, <1>3 DEF SessionInv

\* A crash after it was stored.
LEMMA StoredThenCrashed ==
  ASSUME SessionInv, NEW t \in Turn, Storable(team', t), Crashed, UNCHANGED <<rec, world>>,
         Sound(rec) \/ (team'.rev < rec.rev /\ \A u \in Turn : team'.env[u] < rec.rev)
  PROVE  SessionInv'
<1>0. TypeOK /\ (Sound(rec) \/ Abandoned)
  BY DEF SessionInv
<1>1. call' = Idle /\ call' \in Calls /\ client' \in BOOLEAN /\ attended' \subseteq Turn /\ kind' = kind /\ faults' = faults
  BY IdleFields DEF Crashed
<1>2. crashes' \in 0..MaxCrashes
  BY <1>0, SessionAssumption DEF TypeOK, Crashed
<1>3. CallOK'
  BY <1>1, IdleCallOK
<1>4. CASE Abandoned /\ team'.rev < rec.rev /\ \A u \in Turn : team'.env[u] < rec.rev
  <2>1. Abandoned'
    BY <1>1, <1>4, IdleFields DEF Abandoned, Shaped, Running
  <2> QED BY <1>1, <1>2, <1>3, <2>1, StoredKeeps
<1>5. CASE Sound(rec)
  BY <1>1, <1>2, <1>3, <1>5, StoredKeeps
<1> QED BY <1>0, <1>4, <1>5

\* The writes in turn.
LEMMA OneStored ==
  ASSUME NEW a, NEW next, NEW done, StoreAndLeave(<<a>>, next, done)
  PROVE  /\ team' = a /\ call' = next /\ attended' = attended \ done
         /\ UNCHANGED <<kind, rec, world, client, crashes, faults>>
  BY DEF StoreAndLeave

LEMMA TwoStored ==
  ASSUME NEW a, NEW b, NEW next, NEW done, StoreAndLeave(<<a, b>>, next, done)
  PROVE  /\ UNCHANGED <<rec, world>>
         /\ \/ /\ team' = b /\ call' = next /\ attended' = attended \ done
               /\ UNCHANGED <<kind, client, crashes, faults>>
            \/ team' = a /\ Crashed
  BY DEF StoreAndLeave

LEMMA ThreeStored ==
  ASSUME NEW a, NEW b, NEW c, NEW next, NEW done, StoreAndLeave(<<a, b, c>>, next, done)
  PROVE  /\ UNCHANGED <<rec, world>>
         /\ \/ /\ team' = c /\ call' = next /\ attended' = attended \ done
               /\ UNCHANGED <<kind, client, crashes, faults>>
            \/ team' = a /\ Crashed
            \/ team' = b /\ Crashed
<1>1. \A i \in 1..(Len(<<a, b, c>>) - 1) : <<a, b, c>>[i] \in {a, b}
  OBVIOUS
<1> QED BY <1>1 DEF StoreAndLeave

LEMMA FourStored ==
  ASSUME NEW a, NEW b, NEW c, NEW d, NEW next, NEW done, StoreAndLeave(<<a, b, c, d>>, next, done)
  PROVE  /\ UNCHANGED <<rec, world>>
         /\ \/ /\ team' = d /\ call' = next /\ attended' = attended \ done
               /\ UNCHANGED <<kind, client, crashes, faults>>
            \/ team' = a /\ Crashed
            \/ team' = b /\ Crashed
            \/ team' = c /\ Crashed
<1>1. \A i \in 1..(Len(<<a, b, c, d>>) - 1) : <<a, b, c, d>>[i] \in {a, b, c}
  OBVIOUS
<1> QED BY <1>1 DEF StoreAndLeave

\* What an exact handle says of its turn may be stored; the turn is over only
\* when the agent is done with it or the session is given up.
LEMMA ExactStorable ==
  ASSUME SessionInv, Sound(rec), NEW t \in Turn, rec.turn = t, OpenAtTeam(t),
         NEW d \in TeamRecords, d.state # "none", d.rev <= rec.rev, d.env[t] = rec.rev,
         \A u \in Turn : u # t => d.turn[u] = team.turn[u] /\ d.env[u] = team.env[u],
         \/ d.turn[t] = team.turn[t]
         \/ d.turn[t] = "active"
         \/ /\ d.turn[t] \in {"responded", "failed", "cancelled"} /\ ~Running(t)
            /\ d.turn[t] = "responded" => world.run[t] = "answered"
            /\ d.turn[t] = "failed" => world.run[t] \in {"failed", "stopped"}
            /\ d.turn[t] = "cancelled" => world.run[t] \in {"failed", "stopped"}
         \/ d.turn[t] = "indeterminate" /\ d.state = "lost"
  PROVE  Storable(d, t)
<1>0. rec.rev > 0 /\ rec.rev \in Nat
  BY SessionAssumption DEF Sound, Shaped, sessionRecord
<1>1. ASSUME d.state \in {"active", "parked"}, NEW u \in Turn, Running(u)
      PROVE  d.turn[u] \in {"prepared", "dispatching", "active", "cancelling"}
  BY <1>1 DEF Sound, Covers, OpenAtTeam
<1>2. ASSUME NEW u \in Turn, rec.turn = u, d.turn[u] = "dispatching", d.env[u] = 0 PROVE FALSE
  BY <1>0, <1>2
<1> QED BY <1>1, <1>2 DEF Storable

\* The envelope and the record of the session that are written before.
LEMMA ExactRecords ==
  ASSUME SessionInv, Sound(rec), NEW t \in Turn, rec.turn = t, OpenAtTeam(t), NEW state \in SessionStates,
         state # "none", NEW e, e = Enveloped(team, t, rec.rev), NEW s, s = Held(e, state, rec.rev)
  PROVE  /\ Storable(e, t) /\ Storable(s, t) /\ e \in TeamRecords /\ s \in TeamRecords
         /\ s.state = state /\ s.rev = rec.rev /\ s.env[t] = rec.rev /\ s.turn = team.turn
         /\ \A u \in Turn : u # t => s.env[u] = team.env[u]
<1>0. team \in TeamRecords /\ rec.rev \in Nat /\ team.rev <= rec.rev /\ team.state # "none" /\ rec.rev <= rec.rev
  BY SessionAssumption DEF SessionInv, TypeOK, HandlesOK, Sound, Shaped, sessionRecord
<1>1. /\ e \in TeamRecords /\ e.state = team.state /\ e.rev = team.rev /\ e.turn = team.turn
      /\ e.env[t] = rec.rev /\ \A u \in Turn : u # t => e.env[u] = team.env[u]
  BY <1>0, EnvFields
<1>2. s \in TeamRecords /\ s.state = state /\ s.rev = rec.rev /\ s.env = e.env /\ s.turn = e.turn
  BY <1>0, <1>1, HeldFields
<1>3. Storable(e, t)
  BY <1>0, <1>1, ExactStorable
<1>4. Storable(s, t)
  BY <1>0, <1>1, <1>2, ExactStorable
<1> QED BY <1>1, <1>2, <1>3, <1>4

LEMMA StoreSessionKeeps ==
  ASSUME SessionInv, StoreSession
  PROVE  SessionInv'
<1> DEFINE t == call.turn
<1>0. /\ TypeOK /\ HandlesOK /\ Sound(rec) /\ call.at = "store" /\ t \in Turn /\ call.rev = rec.rev
      /\ team \in TeamRecords /\ call \in Calls /\ rec.rev \in Nat /\ Unstored(t)
      /\ team.state # "active" /\ \A u \in Turn : ~Running(u)
  BY DEF SessionInv, StoreSession, CallOK, InCall, TypeOK, Unstored, sessionRecord
<1>1. /\ team' = Held(team, "active", rec.rev) /\ call' = GoesTo("opened") /\ attended' = attended
      /\ UNCHANGED <<kind, rec, world, client, crashes, faults>>
  BY <1>0 DEF StoreSession, Store, StoreAndLeave
<1>2. /\ team' \in TeamRecords /\ team'.state = "active" /\ team'.rev = rec.rev
      /\ team'.env = team.env /\ team'.turn = team.turn
  <2>1. "active" \in SessionStates
    BY DEF SessionStates
  <2> QED BY <1>0, <1>1, <2>1, HeldFields
<1>3. call' \in Calls /\ call'.at = "opened" /\ call'.turn = t /\ call'.rev = rec.rev
  <2>1. "opened" \in Places
    BY DEF Places
  <2> QED BY <1>0, <1>1, <2>1, NextPlace
<1>4. Storable(team', t)
  BY <1>0, <1>2 DEF Storable, HandlesOK
<1>5. CallOK'
  BY <1>0, <1>1, <1>2, <1>3 DEF CallOK, InCall, Unstored
<1> QED BY <1>0, <1>1, <1>3, <1>4, <1>5, StoredKeeps DEF TypeOK

LEMMA MarkDispatchingKeeps ==
  ASSUME SessionInv, MarkDispatching
  PROVE  SessionInv'
<1> DEFINE t == call.turn
<1>0. /\ TypeOK /\ Shaped(rec) /\ TurnsOK /\ HandlesOK /\ (Sound(rec) \/ Abandoned) /\ call.at = "opened"
      /\ t \in Turn /\ call.rev = team.rev /\ team.state = "active"
      /\ team \in TeamRecords /\ call \in Calls /\ Unstored(t)
  BY DEF SessionInv, MarkDispatching, CallOK, InCall, TypeOK, Unstored
<1>1. /\ team' = TurnIs(team, t, "dispatching") /\ call' = GoesTo("start") /\ attended' = attended
      /\ UNCHANGED <<kind, rec, world, client, crashes, faults>>
  BY DEF MarkDispatching, Store, StoreAndLeave
<1>2. /\ team' \in TeamRecords /\ team'.state = team.state /\ team'.rev = team.rev /\ team'.env = team.env
      /\ team'.turn[t] = "dispatching" /\ \A u \in Turn : u # t => team'.turn[u] = team.turn[u]
  <2>1. "dispatching" \in TeamTurnStates
    BY DEF TeamTurnStates
  <2> QED BY <1>0, <1>1, <2>1, TurnFields
<1>3. call' \in Calls /\ call'.at = "start" /\ call'.turn = t /\ call'.rev = team.rev
  <2>1. "start" \in Places
    BY DEF Places
  <2> QED BY <1>0, <1>1, <2>1, NextPlace
<1>4. Storable(team', t)
  <2>1. rec.turn = t => team.rev < rec.rev
    BY <1>0, UnstoredTurn, SessionAssumption DEF Shaped
  <2>2. OpenAtTeam(t)
    BY <1>0 DEF Unstored, OpenAtTeam
  <2>3. ASSUME NEW u \in Turn, rec.turn = u, team'.turn[u] = "dispatching", team'.env[u] = 0
        PROVE  team'.state = "active" /\ team'.rev < rec.rev
    BY <1>0, <1>2, <2>1, <2>3 DEF HandlesOK
  <2>4. ASSUME team'.rev = rec.rev, NEW u \in Turn, Running(u)
        PROVE  team'.turn[u] \in {"prepared", "dispatching", "active", "cancelling"}
    BY <1>0, <1>2, <2>4 DEF HandlesOK, OpenAtTeam
  <2>5. team'.rev <= rec.rev
    BY <1>0, <1>2 DEF HandlesOK
  <2> QED BY <1>0, <1>2, <2>2, <2>3, <2>4, <2>5 DEF Storable
<1>5. CallOK'
  BY <1>0, <1>1, <1>2, <1>3 DEF CallOK, InCall, Unstored
<1>6. Abandoned => Abandoned'
  BY <1>1, <1>2, <1>3 DEF Abandoned, Shaped, Running
<1> QED BY <1>0, <1>1, <1>3, <1>4, <1>5, <1>6, StoredKeeps DEF TypeOK

LEMMA StoreTurnKeeps ==
  ASSUME SessionInv, StoreTurn
  PROVE  SessionInv'
<1> DEFINE t == call.turn
           e == Enveloped(team, t, rec.rev)
           s == Held(e, "active", rec.rev)
<1>0. /\ TypeOK /\ Sound(rec) /\ call.at = "started" /\ t \in Turn /\ call.rev = rec.rev /\ rec.turn = t
      /\ OpenAtTeam(t) /\ rec.rev <= rec.rev
  BY DEF SessionInv, StoreTurn, CallOK, InCall, TypeOK, OpenAtTeam, sessionRecord
<1>1. StoreAndLeave(<<e, s, TurnIs(s, t, "active")>>, Idle, {})
  BY <1>0 DEF StoreTurn, Store
<1>2. /\ Storable(e, t) /\ Storable(s, t) /\ s \in TeamRecords /\ s.state = "active" /\ s.rev = rec.rev
      /\ s.env[t] = rec.rev /\ s.turn = team.turn /\ \A u \in Turn : u # t => s.env[u] = team.env[u]
  <2>1. "active" \in SessionStates
    BY DEF SessionStates
  <2> QED BY <1>0, <2>1, ExactRecords
<1>3. UNCHANGED <<rec, world>>
  BY <1>1, ThreeStored
<1>4. CASE team' = TurnIs(s, t, "active") /\ call' = Idle /\ attended' = attended \ {}
           /\ UNCHANGED <<kind, client, crashes, faults>>
  <2>1. /\ team' \in TeamRecords /\ team'.state = s.state /\ team'.rev = s.rev /\ team'.env = s.env
        /\ team'.turn[t] = "active" /\ \A u \in Turn : u # t => team'.turn[u] = s.turn[u]
    <3>1. "active" \in TeamTurnStates
      BY DEF TeamTurnStates
    <3> HIDE DEF s
    <3> QED BY <1>0, <1>2, <1>4, <3>1, TurnFields
  <2> HIDE DEF s
  <2>2. Storable(team', t)
    BY <1>0, <1>2, <2>1, ExactStorable
  <2> QED BY <1>0, <1>3, <1>4, <2>2, StoredKeeps, IdleFields, IdleCallOK DEF TypeOK
<1>5. CASE (team' = e \/ team' = s) /\ Crashed
  <2> HIDE DEF s, e
  <2> QED BY <1>0, <1>2, <1>3, <1>5, StoredThenCrashed
<1> HIDE DEF s, e
<1> QED BY <1>1, <1>4, <1>5, ThreeStored

\* The observation of a turn that is still open.
LEMMA StoreOpenKeeps ==
  ASSUME SessionInv, StoreObservation, OpenTurn(call.ts)
  PROVE  SessionInv'
<1> DEFINE t == call.turn
           e == Enveloped(team, t, rec.rev)
           s == Held(e, "active", rec.rev)
<1>0. /\ TypeOK /\ Sound(rec) /\ call.at = "settle" /\ t \in Turn /\ call.rev = rec.rev /\ rec.turn = t
      /\ OpenAtTeam(t) /\ call.ts = rec.ts
  BY DEF SessionInv, StoreObservation, CallOK, InCall, OpenAtTeam
<1>1. StoreAndLeave(<<e, s>>, Idle, {})
  BY <1>0 DEF StoreObservation, Store, OpenTurn
<1>2. Storable(e, t) /\ Storable(s, t)
  <2>1. "active" \in SessionStates
    BY DEF SessionStates
  <2> QED BY <1>0, <2>1, ExactRecords
<1> HIDE DEF s, e
<1>3. UNCHANGED <<rec, world>>
  BY <1>1, TwoStored
<1>4. CASE team' = s /\ call' = Idle /\ attended' = attended \ {} /\ UNCHANGED <<kind, client, crashes, faults>>
  BY <1>0, <1>2, <1>3, <1>4, StoredKeeps, IdleFields, IdleCallOK DEF TypeOK
<1>5. CASE team' = e /\ Crashed
  BY <1>0, <1>2, <1>3, <1>5, StoredThenCrashed
<1> QED BY <1>1, <1>4, <1>5, TwoStored

\* The observation of a turn that is over: what is said of it is what the
\* agent did, and the session is parked next.
LEMMA StoreEndKeeps ==
  ASSUME SessionInv, StoreObservation, call.ts \in {"responded", "interrupted", "failed"}
  PROVE  SessionInv'
<1> DEFINE t == call.turn
           e == Enveloped(team, t, rec.rev)
           s == Held(e, "active", rec.rev)
<1>0. /\ TypeOK /\ Sound(rec) /\ call.at = "settle" /\ t \in Turn /\ call.rev = rec.rev /\ rec.turn = t
      /\ OpenAtTeam(t) /\ call.ts = rec.ts /\ rec.rev > 0 /\ rec.rev \in Nat /\ rec.rev <= rec.rev /\ call \in Calls
      /\ team.turn[t] \in {"dispatching", "active", "cancelling"}
  BY SessionAssumption
     DEF SessionInv, StoreObservation, CallOK, InCall, OpenAtTeam, TypeOK, Sound, Shaped, sessionRecord
<1>1. PICK f : /\ StoreAndLeave(<<e, s, f>>, GoesTo("park"), {t})
               /\ \/ call.ts = "responded" /\ f = IF s.turn[t] = "active" THEN TurnIs(s, t, "responded") ELSE s
                  \/ call.ts = "interrupted" /\ f = markTurnFailure(s, t, "cancelled")
                  \/ call.ts = "failed" /\ f = markTurnFailure(s, t, "failed")
  BY <1>0 DEF StoreObservation, OpenTurn
<1>2. /\ Storable(e, t) /\ Storable(s, t) /\ s \in TeamRecords /\ s.state = "active" /\ s.rev = rec.rev
      /\ s.env[t] = rec.rev /\ s.turn = team.turn /\ \A u \in Turn : u # t => s.env[u] = team.env[u]
  <2>1. "active" \in SessionStates
    BY DEF SessionStates
  <2> QED BY <1>0, <2>1, ExactRecords
<1> HIDE DEF s, e
<1>3. UNCHANGED <<rec, world>>
  BY <1>1, ThreeStored
<1>4. /\ call.ts = "responded" => world.run[t] = "answered"
      /\ call.ts = "interrupted" => world.run[t] \in {"failed", "stopped"}
      /\ call.ts = "failed" => world.run[t] \in {"failed", "stopped"}
  BY <1>0 DEF Sound, Truthful
<1>5. /\ f \in TeamRecords /\ f.state = s.state /\ f.rev = s.rev /\ f.env = s.env
      /\ \A u \in Turn : u # t => f.turn[u] = s.turn[u]
      /\ \/ f.turn[t] = s.turn[t]
         \/ f.turn[t] = "responded" /\ call.ts = "responded"
         \/ f.turn[t] = "cancelled" /\ call.ts = "interrupted"
         \/ f.turn[t] = "failed" /\ call.ts = "failed"
  <2>1. CASE f = s
    BY <1>2, <2>1
  <2>2. CASE f = TurnIs(s, t, "responded") /\ call.ts = "responded"
    <3>1. "responded" \in TeamTurnStates
      BY DEF TeamTurnStates
    <3> QED BY <1>0, <1>2, <2>2, <3>1, TurnFields
  <2>3. CASE f = markTurnFailure(s, t, "cancelled") /\ call.ts = "interrupted"
    BY <1>0, <1>2, <2>3, MarkedFields
  <2>4. CASE f = markTurnFailure(s, t, "failed") /\ call.ts = "failed"
    BY <1>0, <1>2, <2>4, MarkedFields
  <2> QED BY <1>1, <2>1, <2>2, <2>3, <2>4
<1>6. Storable(f, t)
  BY <1>0, <1>2, <1>4, <1>5, ExactStorable DEF Running
<1>7. CASE team' = f /\ call' = GoesTo("park") /\ attended' = attended \ {t}
           /\ UNCHANGED <<kind, client, crashes, faults>>
  <2>1. call' \in Calls /\ call'.at = "park" /\ call'.turn = t /\ call'.rev = rec.rev
    <3>1. "park" \in Places
      BY DEF Places
    <3> QED BY <1>0, <1>7, <3>1, NextPlace
  <2>2. Sound(rec)'
    BY <1>0, <1>3 DEF Sound, Shaped, Truthful, Covers, Running
  <2>3. CallOK'
    BY <1>0, <1>2, <1>3, <1>5, <1>7, <2>1, <2>2 DEF CallOK, InCall
  <2> QED BY <1>0, <1>3, <1>6, <1>7, <2>1, <2>3, StoredKeeps DEF TypeOK
<1>8. CASE (team' = e \/ team' = s) /\ Crashed
  BY <1>0, <1>2, <1>3, <1>8, StoredThenCrashed
<1> QED BY <1>1, <1>7, <1>8, ThreeStored

\* The observation of a turn that is lost: the session is given up with it.
LEMMA StoreGoneKeeps ==
  ASSUME SessionInv, StoreObservation, call.ts = "lost"
  PROVE  SessionInv'
<1> DEFINE t == call.turn
           e == Enveloped(team, t, rec.rev)
           s == Held(e, "active", rec.rev)
           l == Held(e, "lost", rec.rev)
           f == markTurnFailure(l, t, "indeterminate")
<1>0. /\ TypeOK /\ Sound(rec) /\ call.at = "settle" /\ t \in Turn /\ call.rev = rec.rev /\ rec.turn = t
      /\ OpenAtTeam(t) /\ rec.rev \in Nat /\ rec.rev <= rec.rev
  BY DEF SessionInv, StoreObservation, CallOK, InCall, OpenAtTeam, TypeOK, sessionRecord
<1>1. StoreAndLeave(<<e, s, l, f>>, Idle, {t})
  BY <1>0 DEF StoreObservation, OpenTurn
<1>2. /\ Storable(e, t) /\ Storable(s, t) /\ Storable(l, t) /\ l \in TeamRecords /\ l.state = "lost"
      /\ l.rev = rec.rev /\ l.env[t] = rec.rev /\ l.turn = team.turn
      /\ \A u \in Turn : u # t => l.env[u] = team.env[u]
  <2>1. "active" \in SessionStates /\ "lost" \in SessionStates
    BY DEF SessionStates
  <2> QED BY <1>0, <2>1, ExactRecords
<1> HIDE DEF s, e, l
<1>3. Storable(f, t)
  <2>1. /\ f \in TeamRecords /\ f.state = l.state /\ f.rev = l.rev /\ f.env = l.env
        /\ \A u \in Turn : u # t => f.turn[u] = l.turn[u]
        /\ f.turn[t] = l.turn[t] \/ f.turn[t] = "indeterminate"
    BY <1>0, <1>2, MarkedFields
  <2> HIDE DEF f
  <2> QED BY <1>0, <1>2, <2>1, ExactStorable
<1> HIDE DEF f
<1>4. UNCHANGED <<rec, world>>
  BY <1>1, FourStored
<1>5. CASE team' = f /\ call' = Idle /\ attended' = attended \ {t} /\ UNCHANGED <<kind, client, crashes, faults>>
  BY <1>0, <1>3, <1>4, <1>5, StoredKeeps, IdleFields, IdleCallOK DEF TypeOK
<1>6. CASE (team' = e \/ team' = s \/ team' = l) /\ Crashed
  BY <1>0, <1>2, <1>4, <1>6, StoredThenCrashed
<1> QED BY <1>1, <1>5, <1>6, FourStored

LEMMA StoreObservationKeeps ==
  ASSUME SessionInv, StoreObservation
  PROVE  SessionInv'
<1>1. call.ts \in DriverTurnStates /\ call.ts # "none"
  BY SessionAssumption DEF SessionInv, StoreObservation, CallOK, InCall, TypeOK, Calls, Sound, Shaped
<1> QED BY <1>1, StoreOpenKeeps, StoreEndKeeps, StoreGoneKeeps DEF DriverTurnStates, OpenTurn

LEMMA StoreLostKeeps ==
  ASSUME SessionInv, StoreLost
  PROVE  SessionInv'
<1> DEFINE t == call.turn
           l == Held(team, "lost", team.env[t])
           f == markTurnFailure(l, t, "indeterminate")
<1>0. /\ TypeOK /\ HandlesOK /\ TurnsOK /\ (Sound(rec) \/ Abandoned) /\ call.at = "lose" /\ t \in Turn
      /\ OpenAtTeam(t) /\ team.env[t] # 0 /\ team.env[t] \in Nat /\ team \in TeamRecords
      /\ team.turn[t] \in {"dispatching", "active", "cancelling"}
  BY DEF SessionInv, StoreLost, CallOK, InCall, OpenAtTeam, TypeOK, TeamRecords
<1>1. StoreAndLeave(<<l, f>>, Idle, {})
  BY DEF StoreLost, Store
<1>2. l \in TeamRecords /\ l.state = "lost" /\ l.rev = team.env[t] /\ l.env = team.env /\ l.turn = team.turn
  <2>1. "lost" \in SessionStates
    BY DEF SessionStates
  <2> QED BY <1>0, <2>1, HeldFields
<1> HIDE DEF l
<1>3. /\ f \in TeamRecords /\ f.state = l.state /\ f.rev = l.rev /\ f.env = l.env
      /\ \A u \in Turn : u # t => f.turn[u] = l.turn[u]
      /\ f.turn[t] = team.turn[t] \/ f.turn[t] = "indeterminate"
  BY <1>0, <1>2, MarkedFields
<1> HIDE DEF f
<1>4. \A u \in Turn : team.turn[u] = "dispatching" => u = t
  BY <1>0 DEF TurnsOK, OpenAtTeam
<1>5. Storable(l, t) /\ Storable(f, t)
  BY <1>0, <1>2, <1>3, <1>4 DEF Storable, HandlesOK
<1>6. UNCHANGED <<rec, world>>
  BY <1>1, TwoStored
<1>7. Abandoned => team.env[t] < rec.rev /\ \A u \in Turn : team.env[u] < rec.rev
  BY <1>0 DEF Abandoned
<1>8. CASE team' = f /\ call' = Idle /\ attended' = attended \ {} /\ UNCHANGED <<kind, client, crashes, faults>>
  <2>1. Abandoned => Abandoned'
    BY <1>2, <1>3, <1>6, <1>7, <1>8, IdleFields DEF Abandoned, Shaped, Running
  <2> QED BY <1>0, <1>5, <1>6, <1>8, <2>1, StoredKeeps, IdleFields, IdleCallOK DEF TypeOK
<1>9. CASE team' = l /\ Crashed
  BY <1>0, <1>2, <1>5, <1>6, <1>7, <1>9, StoredThenCrashed
<1> QED BY <1>1, <1>8, <1>9, TwoStored

LEMMA StoreParkKeeps ==
  ASSUME SessionInv, StorePark
  PROVE  SessionInv'
<1> DEFINE t == call.turn
           e == Enveloped(team, t, rec.rev)
           p == Held(e, "parked", rec.rev)
           f == TurnIs(p, t, "cancelled")
<1>0. /\ TypeOK /\ Sound(rec) /\ t \in Turn /\ call.rev = rec.rev /\ rec.turn = t /\ rec.state = "parked"
      /\ rec.rev \in Nat /\ rec.rev <= rec.rev /\ team \in TeamRecords
      /\ "parked" \in SessionStates /\ "cancelled" \in TeamTurnStates
  BY DEF SessionInv, StorePark, CallOK, InCall, TypeOK, sessionRecord, SessionStates, TeamTurnStates
<1>1. \A u \in Turn : ~Running(u)
  BY <1>0 DEF Sound, Covers
<1>2. CASE call.at = "parking" /\ Store(<<Held(team, "parked", call.rev)>>, Idle)
  <2>1. /\ team' = Held(team, "parked", rec.rev) /\ call' = Idle /\ attended' = attended
        /\ UNCHANGED <<kind, rec, world, client, crashes, faults>>
    BY <1>0, <1>2 DEF Store, StoreAndLeave
  <2>2. /\ team' \in TeamRecords /\ team'.state = "parked" /\ team'.rev = rec.rev
        /\ team'.env = team.env /\ team'.turn = team.turn
    BY <1>0, <2>1, HeldFields
  <2>3. team.env[t] # 0 \/ team.turn[t] # "dispatching"
    BY <1>2 DEF SessionInv, CallOK, InCall
  <2>4. Storable(team', t)
    BY <1>0, <1>1, <2>2, <2>3 DEF Storable
  <2> QED BY <1>0, <2>1, <2>4, StoredKeeps, IdleFields, IdleCallOK DEF TypeOK
<1>3. CASE call.at = "kept" /\ StoreAndLeave(<<e, p, f>>, Idle, {})
  <2>0. OpenAtTeam(t) /\ rec.ts = "interrupted" /\ world.run[t] \in {"failed", "stopped"}
    BY <1>0, <1>3 DEF SessionInv, CallOK, InCall, OpenAtTeam, Sound, Truthful
  <2>1. /\ Storable(e, t) /\ Storable(p, t) /\ p \in TeamRecords /\ p.state = "parked" /\ p.rev = rec.rev
        /\ p.env[t] = rec.rev /\ p.turn = team.turn /\ \A u \in Turn : u # t => p.env[u] = team.env[u]
    BY <1>0, <2>0, ExactRecords
  <2> HIDE DEF p, e
  <2>2. /\ f \in TeamRecords /\ f.state = p.state /\ f.rev = p.rev /\ f.env = p.env
        /\ f.turn[t] = "cancelled" /\ \A u \in Turn : u # t => f.turn[u] = p.turn[u]
    BY <1>0, <2>1, TurnFields
  <2> HIDE DEF f
  <2>3. Storable(f, t)
    BY <1>0, <1>1, <2>0, <2>1, <2>2, ExactStorable
  <2>4. UNCHANGED <<rec, world>>
    BY <1>3, ThreeStored
  <2>5. CASE team' = f /\ call' = Idle /\ attended' = attended \ {} /\ UNCHANGED <<kind, client, crashes, faults>>
    BY <1>0, <2>3, <2>4, <2>5, StoredKeeps, IdleFields, IdleCallOK DEF TypeOK
  <2>6. CASE (team' = e \/ team' = p) /\ Crashed
    BY <1>0, <2>1, <2>4, <2>6, StoredThenCrashed
  <2> QED BY <1>3, <2>5, <2>6, ThreeStored
<1> QED BY <1>0, <1>2, <1>3 DEF StorePark, Store

LEMMA StoreCloseKeeps ==
  ASSUME SessionInv, StoreClose
  PROVE  SessionInv'
<1>0. /\ TypeOK /\ HandlesOK /\ Sound(rec) /\ call.rev = rec.rev /\ rec.rev \in Nat /\ team \in TeamRecords
      /\ "closed" \in SessionStates
  BY DEF SessionInv, StoreClose, CallOK, InCall, TypeOK, sessionRecord, SessionStates
<1>1. /\ team' = Held(team, "closed", rec.rev) /\ call' = Idle /\ attended' = attended
      /\ UNCHANGED <<kind, rec, world, client, crashes, faults>>
  BY <1>0 DEF StoreClose, Store, StoreAndLeave
<1>2. /\ team' \in TeamRecords /\ team'.state = "closed" /\ team'.rev = rec.rev
      /\ team'.env = team.env /\ team'.turn = team.turn
  BY <1>0, <1>1, HeldFields
<1>3. \A u \in Turn : ~OpenAtTeam(u)
  BY DEF SessionInv, StoreClose, CallOK, InCall
<1>4. TurnsOK' /\ OutcomeIsTrue' /\ StartedOnce'
  BY <1>0, <1>1, <1>2 DEF SessionInv, TurnsOK, OutcomeIsTrue, StartedOnce, OpenAtTeam
<1>5. HandlesOK'
  BY <1>0, <1>1, <1>2, <1>3 DEF HandlesOK, OpenAtTeam
<1>6. Shaped(rec)' /\ Sound(rec)'
  BY <1>0, <1>1 DEF Sound, Shaped, Truthful, Covers, Running
<1>7. TypeOK' /\ CallOK'
  BY <1>0, <1>1, <1>2, IdleFields, IdleCallOK DEF TypeOK
<1> QED BY <1>4, <1>5, <1>6, <1>7 DEF SessionInv

-----------------------------------------------------------------------------
(***************************************************************************)
(* What the host asks for.                                                 *)
(***************************************************************************)

\* The Team's record of a turn changes while a call may be under way.
LEMMA AskKeeps ==
  ASSUME SessionInv, NEW t \in Turn, Ask(t)
  PROVE  SessionInv'
<1>0. /\ TypeOK /\ Shaped(rec) /\ TurnsOK /\ HandlesOK /\ CallOK /\ OutcomeIsTrue /\ StartedOnce
      /\ (Sound(rec) \/ Abandoned) /\ team \in TeamRecords /\ "prepared" \in TeamTurnStates
  BY DEF SessionInv, TypeOK, TeamTurnStates
<1>1. /\ team.turn[t] = "none" /\ \A u \in Turn : ~OpenAtTeam(u)
      /\ ~team.closing /\ team' = TurnIs(team, t, "prepared") /\ attended' = attended \cup {t}
      /\ UNCHANGED <<kind, rec, world, client, call, crashes, faults>>
  BY DEF Ask, TurnOver, OpenAtTeam
<1>2. /\ team' \in TeamRecords /\ team'.state = team.state /\ team'.rev = team.rev /\ team'.env = team.env
      /\ team'.turn[t] = "prepared" /\ \A u \in Turn : u # t => team'.turn[u] = team.turn[u]
  BY <1>0, <1>1, TurnFields
<1>3. t \notin rec.used /\ world.run[t] = "none"
  BY <1>0, <1>1 DEF TurnsOK
<1>4. \A u \in Turn : OpenAtTeam(u)' => u = t
  BY <1>1, <1>2 DEF OpenAtTeam
<1>5. TurnsOK'
  BY <1>0, <1>1, <1>2, <1>3, <1>4 DEF TurnsOK
<1>6. HandlesOK'
  <2>1. ASSUME team'.state \in {"active", "parked"}, team'.rev = rec'.rev, NEW u \in Turn, Running(u)'
        PROVE  OpenAtTeam(u)'
    BY <1>0, <1>1, <1>2, <2>1 DEF HandlesOK, Running
  <2>2. ASSUME NEW u \in Turn, team'.turn[u] = "dispatching" PROVE FALSE
    BY <1>1, <1>2, <2>2 DEF OpenAtTeam
  <2> QED BY <1>0, <1>1, <1>2, <2>1, <2>2 DEF HandlesOK
<1>7. OutcomeIsTrue' /\ StartedOnce'
  BY <1>0, <1>1, <1>2 DEF OutcomeIsTrue, StartedOnce
<1>8. /\ Shaped(rec)' /\ (Sound(rec) => Sound(rec)') /\ (Abandoned => Abandoned')
  BY <1>0, <1>1, <1>2 DEF Abandoned, Sound, Shaped, Truthful, Covers, Running
<1>9. TypeOK'
  BY <1>0, <1>1, <1>2 DEF TypeOK
<1>10. call.at \in {"idle", "park", "parking"}
  BY <1>0, <1>1 DEF CallOK, InCall, OpenAtTeam, TypeOK, Calls, Places
<1>11. CallOK'
  BY <1>0, <1>1, <1>2, <1>8, <1>10 DEF CallOK, InCall
<1> QED BY <1>0, <1>5, <1>6, <1>7, <1>8, <1>9, <1>11 DEF SessionInv

LEMMA CancelAskedKeeps ==
  ASSUME SessionInv, NEW t \in Turn, CancelAsked(t)
  PROVE  SessionInv'
<1>0. /\ TypeOK /\ Shaped(rec) /\ TurnsOK /\ HandlesOK /\ CallOK
      /\ (Sound(rec) \/ Abandoned) /\ team \in TeamRecords /\ "cancelling" \in TeamTurnStates
  BY DEF SessionInv, TypeOK, TeamTurnStates
<1>1. /\ team.turn[t] = "active" /\ OpenAtTeam(t) /\ team' = TurnIs(team, t, "cancelling")
      /\ UNCHANGED <<kind, rec, world, client, call, attended, crashes, faults>>
  BY DEF CancelAsked, OpenAtTeam
<1>2. /\ team' \in TeamRecords /\ team'.state = team.state /\ team'.rev = team.rev /\ team'.env = team.env
      /\ team'.closing = team.closing
      /\ team'.turn[t] = "cancelling" /\ \A u \in Turn : u # t => team'.turn[u] = team.turn[u]
  BY <1>0, <1>1, TurnFields
<1>3. Storable(team', t)
  BY <1>0, <1>1, <1>2 DEF Storable, HandlesOK, OpenAtTeam
<1>4. (Sound(rec) => Sound(rec)') /\ (Abandoned => Abandoned')
  BY <1>0, <1>1, <1>2 DEF Abandoned, Sound, Shaped, Truthful, Covers, Running
<1>5. CallOK'
  BY <1>0, <1>1, <1>2, <1>4 DEF CallOK, InCall, OpenAtTeam, Running
<1> QED BY <1>0, <1>1, <1>3, <1>4, <1>5, StoredKeeps DEF TypeOK

LEMMA CloseAskedKeeps ==
  ASSUME SessionInv, CloseAsked
  PROVE  SessionInv'
<1>0. /\ TypeOK /\ Shaped(rec) /\ CallOK /\ team \in TeamRecords
      /\ (Sound(rec) \/ Abandoned)
  BY DEF SessionInv, TypeOK
<1>1. /\ team' = [team EXCEPT !.closing = TRUE]
      /\ UNCHANGED <<kind, rec, world, client, call, attended, crashes, faults>>
  BY Zenon DEF CloseAsked
<1>2. team' \in TeamRecords /\ team'.closing = TRUE
  BY <1>0, <1>1, Zenon DEF TeamRecords
<1>3. team'.state = team.state /\ team'.rev = team.rev /\ team'.env = team.env /\ team'.turn = team.turn
  BY <1>0, <1>1, Zenon DEF TeamRecords
<1>4. TurnsOK' /\ OutcomeIsTrue' /\ StartedOnce'
  BY <1>1, <1>3 DEF SessionInv, TurnsOK, OutcomeIsTrue, StartedOnce, OpenAtTeam
<1>5. HandlesOK'
  BY <1>1, <1>3 DEF SessionInv, HandlesOK, OpenAtTeam, Running
<1>6. /\ Shaped(rec)' /\ (Sound(rec) => Sound(rec)') /\ (Abandoned => Abandoned')
  BY <1>0, <1>1, <1>3 DEF Abandoned, Sound, Shaped, Truthful, Covers, Running
<1>7. CallOK'
  BY <1>0, <1>1, <1>2, <1>3, <1>6 DEF CallOK, InCall, OpenAtTeam, Running
<1>8. TypeOK'
  BY <1>0, <1>1, <1>2 DEF TypeOK
<1> QED BY <1>0, <1>4, <1>5, <1>6, <1>7, <1>8 DEF SessionInv

-----------------------------------------------------------------------------
(***************************************************************************)
(* The theorems.                                                           *)
(***************************************************************************)

LEMMA InitiallySessionInv ==
  ASSUME Init
  PROVE  SessionInv
<1>1. /\ kind \in Kinds /\ rec = NoRecord /\ client = FALSE /\ call = Idle /\ attended = {}
      /\ crashes = 0 /\ faults = 0
      /\ world = [run |-> [t \in Turn |-> "none"], twice |-> {}, gone |-> FALSE]
      /\ team = [state |-> "none", rev |-> 0, env |-> [t \in Turn |-> 0],
                 turn |-> [t \in Turn |-> "none"], closing |-> FALSE]
  BY Zenon DEF Init
<1>2. /\ rec.rev = 0 /\ rec.state = "none" /\ rec.turn = Nothing /\ rec.ts = "none" /\ rec.used = {}
      /\ rec \in sessionRecord
  BY <1>1 DEF NoRecord, Unused, sessionRecord, SessionStates, DriverTurnStates
<1>3. /\ world.twice = {} /\ \A t \in Turn : world.run[t] = "none"
  BY <1>1
<1>4. world \in Worlds
  <2>1. [t \in Turn |-> "none"] \in [Turn -> Runs]
    BY DEF Runs
  <2> QED BY <1>1, <2>1, Zenon DEF Worlds
<1>5. /\ team.state = "none" /\ team.rev = 0
      /\ \A t \in Turn : team.env[t] = 0 /\ team.turn[t] = "none"
  BY <1>1
<1>6. team \in TeamRecords
  <2>1. [t \in Turn |-> 0] \in [Turn -> Nat] /\ [t \in Turn |-> "none"] \in [Turn -> TeamTurnStates]
    BY DEF TeamTurnStates
  <2>2. "none" \in SessionStates /\ 0 \in Nat
    BY DEF SessionStates
  <2> QED BY <1>1, <2>1, <2>2, Zenon DEF TeamRecords
<1>7. TypeOK
  <2>1. client \in BOOLEAN
    BY <1>1, Zenon
  <2>2. crashes \in 0..MaxCrashes /\ faults \in 0..MaxFaults
    BY <1>1, SessionAssumption
  <2>3. call \in Calls /\ attended \subseteq Turn /\ kind \in Kinds
    BY <1>1, IdleFields
  <2> QED BY <1>2, <1>4, <1>6, <2>1, <2>2, <2>3, Zenon DEF TypeOK
<1>8. Shaped(rec) /\ Sound(rec)
  BY <1>2, <1>3 DEF Shaped, Sound, Truthful, Covers, Running
<1>9. TurnsOK /\ HandlesOK
  BY <1>2, <1>3, <1>5 DEF TurnsOK, HandlesOK, OpenAtTeam, Running
<1>10. CallOK
  BY <1>1, IdleFields DEF CallOK, InCall
<1>11. StartedOnce /\ OutcomeIsTrue
  BY <1>3, <1>5 DEF StartedOnce, OutcomeIsTrue
<1> QED BY <1>7, <1>8, <1>9, <1>10, <1>11 DEF SessionInv

LEMMA SessionInvStutters ==
  ASSUME SessionInv, UNCHANGED vars
  PROVE  SessionInv'
<1>1. /\ kind' = kind /\ rec' = rec /\ world' = world /\ client' = client /\ team' = team /\ call' = call
      /\ attended' = attended /\ crashes' = crashes /\ faults' = faults
  BY DEF vars
<1>2. TypeOK' /\ Shaped(rec)' /\ TurnsOK' /\ HandlesOK' /\ StartedOnce' /\ OutcomeIsTrue'
  BY <1>1 DEF SessionInv, TypeOK, Shaped, TurnsOK, HandlesOK, StartedOnce, OutcomeIsTrue, OpenAtTeam, Running
<1>3. (Sound(rec) => Sound(rec)') /\ (Abandoned => Abandoned')
  BY <1>1 DEF Sound, Abandoned, Shaped, Truthful, Covers, Running
<1>4. CallOK'
  BY <1>1, <1>3 DEF SessionInv, CallOK, InCall, OpenAtTeam, Running
<1> QED BY <1>2, <1>3, <1>4 DEF SessionInv

LEMMA SessionInvKept ==
  ASSUME SessionInv, Next
  PROVE  SessionInv'
<1>1. ASSUME NEW t \in Turn, Ask(t) \/ CancelAsked(t) \/ AgentEnds(t) \/ Dispatch(t) \/ CancelTurn(t)
      PROVE  SessionInv'
  <2>1. CASE Dispatch(t)
    BY <2>1, UseSessionKeeps, OpenSessionKeeps, ResumeSessionKeeps, ObserveKeeps DEF Dispatch
  <2> QED BY <1>1, <2>1, AskKeeps, CancelAskedKeeps, AgentEndsKeeps, CancelTurnKeeps
<1>2. CASE Proceed
  <2>1. CASE StoreSession \/ MarkDispatching \/ StartTurn \/ Launch \/ LaunchFails \/ Launched \/ LaunchUnsure
    BY <2>1, StoreSessionKeeps, MarkDispatchingKeeps, StartTurnKeeps, LaunchKeeps, LaunchFailsKeeps,
       LaunchedKeeps, LaunchUnsureKeeps
  <2>2. CASE StoreTurn \/ StoreObservation \/ StoreLost \/ Park \/ StorePark
    BY <2>2, StoreTurnKeeps, StoreObservationKeeps, StoreLostKeeps, ParkKeeps, StoreParkKeeps
  <2>3. CASE Interrupt \/ Interrupted \/ Keep \/ StoreClose
    BY <2>3, InterruptKeeps, InterruptedKeeps, KeepKeeps, StoreCloseKeeps
  <2> QED BY <1>2, <2>1, <2>2, <2>3 DEF Proceed
<1>3. CASE CloseAsked \/ Close \/ SessionGoes
  BY <1>3, CloseAskedKeeps, CloseKeeps, SessionGoesKeeps
<1>4. CASE Crash
  BY <1>4, CrashKeeps DEF Crash, Advances
<1> QED BY <1>1, <1>2, <1>3, <1>4 DEF Next

\* Whatever fails and whenever the engine crashes: the driver's record, the
\* Team's handles and the place of the call in progress fit the agent.
THEOREM SessionInvariant == Spec => []SessionInv
<1>1. Init => SessionInv
  BY InitiallySessionInv
<1>2. SessionInv /\ [Next]_vars => SessionInv'
  BY SessionInvKept, SessionInvStutters
<1> QED BY <1>1, <1>2, PTL DEF Spec

\* StartTurn repeated after a crash, a failed launch or a lost answer, over
\* the same or over a stale handle, never gives a turn to the agent twice.
THEOREM TurnsStartOnce == Spec => []StartedOnce
<1>1. SessionInv => StartedOnce
  BY DEF SessionInv
<1> QED BY <1>1, SessionInvariant, PTL

\* The agent works on one turn of a session at a time, and on none once the
\* driver's record says that the session is parked or closed.
THEOREM SessionIsQuiet == Spec => []QuietSession
<1>1. ASSUME SessionInv PROVE QuietSession
  <2>1. Sound(rec) \/ Abandoned
    BY <1>1 DEF SessionInv
  <2>2. \A t \in Turn : Running(t) => rec.turn = t
    BY <2>1 DEF Sound, Covers, Abandoned
  <2>3. rec.state \in {"parked", "closed"} => \A t \in Turn : ~Running(t)
    BY <2>1 DEF Sound, Covers, Abandoned
  <2> QED BY <2>2, <2>3 DEF QuietSession, Running
<1> QED BY <1>1, SessionInvariant, PTL

\* A turn the Team has as answered was answered, one it has as failed did not
\* succeed, and one it has as cancelled neither runs on nor answered.
THEOREM OutcomesAreTrue == Spec => []OutcomeIsTrue
<1>1. SessionInv => OutcomeIsTrue
  BY DEF SessionInv
<1> QED BY <1>1, SessionInvariant, PTL
=============================================================================
