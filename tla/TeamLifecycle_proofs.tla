------------------------ MODULE TeamLifecycle_proofs ------------------------
(***************************************************************************)
(* A Team in either mode for any participants, actions of the host,        *)
(* grants, limits, crashes and failing drivers.                            *)
(***************************************************************************)
EXTENDS TeamLifecycle, FiniteSetTheorems, TLAPS

-----------------------------------------------------------------------------
(***************************************************************************)
(* The launch of a turn.                                                   *)
(***************************************************************************)

\* Each mode has its own steps, and a cancellation that goes through one turn
\* knows which.
Pcs(mode) ==
  IF mode = "panel" THEN {"idle", "queued", "launch", "started", "stop", "watch"}
  ELSE {"idle", "queued", "open", "opened", "turn", "started", "watch", "park"}
Ats(mode) ==
  IF mode = "panel" THEN {"idle", "replay", "prepare", "round", "calls"}
  ELSE {"idle", "replay", "prepare", "round", "go", "exact", "confirm", "turns", "mark", "closing"}
Jobs(mode) == {j \in Job : j.at \in Ats(mode) /\ (j.at \in {"confirm", "mark"} => j.now \in TurnId)}

ModeOK == pc \in [TurnId -> Pcs(disk.mode)] /\ act \in [Thread -> Jobs(disk.mode)]

\* A turn of a panel that is still to be launched has no execution: its file
\* says prepared or nothing, its goroutine is about to call the driver, or the
\* snapshot does not name it yet.
LaunchOK ==
  disk.mode = "panel" =>
    \A t \in TurnId :
      /\ pc[t] = "launch" => ext.turn[t] = "none"
      /\ disk.turn[t] \in {"none", "prepared"} => ext.turn[t] = "none" /\ pc[t] \in {"idle", "queued"}
      /\ disk.part[Of(t)].turn = Nobody /\ disk.state # "closed" => ext.turn[t] = "none" /\ pc[t] = "idle"

LaunchInv == TypeOK /\ ModeOK /\ LaunchOK /\ LaunchedOnce

-----------------------------------------------------------------------------
(***************************************************************************)
(* The outcomes of turns.                                                  *)
(***************************************************************************)

\* A participant's record credits it with an outcome that one of its turns has.
Credited(d, p, q) ==
  q.state \in {"responded", "failed"} => \E t \in TurnId : Of(t) = p /\ d.turn[t] = q.state

BackedDisk(d) ==
  /\ \A t \in TurnId : d.turn[t] = "responded" => t \in d.msgs
  /\ \A p \in Participant :
       /\ Credited(d, p, d.part[p]) /\ Credited(d, p, d.file[p])
       /\ d.file[p].turn = Nobody => d.part[p].turn = Nobody

\* Until the snapshot names the turns nothing has happened but the writes of
\* a preparation that a crash cut short.
FreshOK ==
  ~TurnsPrepared =>
    /\ disk.state \in {"none", "created"}
    /\ \A p \in Participant : disk.part[p].turn = Nobody
    /\ \A t \in TurnId : disk.turn[t] \in {"none", "prepared"} /\ ext.turn[t] = "none" /\ pc[t] = "idle"
    /\ \A a \in Action : disk.intent[a].st = "none" /\ act[a].at = "idle"
    /\ act[Controller].at \in {"idle", "prepare"}

\* The stored outcome of a turn of a session is what its driver said.
DriverSaid ==
  disk.mode = "session" =>
    \A t \in TurnId : disk.turn[t] \in {"responded", "failed"} => ext.turn[t] = disk.turn[t]

OutcomeInv == LaunchInv /\ BackedDisk(disk) /\ FreshOK /\ DriverSaid

\* The lifetime of a session does not end before its first turns are prepared.
LongEnough == expired => TurnsPrepared

-----------------------------------------------------------------------------
(***************************************************************************)
(* What a write does to the files of a Team.                               *)
(***************************************************************************)

\* A turn that is over stays so, or an indeterminate one was stopped.
Kept(d, e) ==
  \A t \in TurnId : terminalTeamTurn(d.turn[t]) =>
    e.turn[t] = d.turn[t] \/ (d.turn[t] = "indeterminate" /\ e.turn[t] = "cancelled")

\* No turn of a panel becomes launchable but by the preparation.
Advances(d, e) ==
  \A t \in TurnId : e.turn[t] \in {"none", "prepared"} =>
    d.turn[t] \in {"none", "prepared"} \/ (d.part[Of(t)].turn = Nobody /\ d.state # "closed")

\* A panel never opens again, and a snapshot never forgets a turn.
Onward(d, e) ==
  /\ d.mode = "panel" => Advances(d, e) /\ (d.state = "closed" => e.state = "closed")
  /\ d.mode = "panel" \/ BackedDisk(d) =>
       \A p \in Participant : d.part[p].turn # Nobody => e.part[p].turn # Nobody

\* The disks that a mutation of d may leave.
Sane(d, e) ==
  /\ e \in Disk /\ e.mode = d.mode
  /\ Onward(d, e)
  /\ Kept(d, e) /\ BackedDisk(d) => BackedDisk(e)

\* The parts of the files that the outcome of turns is about.
SameCore(d, e) ==
  /\ e \in Disk /\ e.mode = d.mode /\ e.state = d.state /\ e.part = d.part /\ e.file = d.file
  /\ e.turn = d.turn /\ e.msgs = d.msgs

\* The same but for the state of the Team.
SameParts(d, e) ==
  /\ e \in Disk /\ e.mode = d.mode /\ e.part = d.part /\ e.file = d.file
  /\ e.turn = d.turn /\ e.msgs = d.msgs
  /\ d.mode = "panel" /\ d.state = "closed" => e.state = "closed"

\* The turn t comes to the state s, then its participant to q: the turn's own
\* file first, then the participant's, then the snapshot.
Ends(d, e, t, s, q) ==
  /\ e \in Disk /\ e.mode = d.mode /\ d.msgs \subseteq e.msgs
  /\ d.mode = "panel" /\ d.state = "closed" => e.state = "closed"
  /\ \/ e.turn = d.turn /\ e.part = d.part /\ e.file = d.file
     \/ /\ e.turn = [d.turn EXCEPT ![t] = s]
        /\ s = "responded" => t \in e.msgs
        /\ \/ e.part = d.part /\ e.file = d.file
           \/ e.part = d.part /\ e.file = [d.file EXCEPT ![Of(t)] = q]
           \/ e.part = [d.part EXCEPT ![Of(t)] = q] /\ e.file = [d.file EXCEPT ![Of(t)] = q]

\* What the participant of a turn t that came to s may be said to have done.
Fits(d, t, s, q) ==
  /\ q \in Participation
  /\ q.state \in {"responded", "failed"} => q.state = s
  /\ q.turn = Nobody => d.part[Of(t)].turn = Nobody

LEMMA TurnsOf ==
  ASSUME NEW t \in TurnId
  PROVE  Of(t) \in Participant
  BY DEF TurnId, Of

LEMMA WroteTurn ==
  ASSUME NEW d \in Disk, NEW t \in TurnId, NEW s \in TurnStates
  PROVE  LET e == WriteTeamTurn(d, t, s)
         IN /\ e \in Disk
            /\ e.mode = d.mode /\ e.state = d.state /\ e.part = d.part /\ e.file = d.file /\ e.msgs = d.msgs
            /\ e.turn = [d.turn EXCEPT ![t] = s]
  BY DEF Disk, WriteTeamTurn

LEMMA WroteParticipant ==
  ASSUME NEW d \in Disk, NEW p \in Participant, NEW q \in Participation
  PROVE  LET e == WriteTeamParticipant(d, p, q)
         IN /\ e \in Disk
            /\ e.mode = d.mode /\ e.state = d.state /\ e.part = d.part /\ e.turn = d.turn /\ e.msgs = d.msgs
            /\ e.file = [d.file EXCEPT ![p] = q]
  BY DEF Disk, WriteTeamParticipant

LEMMA WroteExecution ==
  ASSUME NEW d \in Disk, NEW t \in TurnId
  PROVE  SameCore(d, WriteTeamExecution(d, t))
  BY DEF Disk, WriteTeamExecution, SameCore

LEMMA WroteSession ==
  ASSUME NEW d \in Disk, NEW p \in Participant, NEW s \in SessionStates
  PROVE  SameCore(d, WriteTeamParticipantSession(d, p, s))
  BY DEF Disk, WriteTeamParticipantSession, SameCore

LEMMA AppendedMessage ==
  ASSUME NEW d \in Disk, NEW x \in TurnId \cup FollowUp
  PROVE  LET e == AppendTeamMessage(d, x)
         IN /\ e \in Disk
            /\ e.mode = d.mode /\ e.state = d.state /\ e.part = d.part /\ e.file = d.file /\ e.turn = d.turn
            /\ e.msgs = d.msgs \cup {x} /\ e.reason = d.reason
  BY DEF Disk, AppendTeamMessage

LEMMA WroteIntent ==
  ASSUME NEW d \in Disk, NEW a \in Action, NEW i \in Intent
  PROVE  SameCore(d, WriteTeamActionIntent(d, a, i))
  BY DEF Disk, WriteTeamActionIntent, SameCore

LEMMA WroteSnapshot ==
  ASSUME NEW d \in Disk, NEW s \in LifecycleStates, NEW r \in CloseReasons,
         NEW part \in [Participant -> Participation]
  PROVE  LET e == WriteTeamSnapshot(d, s, r, part)
         IN /\ e \in Disk /\ e.state = s /\ e.part = part
            /\ e.mode = d.mode /\ e.file = d.file /\ e.turn = d.turn /\ e.msgs = d.msgs
<1> DEFINE e == WriteTeamSnapshot(d, s, r, part)
<1>1. /\ e.mode = d.mode /\ e.file = d.file /\ e.turn = d.turn /\ e.msgs = d.msgs
      /\ e.state = s /\ e.part = part /\ e.reason = r /\ e.ver = d.ver + 1
  BY DEF Disk, WriteTeamSnapshot
<1>2. e.ver \in Nat
  BY <1>1 DEF Disk
<1>3. e \in Disk
  BY <1>1, <1>2 DEF Disk, WriteTeamSnapshot
<1> QED BY <1>1, <1>3

LEMMA WroteLifecycle ==
  ASSUME NEW d \in Disk, NEW s \in LifecycleStates, NEW r \in CloseReasons
  PROVE  LET e == Lifecycle(d, s, r)
         IN /\ e \in Disk /\ e.state = s
            /\ e.mode = d.mode /\ e.part = d.part /\ e.file = d.file /\ e.turn = d.turn /\ e.msgs = d.msgs
<1> DEFINE e == Lifecycle(d, s, r)
<1>1. /\ e.mode = d.mode /\ e.part = d.part /\ e.file = d.file /\ e.turn = d.turn /\ e.msgs = d.msgs
      /\ e.state = s /\ e.reason = r
  BY DEF Disk, Lifecycle
<1>2. e \in Disk
  BY <1>1 DEF Disk, Lifecycle
<1> QED BY <1>1, <1>2

LEMMA WroteMoved ==
  ASSUME NEW d \in Disk, NEW turns \in [TurnId -> TurnStates], NEW files \in [Participant -> Participation]
  PROVE  LET e == Moved(d, turns, files)
         IN /\ e \in Disk
            /\ e.mode = d.mode /\ e.state = d.state /\ e.part = d.part /\ e.msgs = d.msgs
            /\ e.file = files /\ e.turn = turns /\ e.reason = d.reason /\ e.intent = d.intent
<1> DEFINE e == Moved(d, turns, files)
<1>1. /\ e.mode = d.mode /\ e.state = d.state /\ e.part = d.part /\ e.msgs = d.msgs
      /\ e.file = files /\ e.turn = turns /\ e.reason = d.reason /\ e.intent = d.intent
  BY DEF Disk, Moved
<1>2. e \in Disk
  BY <1>1 DEF Disk, Moved
<1> QED BY <1>1, <1>2

LEMMA DiskParts ==
  ASSUME NEW d \in Disk
  PROVE  /\ d.state \in LifecycleStates /\ d.reason \in CloseReasons /\ d.mode \in {"panel", "session"}
         /\ d.part \in [Participant -> Participation] /\ d.file \in [Participant -> Participation]
         /\ d.turn \in [TurnId -> TurnStates] /\ d.exec \subseteq TurnId
         /\ d.intent \in [Action -> Intent] /\ d.msgs \subseteq TurnId \cup FollowUp
         /\ d.sess \in [Participant -> SessionStates]
  BY DEF Disk

LEMMA StateNames ==
  /\ {"created", "running", "open", "closing", "cancelling", "closed"} \subseteq LifecycleStates
  /\ {"none", "panel_settled", "host_closed", "cancelled"} \subseteq CloseReasons
  /\ {"prepared", "dispatching", "active", "responded", "failed", "indeterminate", "cancelling", "cancelled"}
       \subseteq TurnStates
  /\ {"active", "parked", "lost", "closed"} \subseteq SessionStates
  BY DEF LifecycleStates, CloseReasons, TurnStates, SessionStates

\* The end of a round closes a panel, and opens a session that is not closing.
LEMMA SettledRound ==
  ASSUME NEW d \in Disk, NEW b \in BOOLEAN
  PROVE  SameParts(d, settleTerminalRound(d, b))
<1> DEFINE e == settleTerminalRound(d, b)
<1>1. d.mode \in {"panel", "session"}
  BY DEF Disk
<1>2. CASE e = d
  BY <1>2 DEF SameParts
<1>3. CASE e # d /\ d.mode = "panel"
  <2>1. e = Lifecycle(d, "closed", "panel_settled")
    BY <1>3 DEF settleTerminalRound
  <2>2. "closed" \in LifecycleStates /\ "panel_settled" \in CloseReasons
    BY StateNames
  <2> QED BY <2>1, <2>2, WroteLifecycle DEF SameParts
<1>4. CASE e # d /\ d.mode = "session"
  <2>1. e = Lifecycle(d, "open", "none")
    BY <1>4 DEF settleTerminalRound
  <2>2. "open" \in LifecycleStates /\ "none" \in CloseReasons
    BY StateNames
  <2> QED BY <1>4, <2>1, <2>2, WroteLifecycle DEF SameParts
<1> QED BY <1>1, <1>2, <1>3, <1>4

\* The participant after its turn: its file, then the snapshot.
LEMMA SettledParticipant ==
  ASSUME NEW d \in Disk, NEW p \in Participant, NEW q \in Participation,
         NEW e \in Disks(SettleParticipant(d, p, q))
  PROVE  /\ e \in Disk /\ e.mode = d.mode /\ e.turn = d.turn /\ e.msgs = d.msgs
         /\ d.mode = "panel" /\ d.state = "closed" => e.state = "closed"
         /\ e.file = [d.file EXCEPT ![p] = q]
         /\ e.part = d.part \/ e.part = [d.part EXCEPT ![p] = q]
<1> DEFINE f == WriteTeamParticipant(d, p, q)
           part == [d.part EXCEPT ![p] = q]
           s == WriteTeamSnapshot(f, d.state, d.reason, part)
           r == settleTerminalRound(s, ParticipantsSettled(s))
<1>1. /\ f \in Disk /\ f.mode = d.mode /\ f.state = d.state /\ f.part = d.part /\ f.turn = d.turn /\ f.msgs = d.msgs
      /\ f.file = [d.file EXCEPT ![p] = q]
  BY WroteParticipant
<1>2. part \in [Participant -> Participation] /\ d.state \in LifecycleStates /\ d.reason \in CloseReasons
  BY DiskParts
<1> HIDE DEF f, part
<1>3. /\ s \in Disk /\ s.state = d.state /\ s.part = part
      /\ s.mode = d.mode /\ s.file = f.file /\ s.turn = d.turn /\ s.msgs = d.msgs
  BY <1>1, <1>2, WroteSnapshot
<1> HIDE DEF s
<1>4. ParticipantsSettled(s) \in BOOLEAN
  BY DEF ParticipantsSettled
<1>5. SameParts(s, r)
  BY <1>3, <1>4, SettledRound
<1>6. e = f \/ e = r
  BY DEF Disks, SettleParticipant, Writes, f, part, s
<1> HIDE DEF r
<1>7. CASE e = f
  BY <1>1, <1>7
<1>8. CASE e = r
  <2>1. part = [d.part EXCEPT ![p] = q]
    BY DEF part
  <2> QED BY <1>1, <1>3, <1>5, <1>8, <2>1 DEF SameParts
<1> QED BY <1>6, <1>7, <1>8

-----------------------------------------------------------------------------
(***************************************************************************)
(* What the mutations of one turn do.                                      *)
(***************************************************************************)

\* A turn written, then its participant settled.
LEMMA TurnThenParticipant ==
  ASSUME NEW d \in Disk, NEW m \in Disk, NEW t \in TurnId, NEW s \in TurnStates, NEW q \in Participation,
         m.mode = d.mode, m.state = d.state, m.part = d.part, m.file = d.file, m.turn = d.turn,
         d.msgs \subseteq m.msgs, s = "responded" => t \in m.msgs,
         NEW e \in {m, WriteTeamTurn(m, t, s)} \cup Disks(SettleParticipant(WriteTeamTurn(m, t, s), Of(t), q))
  PROVE  Ends(d, e, t, s, q)
<1> DEFINE w == WriteTeamTurn(m, t, s)
<1>1. /\ w \in Disk /\ w.mode = m.mode /\ w.state = m.state /\ w.part = m.part /\ w.file = m.file /\ w.msgs = m.msgs
      /\ w.turn = [m.turn EXCEPT ![t] = s]
  BY WroteTurn
<1>2. e = m \/ e = w \/ e \in Disks(SettleParticipant(w, Of(t), q))
  OBVIOUS
<1> HIDE DEF w
<1>3. CASE e = m
  BY <1>3 DEF Ends
<1>4. CASE e = w
  BY <1>1, <1>4 DEF Ends
<1>5. CASE e \in Disks(SettleParticipant(w, Of(t), q))
  <2>1. /\ e \in Disk /\ e.mode = w.mode /\ e.turn = w.turn /\ e.msgs = w.msgs
        /\ w.mode = "panel" /\ w.state = "closed" => e.state = "closed"
        /\ e.file = [w.file EXCEPT ![Of(t)] = q]
        /\ e.part = w.part \/ e.part = [w.part EXCEPT ![Of(t)] = q]
    BY <1>1, <1>5, TurnsOf, SettledParticipant
  <2> QED BY <1>1, <2>1 DEF Ends
<1> QED BY <1>2, <1>3, <1>4, <1>5

\* A stored answer: the message, the turn, the participant, the snapshot.
LEMMA Contributed ==
  ASSUME NEW d \in Disk, NEW t \in TurnId, NEW e \in Disks(commitContribution(d, t))
  PROVE  /\ Ends(d, e, t, "responded", [state |-> "responded", turn |-> t])
         /\ e = d \/ d.turn[t] = "active"
<1> DEFINE q == [state |-> "responded", turn |-> t]
           m == AppendTeamMessage(d, t)
           r == WriteTeamTurn(m, t, "responded")
<1>1. CASE d.turn[t] # "active"
  <2>1. e = d
    BY <1>1 DEF Disks, commitContribution, Written, Writes
  <2> QED BY <2>1 DEF Ends
<1>2. CASE d.turn[t] = "active"
  <2>1. e \in {m, r} \cup Disks(SettleParticipant(r, Of(t), q))
    BY <1>2 DEF Disks, commitContribution, After, Writes
  <2>2. /\ m \in Disk /\ m.mode = d.mode /\ m.state = d.state /\ m.part = d.part /\ m.file = d.file
        /\ m.turn = d.turn /\ m.msgs = d.msgs \cup {t}
    BY AppendedMessage
  <2>3. q \in Participation
    BY DEF Participation, ParticipantStates
  <2>4. "responded" \in TurnStates
    BY StateNames
  <2> HIDE DEF m, q
  <2>5. Ends(d, e, t, "responded", q)
    BY <2>1, <2>2, <2>3, <2>4, TurnThenParticipant
  <2> QED BY <1>2, <2>5 DEF q
<1> QED BY <1>1, <1>2

\* A turn given up: the turn, the participant, the snapshot.
LEMMA MarkedFailure ==
  ASSUME NEW d \in Disk, NEW t \in TurnId, NEW s \in {"failed", "indeterminate", "cancelled"},
         NEW e \in Disks(markTurnFailure(d, t, s))
  PROVE  /\ \E q : Ends(d, e, t, s, q) /\ Fits(d, t, s, q)
         /\ e = d \/ d.turn[t] \in {"prepared", "dispatching", "active"}
<1> DEFINE q == [d.part[Of(t)] EXCEPT !.state = participantStateForTurn(s)]
           r == WriteTeamTurn(d, t, s)
<1>1. s \in TurnStates
  BY StateNames
<1>2. Of(t) \in Participant
  BY TurnsOf
<1>3. d.part[Of(t)] \in Participation
  BY <1>2, DiskParts
<1>4. participantStateForTurn(s) = s /\ s \in ParticipantStates
  BY DEF participantStateForTurn, terminalTeamTurn, ParticipantStates
<1>5. q.state = s /\ q.turn = d.part[Of(t)].turn
  BY <1>3, <1>4 DEF Participation
<1>6. q \in Participation
  BY <1>3, <1>4 DEF Participation
<1>7. Fits(d, t, s, q)
  BY <1>5, <1>6 DEF Fits
<1>8. CASE d.turn[t] \notin {"prepared", "dispatching", "active"}
  <2>1. e = d
    BY <1>8 DEF Disks, markTurnFailure, Written, Writes
  <2>2. Ends(d, e, t, s, q)
    BY <2>1 DEF Ends
  <2> HIDE DEF q
  <2> QED BY <1>7, <2>1, <2>2
<1>9. CASE d.turn[t] \in {"prepared", "dispatching", "active"}
  <2>1. e \in {d, r} \cup Disks(SettleParticipant(r, Of(t), q))
    BY <1>9 DEF Disks, markTurnFailure, After, Writes
  <2>2. s # "responded"
    OBVIOUS
  <2> HIDE DEF q
  <2>3. Ends(d, e, t, s, q)
    BY <1>1, <1>6, <2>1, <2>2, TurnThenParticipant
  <2> QED BY <1>7, <1>9, <2>3
<1> QED BY <1>8, <1>9

\* A turn marked for its cancellation: the turn, the snapshot.
LEMMA MarkedTurn ==
  ASSUME NEW d \in Disk, NEW t \in TurnId, NEW e \in Disks(MarkTurn(d, t))
  PROVE  /\ \A q : Ends(d, e, t, "cancelling", q)
         /\ e = d \/ d.turn[t] = "active"
<1> DEFINE w == WriteTeamTurn(d, t, "cancelling")
           s == WriteTeamSnapshot(w, d.state, d.reason, d.part)
<1>1. CASE d.turn[t] # "active"
  <2>1. e = d
    BY <1>1 DEF Disks, MarkTurn, Written, Writes
  <2> QED BY <2>1 DEF Ends
<1>2. CASE d.turn[t] = "active"
  <2>1. e = w \/ e = s
    BY <1>2 DEF Disks, MarkTurn, Writes
  <2>2. "cancelling" \in TurnStates
    BY StateNames
  <2>3. /\ w \in Disk /\ w.mode = d.mode /\ w.state = d.state /\ w.part = d.part /\ w.file = d.file /\ w.msgs = d.msgs
        /\ w.turn = [d.turn EXCEPT ![t] = "cancelling"]
    BY <2>2, WroteTurn
  <2> HIDE DEF w
  <2>4. /\ s \in Disk /\ s.state = d.state /\ s.part = d.part
        /\ s.mode = w.mode /\ s.file = w.file /\ s.turn = w.turn /\ s.msgs = w.msgs
    BY <2>3, WroteSnapshot, DiskParts
  <2> HIDE DEF s
  <2> QED BY <1>2, <2>1, <2>3, <2>4 DEF Ends
<1> QED BY <1>1, <1>2

\* The end of a cancelled turn, new or found there.
NewlyCancelled(d, t) == completeCancelledTurn(d, t, TRUE)
FoundCancelled(d, t) == completeCancelledTurn(d, t, FALSE)

LEMMA CompletedCancel ==
  ASSUME NEW d \in Disk, NEW t \in TurnId, NEW c,
         c = NewlyCancelled(d, t) \/ (c = FoundCancelled(d, t) /\ d.turn[t] = "cancelled"),
         NEW e \in Disks(c)
  PROVE  \E q : Ends(d, e, t, "cancelled", q) /\ Fits(d, t, "cancelled", q)
<1> DEFINE p == Of(t)
           q == [d.part[p] EXCEPT !.state = "cancelled"]
           part == [d.part EXCEPT ![p] = q]
           file(x) == WriteTeamParticipant(x, p, q)
           snap(x) == WriteTeamSnapshot(file(x), d.state, d.reason, part)
           round(x) == settleTerminalRound(snap(x), currentParticipantsTerminal(snap(x)))
<1>1. p \in Participant /\ d.part[p] \in Participation
  BY TurnsOf, DiskParts
<1>2. "cancelled" \in TurnStates /\ "cancelled" \in ParticipantStates
  BY DEF TurnStates, ParticipantStates
<1>3. q \in Participation /\ q.state = "cancelled" /\ q.turn = d.part[p].turn
  BY <1>1, <1>2 DEF Participation
<1>4. Fits(d, t, "cancelled", q)
  BY <1>3 DEF Fits
<1>5. PICK w : /\ w = WriteTeamTurn(d, t, "cancelled") \/ (w = d /\ d.turn[t] = "cancelled")
               /\ e \in {d, w, file(w), round(w)}
  <2>1. CASE c = NewlyCancelled(d, t)
    <3> DEFINE w == WriteTeamTurn(d, t, "cancelled")
    <3>1. e \in {w, file(w), round(w)}
      BY <2>1 DEF NewlyCancelled, Disks, completeCancelledTurn, Writes
    <3> HIDE DEF file, round
    <3> QED BY <3>1
  <2>2. CASE c = FoundCancelled(d, t) /\ d.turn[t] = "cancelled"
    <3>1. e \in {d, file(d), round(d)}
      BY <2>2 DEF FoundCancelled, Disks, completeCancelledTurn, Writes, Written
    <3> HIDE DEF file, round
    <3> QED BY <2>2, <3>1
  <2> QED BY <2>1, <2>2
<1> DEFINE f == WriteTeamParticipant(w, p, q)
           s == WriteTeamSnapshot(f, d.state, d.reason, part)
           r == settleTerminalRound(s, currentParticipantsTerminal(s))
<1>a. e \in {d, w, f, r}
  BY <1>5
<1> HIDE DEF file, snap, round
<1>6. /\ w \in Disk /\ w.mode = d.mode /\ w.state = d.state /\ w.part = d.part /\ w.file = d.file /\ w.msgs = d.msgs
      /\ w.turn = [d.turn EXCEPT ![t] = "cancelled"]
  <2>1. CASE w = WriteTeamTurn(d, t, "cancelled")
    BY <1>2, <2>1, WroteTurn
  <2>2. CASE w = d /\ d.turn[t] = "cancelled"
    <3>1. d.turn = [d.turn EXCEPT ![t] = "cancelled"]
      BY <2>2, DiskParts
    <3> QED BY <2>2, <3>1
  <2> QED BY <1>5, <2>1, <2>2
<1>7. part \in [Participant -> Participation] /\ part = [d.part EXCEPT ![p] = q]
  BY <1>1, <1>3, DiskParts
<1> HIDE DEF q, part
<1>8. /\ f \in Disk /\ f.mode = w.mode /\ f.state = w.state /\ f.part = w.part /\ f.turn = w.turn /\ f.msgs = w.msgs
      /\ f.file = [w.file EXCEPT ![p] = q]
  BY <1>1, <1>3, <1>6, WroteParticipant
<1> HIDE DEF f
<1>9. /\ s \in Disk /\ s.state = d.state /\ s.part = part
      /\ s.mode = f.mode /\ s.file = f.file /\ s.turn = f.turn /\ s.msgs = f.msgs
  <2>1. d.state \in LifecycleStates /\ d.reason \in CloseReasons /\ f \in Disk
    BY <1>8, DiskParts
  <2>2. part \in [Participant -> Participation]
    BY <1>7
  <2> QED BY <2>1, <2>2, WroteSnapshot
<1> HIDE DEF s
<1>10. currentParticipantsTerminal(s) \in BOOLEAN
  BY DEF currentParticipantsTerminal
<1>11. SameParts(s, r)
  BY <1>9, <1>10, SettledRound
<1> HIDE DEF r
<1>12. Ends(d, e, t, "cancelled", q)
  <2>1. CASE e = d
    BY <2>1 DEF Ends
  <2>2. CASE e = w
    BY <1>6, <2>2 DEF Ends
  <2>3. CASE e = f
    BY <1>6, <1>8, <2>3 DEF Ends
  <2>4. CASE e = r
    <3>1. /\ r \in Disk /\ r.mode = d.mode /\ r.msgs = d.msgs
          /\ d.mode = "panel" /\ d.state = "closed" => r.state = "closed"
          /\ r.turn = [d.turn EXCEPT ![t] = "cancelled"]
          /\ r.part = [d.part EXCEPT ![p] = q] /\ r.file = [d.file EXCEPT ![p] = q]
      BY <1>6, <1>7, <1>8, <1>9, <1>11 DEF SameParts
    <3> QED BY <2>4, <3>1 DEF Ends
  <2> QED BY <1>a, <2>1, <2>2, <2>3, <2>4
<1> QED BY <1>4, <1>12

-----------------------------------------------------------------------------
(***************************************************************************)
(* Why these mutations leave sane disks.                                   *)
(***************************************************************************)

LEMMA SamePartsIsSane ==
  ASSUME NEW d \in Disk, NEW e, SameParts(d, e)
  PROVE  Sane(d, e) /\ Kept(d, e)
<1>1. BackedDisk(d) => BackedDisk(e)
  BY DEF SameParts, BackedDisk, Credited
<1>2. Kept(d, e)
  BY DEF SameParts, Kept
<1>3. Onward(d, e)
  BY DEF SameParts, Onward, Advances
<1> QED BY <1>1, <1>2, <1>3 DEF SameParts, Sane

LEMMA SameCoreIsSane ==
  ASSUME NEW d \in Disk, NEW e, SameCore(d, e)
  PROVE  Sane(d, e) /\ Kept(d, e)
<1>1. SameParts(d, e)
  BY DEF SameCore, SameParts
<1> QED BY <1>1, SamePartsIsSane

LEMMA EndsAfterSameCore ==
  ASSUME NEW d \in Disk, NEW m, SameCore(d, m), NEW e, NEW t, NEW s, NEW q, Ends(m, e, t, s, q)
  PROVE  Ends(d, e, t, s, q)
  BY DEF SameCore, Ends

LEMMA SameCoreAfterEnds ==
  ASSUME NEW d \in Disk, NEW m, NEW e, SameCore(m, e), NEW t, NEW s, NEW q, Ends(d, m, t, s, q)
  PROVE  Ends(d, e, t, s, q)
  BY DEF SameCore, Ends

LEMMA EndsIsSane ==
  ASSUME NEW d \in Disk, NEW t \in TurnId, NEW s \in TurnStates \ {"none", "prepared"}, NEW q, Fits(d, t, s, q),
         NEW e, Ends(d, e, t, s, q)
  PROVE  Sane(d, e)
<1>1. Of(t) \in Participant
  BY TurnsOf
<1>2. /\ d.part \in [Participant -> Participation] /\ d.file \in [Participant -> Participation]
      /\ d.turn \in [TurnId -> TurnStates]
  BY DiskParts
<1>3. e \in Disk /\ e.mode = d.mode
  BY DEF Ends
<1>4. \A u \in TurnId : e.turn[u] = d.turn[u] \/ (u = t /\ e.turn[u] = s)
  BY <1>2 DEF Ends
<1>5. Onward(d, e)
  <2>1. Advances(d, e)
    BY <1>4 DEF Advances
  <2>2. \A p \in Participant : d.part[p].turn # Nobody => e.part[p].turn # Nobody
    BY <1>1, <1>2 DEF Ends, Fits
  <2> QED BY <2>1, <2>2 DEF Onward, Ends
<1>6. ASSUME Kept(d, e), BackedDisk(d) PROVE BackedDisk(e)
  <2>1. ASSUME NEW u \in TurnId, e.turn[u] = "responded" PROVE u \in e.msgs
    <3>1. CASE e.turn[u] = d.turn[u]
      BY <1>6, <2>1, <3>1 DEF BackedDisk, Ends
    <3>2. CASE e.turn[u] # d.turn[u]
      <4>1. u = t /\ s = "responded"
        BY <1>4, <2>1, <3>2
      <4> QED BY <3>2, <4>1 DEF Ends
    <3> QED BY <3>1, <3>2
  <2>2. ASSUME NEW p \in Participant, NEW x, Credited(d, p, x) PROVE Credited(e, p, x)
    <3>1. \A u \in TurnId : d.turn[u] \in {"responded", "failed"} => e.turn[u] = d.turn[u]
      BY <1>6 DEF Kept, terminalTeamTurn
    <3> QED BY <2>2, <3>1 DEF Credited
  <2>3. e.turn # d.turn \/ e.part # d.part \/ e.file # d.file => e.turn[t] = s
    BY <1>2 DEF Ends
  <2>4. e.turn[t] = s => Credited(e, Of(t), q)
    BY DEF Credited, Fits
  <2>5. ASSUME NEW p \in Participant PROVE Credited(e, p, e.part[p]) /\ Credited(e, p, e.file[p])
    <3>1. Credited(e, p, d.part[p]) /\ Credited(e, p, d.file[p])
      BY <1>6, <2>2 DEF BackedDisk
    <3>2. e.part[p] = d.part[p] \/ (p = Of(t) /\ e.part[p] = q /\ e.turn[t] = s)
      BY <1>1, <1>2 DEF Ends
    <3>3. e.file[p] = d.file[p] \/ (p = Of(t) /\ e.file[p] = q /\ e.turn[t] = s)
      BY <1>1, <1>2 DEF Ends
    <3> QED BY <2>4, <3>1, <3>2, <3>3
  <2>6. ASSUME NEW p \in Participant, e.file[p].turn = Nobody PROVE e.part[p].turn = Nobody
    <3>1. d.file[p].turn = Nobody => d.part[p].turn = Nobody
      BY <1>6 DEF BackedDisk
    <3> QED BY <1>1, <1>2, <2>6, <3>1 DEF Ends, Fits
  <2> QED BY <2>1, <2>5, <2>6 DEF BackedDisk
<1> QED BY <1>3, <1>5, <1>6 DEF Sane

-----------------------------------------------------------------------------
(***************************************************************************)
(* The mutations of many turns.                                            *)
(***************************************************************************)

\* An outcome that is final is still credited.
LEMMA CreditKept ==
  ASSUME NEW d, NEW e, Kept(d, e), NEW p, NEW x, Credited(d, p, x)
  PROVE  Credited(e, p, x)
<1>1. \A u \in TurnId : d.turn[u] \in {"responded", "failed"} => e.turn[u] = d.turn[u]
  BY DEF Kept, terminalTeamTurn
<1> QED BY <1>1 DEF Credited

LEMMA ManyIsSane ==
  ASSUME NEW d \in Disk, NEW e \in Disk, e.mode = d.mode, d.msgs \subseteq e.msgs, Onward(d, e),
         \A u \in TurnId : e.turn[u] = "responded" => d.turn[u] = "responded",
         \A p \in Participant : e.part[p] = d.part[p] \/ e.part[p] = d.file[p] \/ Credited(e, p, e.part[p]),
         \A p \in Participant : e.file[p] = d.file[p] \/ Credited(e, p, e.file[p]),
         \A p \in Participant : (d.file[p].turn = Nobody => d.part[p].turn = Nobody)
                                  => (e.file[p].turn = Nobody => e.part[p].turn = Nobody)
  PROVE  Sane(d, e)
<1>1. ASSUME Kept(d, e), BackedDisk(d) PROVE BackedDisk(e)
  <2>1. ASSUME NEW p \in Participant
        PROVE  Credited(e, p, d.part[p]) /\ Credited(e, p, d.file[p])
    <3>1. Credited(d, p, d.part[p]) /\ Credited(d, p, d.file[p])
      BY <1>1 DEF BackedDisk
    <3> QED BY <1>1, <3>1, CreditKept
  <2>2. ASSUME NEW u \in TurnId, e.turn[u] = "responded" PROVE u \in e.msgs
    BY <1>1, <2>2 DEF BackedDisk
  <2>3. ASSUME NEW p \in Participant
        PROVE  /\ Credited(e, p, e.part[p]) /\ Credited(e, p, e.file[p])
               /\ e.file[p].turn = Nobody => e.part[p].turn = Nobody
    <3>1. d.file[p].turn = Nobody => d.part[p].turn = Nobody
      BY <1>1 DEF BackedDisk
    <3> QED BY <2>1, <3>1
  <2> QED BY <2>2, <2>3 DEF BackedDisk
<1> QED BY <1>1 DEF Sane

LEMMA EveryonePast ==
  Past(Len(Order)) = Participant
<1>1. Order \in Seq(Participant) /\ Range(Order) = Participant
  BY ConstantsAssumption
<1>2. DOMAIN Order = 1..Len(Order)
  BY <1>1
<1> QED BY <1>1, <1>2 DEF Range, Past

\* The preparation: only participants without a turn get one.
LEMMA PreparedTurns ==
  ASSUME NEW d \in Disk, NEW e \in Disks(prepareInitialTurns(d))
  PROVE  /\ Sane(d, e)
         /\ \A u \in TurnId : \/ e.turn[u] = d.turn[u]
                              \/ e.turn[u] = "prepared" /\ d.part[Of(u)].turn = Nobody /\ d.state # "closed"
         /\ e = prepareInitialTurns(d).to =>
              d.state = "closed" \/ \A p \in Participant : e.part[p].turn # Nobody
         /\ \/ e.state = d.state /\ e.part = d.part /\ e.intent = d.intent
            \/ \A p \in Participant : e.part[p].turn # Nobody
<1> DEFINE missing == {p \in Participant : d.part[p].turn = Nobody}
           first(p) == [state |-> "running", turn |-> <<p, "initial">>]
           files(new) == [p \in Participant |-> IF p \in new THEN first(p) ELSE d.file[p]]
           turns(new) == [t \in TurnId |-> IF t[2] = "initial" /\ Of(t) \in new THEN "prepared" ELSE d.turn[t]]
           parts == [p \in Participant |-> IF p \in missing THEN first(p) ELSE d.part[p]]
           at(i, j) == Moved(d, turns(missing \cap Past(i)), files(missing \cap Past(j)))
           n == Len(Order)
           last == WriteTeamSnapshot(at(n, n), "running", d.reason, parts)
<1>1. /\ d.state \in LifecycleStates /\ d.reason \in CloseReasons
      /\ d.part \in [Participant -> Participation] /\ d.file \in [Participant -> Participation]
      /\ d.turn \in [TurnId -> TurnStates]
  BY DiskParts
<1>2. ASSUME NEW p \in Participant
      PROVE  first(p) \in Participation /\ first(p).state = "running" /\ first(p).turn # Nobody
  <2>1. <<p, "initial">> \in TurnId
    BY DEF TurnId
  <2>2. <<p, "initial">> # Nobody
    BY <2>1, ConstantsAssumption DEF TurnId
  <2> QED BY <2>1, <2>2 DEF Participation, ParticipantStates
<1>3. "running" \in LifecycleStates /\ "prepared" \in TurnStates
  BY StateNames
<1>4. CASE d.state = "closed" \/ missing = {}
  <2>1. e = d /\ prepareInitialTurns(d).to = d
    BY <1>4 DEF Disks, prepareInitialTurns, Written, Writes
  <2>2. SameCore(d, e)
    BY <2>1 DEF SameCore
  <2>3. Sane(d, e)
    BY <2>2, SameCoreIsSane
  <2> QED BY <1>4, <2>1, <2>3
<1>5. CASE d.state # "closed" /\ missing # {}
  <2>1. prepareInitialTurns(d) = Writes({at(i, i) : i \in 1..n} \cup {at(i, i - 1) : i \in 1..n}, last)
    BY <1>5 DEF prepareInitialTurns
  <2> HIDE DEF first
  <2>2. ASSUME NEW i, NEW j
        PROVE  /\ files(missing \cap Past(i)) \in [Participant -> Participation]
               /\ turns(missing \cap Past(j)) \in [TurnId -> TurnStates]
    BY <1>1, <1>2, <1>3
  <2>3. parts \in [Participant -> Participation]
    BY <1>1, <1>2
  <2> HIDE DEF files, turns, parts
  <2>4. ASSUME NEW i, NEW j
        PROVE  /\ at(i, j) \in Disk /\ at(i, j).mode = d.mode /\ at(i, j).state = d.state
               /\ at(i, j).part = d.part /\ at(i, j).msgs = d.msgs /\ at(i, j).intent = d.intent
               /\ at(i, j).file = files(missing \cap Past(j)) /\ at(i, j).turn = turns(missing \cap Past(i))
    BY <2>2, WroteMoved
  <2> HIDE DEF at, n
  <2>5. /\ last \in Disk /\ last.state = "running" /\ last.part = parts /\ last.mode = d.mode
        /\ last.file = files(missing \cap Past(n)) /\ last.turn = turns(missing \cap Past(n)) /\ last.msgs = d.msgs
    <3>1. /\ at(n, n) \in Disk /\ at(n, n).mode = d.mode /\ at(n, n).msgs = d.msgs
          /\ at(n, n).file = files(missing \cap Past(n)) /\ at(n, n).turn = turns(missing \cap Past(n))
      BY <2>4
    <3> QED BY <1>1, <1>3, <2>3, <3>1, WroteSnapshot
  <2> HIDE DEF last
  <2>6. e = last \/ \E i, j : e = at(i, j)
    <3>1. e = last \/ e \in {at(i, i) : i \in 1..n} \/ e \in {at(i, i - 1) : i \in 1..n}
      BY <2>1 DEF Disks, Writes
    <3> QED BY <3>1
  <2>7. PICK P, Q :
          /\ e \in Disk /\ e.mode = d.mode /\ e.msgs = d.msgs
          /\ e.turn = turns(missing \cap P) /\ e.file = files(missing \cap Q)
          /\ \/ e.state = d.state /\ e.part = d.part /\ e.intent = d.intent
             \/ e = last /\ e.state = "running" /\ e.part = parts /\ Q = Participant
    <3>1. CASE e = last
      BY <2>5, <3>1, EveryonePast DEF n
    <3>2. CASE \E i, j : e = at(i, j)
      <4>1. PICK i, j : e = at(i, j)
        BY <3>2
      <4>2. /\ e \in Disk /\ e.mode = d.mode /\ e.msgs = d.msgs /\ e.state = d.state /\ e.part = d.part
            /\ e.intent = d.intent /\ e.turn = turns(missing \cap Past(i)) /\ e.file = files(missing \cap Past(j))
        BY <2>4, <4>1
      <4> QED BY <4>2
    <3> QED BY <2>6, <3>1, <3>2
  <2>8. \A u \in TurnId : e.turn[u] = d.turn[u] \/ (e.turn[u] = "prepared" /\ d.part[Of(u)].turn = Nobody)
    BY <2>7 DEF turns
  <2>9. \A p \in Participant : e.file[p] = d.file[p] \/ (p \in missing /\ e.file[p] = first(p))
    BY <2>7 DEF files
  <2>10. \A p \in Participant : e.part[p] = d.part[p] \/ (p \in missing /\ e.part[p] = first(p) /\ e.file[p] = first(p))
    BY <2>7 DEF parts, files
  <2>11. Onward(d, e)
    <3>1. Advances(d, e)
      BY <1>5, <2>8 DEF Advances
    <3>2. \A p \in Participant : d.part[p].turn # Nobody => e.part[p].turn # Nobody
      BY <2>10
    <3> QED BY <1>5, <3>1, <3>2 DEF Onward
  <2>12. Sane(d, e)
    <3>1. \A p \in Participant : Credited(e, p, first(p))
      BY <1>2 DEF Credited
    <3>2. \A p \in Participant : (d.file[p].turn = Nobody => d.part[p].turn = Nobody)
                                   => (e.file[p].turn = Nobody => e.part[p].turn = Nobody)
      BY <1>2, <2>9, <2>10
    <3>3. \A u \in TurnId : e.turn[u] = "responded" => d.turn[u] = "responded"
      BY <2>8
    <3>4. /\ \A p \in Participant : e.part[p] = d.part[p] \/ e.part[p] = d.file[p] \/ Credited(e, p, e.part[p])
          /\ \A p \in Participant : e.file[p] = d.file[p] \/ Credited(e, p, e.file[p])
      BY <2>9, <2>10, <3>1
    <3> QED BY <2>7, <2>11, <3>2, <3>3, <3>4, ManyIsSane
  <2>13. \A p \in Participant : parts[p].turn # Nobody
    BY <1>2 DEF parts
  <2>14. e = prepareInitialTurns(d).to => \A p \in Participant : e.part[p].turn # Nobody
    <3>1. prepareInitialTurns(d).to = last
      BY <2>1 DEF Writes
    <3> QED BY <2>5, <2>13, <3>1
  <2> QED BY <1>5, <2>7, <2>8, <2>12, <2>13, <2>14
<1> QED BY <1>4, <1>5

LEMMA SaneBetween ==
  ASSUME NEW d \in Disk, NEW m, NEW n, NEW e, SameCore(d, m), Sane(m, n), SameCore(n, e)
  PROVE  Sane(d, e) /\ (Kept(m, n) => Kept(d, e))
<1>1. (BackedDisk(d) <=> BackedDisk(m)) /\ (BackedDisk(n) <=> BackedDisk(e))
  BY DEF SameCore, BackedDisk, Credited
<1>2. Kept(m, n) <=> Kept(d, e)
  BY DEF SameCore, Kept
<1>3. Advances(m, n) => Advances(d, e)
  BY DEF SameCore, Advances
<1>4. Onward(d, e)
  BY <1>1, <1>3 DEF SameCore, Sane, Onward
<1> QED BY <1>1, <1>2, <1>4 DEF SameCore, Sane

LEMMA UnconfirmedRecord ==
  ASSUME NEW q \in Participation
  PROVE  /\ Unconfirmed(q) \in Participation /\ Unconfirmed(q).state = "indeterminate"
         /\ Unconfirmed(q).turn = q.turn
<1>1. "indeterminate" \in ParticipantStates
  BY DEF ParticipantStates
<1> QED BY <1>1 DEF Unconfirmed, Participation

LEMMA EndedRecord ==
  ASSUME NEW q \in Participation
  PROVE  /\ Ended(q) \in Participation /\ Ended(q).turn = q.turn
         /\ q.state \in {"pending", "running"} => Ended(q).state = "cancelled"
         /\ q.state \notin {"pending", "running"} => Ended(q) = q
<1>1. "cancelled" \in ParticipantStates
  BY DEF ParticipantStates
<1>2. CASE q.state \in {"pending", "running"}
  <2>1. Ended(q) = [q EXCEPT !.state = "cancelled"]
    BY <1>2 DEF Ended
  <2> QED BY <1>1, <1>2, <2>1 DEF Participation
<1>3. CASE q.state \notin {"pending", "running"}
  BY <1>3 DEF Ended
<1> QED BY <1>2, <1>3

\* The records of participants whose turns are given up.
LEMMA GivenUpIsSane ==
  ASSUME NEW d \in Disk, NEW e \in Disk, e.mode = d.mode, e.msgs = d.msgs,
         d.mode = "panel" /\ d.state = "closed" => e.state = "closed",
         \A u \in TurnId : \/ e.turn[u] = d.turn[u]
                           \/ /\ ~terminalTeamTurn(d.turn[u])
                              /\ e.turn[u] \in {"cancelling", "indeterminate", "cancelled"},
         \A p \in Participant :
           /\ e.part[p] = d.part[p] \/ e.part[p].state \in {"indeterminate", "cancelled"}
           /\ e.part[p].turn = d.part[p].turn
           /\ \/ e.file[p] = d.file[p]
              \/ e.file[p].state \in {"indeterminate", "cancelled"} /\ e.file[p].turn = d.part[p].turn
  PROVE  Sane(d, e) /\ Kept(d, e)
<1>1. Kept(d, e)
  BY DEF Kept
<1>2. Advances(d, e)
  BY DEF Advances
<1>3. Onward(d, e)
  BY <1>2 DEF Onward
<1>4. /\ \A p \in Participant : e.part[p] = d.part[p] \/ e.part[p] = d.file[p] \/ Credited(e, p, e.part[p])
      /\ \A p \in Participant : e.file[p] = d.file[p] \/ Credited(e, p, e.file[p])
  BY DEF Credited
<1>5. \A u \in TurnId : e.turn[u] = "responded" => d.turn[u] = "responded"
  OBVIOUS
<1>6. \A p \in Participant : (d.file[p].turn = Nobody => d.part[p].turn = Nobody)
                               => (e.file[p].turn = Nobody => e.part[p].turn = Nobody)
  OBVIOUS
<1>7. Sane(d, e)
  BY <1>3, <1>4, <1>5, <1>6, ManyIsSane
<1> QED BY <1>1, <1>7

\* The first half of the cancellation of a panel.
LEMMA MarkedTurns ==
  ASSUME NEW d \in Disk, d.state # "closed",
         NEW e \in Disks(MarkTurns(d)) \cup {CancellingSnapshot(d, MarkTurns(d).to)}
  PROVE  /\ Sane(d, e) /\ Kept(d, e)
         /\ \A u \in TurnId : e.turn[u] = d.turn[u] \/ ~terminalTeamTurn(d.turn[u])
<1> DEFINE turns(T) == [t \in TurnId |-> IF t \in T THEN MarkCancelling(d.turn[t]) ELSE d.turn[t]]
           files(T) == [p \in Participant |->
                          IF \E t \in T : Of(t) = p /\ d.turn[t] = "dispatching" THEN Unconfirmed(d.part[p]) ELSE d.file[p]]
           at(T, F) == Moved(d, turns(T), files(F))
           all == TurnIds(d)
           last == at(all, all)
           parts == [p \in Participant |-> IF Dispatching(d, p) THEN Unconfirmed(d.part[p]) ELSE d.part[p]]
           snap == WriteTeamSnapshot(last, "cancelling", d.reason, parts)
<1>1. /\ d.part \in [Participant -> Participation] /\ d.file \in [Participant -> Participation]
      /\ d.turn \in [TurnId -> TurnStates] /\ d.reason \in CloseReasons
  BY DiskParts
<1>2. MarkTurns(d) = Writes({at(T, T) : T \in SUBSET all} \cup UNION {{at(T \cup {t}, T) : T \in SUBSET all} : t \in all}, last)
  BY DEF MarkTurns
<1>3. \A s \in TurnStates :
        /\ MarkCancelling(s) \in TurnStates
        /\ MarkCancelling(s) = s \/ (~terminalTeamTurn(s) /\ MarkCancelling(s) \in {"cancelling", "indeterminate"})
  BY DEF MarkCancelling, TurnStates, terminalTeamTurn
<1>4. ASSUME NEW T, NEW F
      PROVE  turns(T) \in [TurnId -> TurnStates] /\ files(F) \in [Participant -> Participation]
  BY <1>1, <1>3, UnconfirmedRecord
<1>5. parts \in [Participant -> Participation]
  BY <1>1, UnconfirmedRecord
<1> HIDE DEF turns, files, parts
<1>6. ASSUME NEW T, NEW F
      PROVE  /\ at(T, F) \in Disk /\ at(T, F).mode = d.mode /\ at(T, F).state = d.state
             /\ at(T, F).part = d.part /\ at(T, F).msgs = d.msgs /\ at(T, F).reason = d.reason
             /\ at(T, F).file = files(F) /\ at(T, F).turn = turns(T)
  BY <1>4, WroteMoved
<1> HIDE DEF at, all
<1>7. /\ last \in Disk /\ last.mode = d.mode /\ last.state = d.state /\ last.part = d.part
      /\ last.msgs = d.msgs /\ last.file = files(all) /\ last.turn = turns(all) /\ last.reason = d.reason
  BY <1>6
<1> HIDE DEF last
<1>8. "cancelling" \in LifecycleStates
  BY StateNames
<1>9. /\ snap \in Disk /\ snap.state = "cancelling" /\ snap.part = parts
      /\ snap.mode = d.mode /\ snap.file = files(all) /\ snap.turn = turns(all) /\ snap.msgs = d.msgs
  BY <1>1, <1>5, <1>7, <1>8, WroteSnapshot
<1>10. e = snap \/ \E T, F : e = at(T, F)
  <2>1. MarkTurns(d).to = last
    BY <1>2 DEF Writes
  <2>2. CancellingSnapshot(d, last) \in {last, snap}
    BY <1>7 DEF CancellingSnapshot, parts, snap
  <2>3. \/ e = last \/ e = snap
        \/ e \in {at(T, T) : T \in SUBSET all} \/ e \in UNION {{at(T \cup {t}, T) : T \in SUBSET all} : t \in all}
    BY <1>2, <2>1, <2>2 DEF Disks, Writes
  <2> HIDE DEF snap
  <2>4. last = at(all, all)
    BY DEF last
  <2>5. e \in {at(T, T) : T \in SUBSET all} => \E T, F : e = at(T, F)
    OBVIOUS
  <2>6. e \in UNION {{at(T \cup {t}, T) : T \in SUBSET all} : t \in all} => \E T, F : e = at(T, F)
    OBVIOUS
  <2> QED BY <2>3, <2>4, <2>5, <2>6
<1> HIDE DEF snap
<1>11. PICK T, F : /\ e \in Disk /\ e.mode = d.mode /\ e.msgs = d.msgs
                   /\ e.turn = turns(T) /\ e.file = files(F)
                   /\ e.part = d.part \/ e.part = parts
  <2>1. CASE e = snap
    BY <1>9, <2>1
  <2>2. CASE \E T, F : e = at(T, F)
    <3>1. PICK T, F : e = at(T, F)
      BY <2>2
    <3>2. e \in Disk /\ e.mode = d.mode /\ e.msgs = d.msgs /\ e.turn = turns(T) /\ e.file = files(F) /\ e.part = d.part
      BY <1>6, <3>1
    <3> QED BY <3>2
  <2> QED BY <1>10, <2>1, <2>2
<1>12. \A u \in TurnId : \/ e.turn[u] = d.turn[u]
                         \/ ~terminalTeamTurn(d.turn[u]) /\ e.turn[u] \in {"cancelling", "indeterminate", "cancelled"}
  BY <1>1, <1>3, <1>11 DEF turns
<1>13. \A p \in Participant :
         /\ e.part[p] = d.part[p] \/ e.part[p].state \in {"indeterminate", "cancelled"}
         /\ e.part[p].turn = d.part[p].turn
         /\ \/ e.file[p] = d.file[p]
            \/ e.file[p].state \in {"indeterminate", "cancelled"} /\ e.file[p].turn = d.part[p].turn
  BY <1>1, <1>11, UnconfirmedRecord DEF parts, files
<1> QED BY <1>11, <1>12, <1>13, GivenUpIsSane

\* Its second half.
LEMMA EndedTurns ==
  ASSUME NEW d \in Disk, NEW all, NEW e \in Disks(CancelledTurns(d, all))
  PROVE  /\ Sane(d, e) /\ Kept(d, e)
         /\ \A u \in TurnId : e.turn[u] = d.turn[u] \/ ~terminalTeamTurn(d.turn[u])
<1> DEFINE turns(T) == [t \in TurnId |-> IF t \in T /\ d.turn[t] = "cancelling" THEN "cancelled" ELSE d.turn[t]]
           files(P) == [p \in Participant |-> IF p \in P /\ d.part[p].state \in {"pending", "running"}
                                              THEN Ended(d.part[p]) ELSE d.file[p]]
           at(T, n) == Moved(d, turns(T), files(Past(n)))
           parts == [p \in Participant |-> Ended(d.part[p])]
           last == at(all, Len(Order))
           snap == WriteTeamSnapshot(last, "closed", "cancelled", parts)
<1>1. /\ d.part \in [Participant -> Participation] /\ d.file \in [Participant -> Participation]
      /\ d.turn \in [TurnId -> TurnStates]
  BY DiskParts
<1>2. CancelledTurns(d, all) =
        Writes({at(T, 0) : T \in SUBSET all} \cup {at(all, n) : n \in 1..Len(Order)}, snap)
  BY DEF CancelledTurns
<1>3. "cancelled" \in TurnStates /\ "closed" \in LifecycleStates /\ "cancelled" \in CloseReasons
  BY StateNames
<1>4. ASSUME NEW T, NEW P
      PROVE  turns(T) \in [TurnId -> TurnStates] /\ files(P) \in [Participant -> Participation]
  BY <1>1, <1>3, EndedRecord
<1>5. parts \in [Participant -> Participation]
  BY <1>1, EndedRecord
<1> HIDE DEF turns, files, parts
<1>6. ASSUME NEW T, NEW n
      PROVE  /\ at(T, n) \in Disk /\ at(T, n).mode = d.mode /\ at(T, n).state = d.state
             /\ at(T, n).part = d.part /\ at(T, n).msgs = d.msgs
             /\ at(T, n).file = files(Past(n)) /\ at(T, n).turn = turns(T)
  BY <1>4, WroteMoved
<1> HIDE DEF at
<1>7. /\ last \in Disk /\ last.mode = d.mode
      /\ last.msgs = d.msgs /\ last.file = files(Past(Len(Order))) /\ last.turn = turns(all)
  BY <1>6
<1> HIDE DEF last
<1>8. /\ snap \in Disk /\ snap.state = "closed" /\ snap.part = parts
      /\ snap.mode = d.mode /\ snap.file = files(Past(Len(Order))) /\ snap.turn = turns(all) /\ snap.msgs = d.msgs
  BY <1>3, <1>5, <1>7, WroteSnapshot
<1> HIDE DEF snap
<1>9. e = snap \/ \E T, n : e = at(T, n)
  <2>1. e = snap \/ e \in {at(T, 0) : T \in SUBSET all} \/ e \in {at(all, n) : n \in 1..Len(Order)}
    BY <1>2 DEF Disks, Writes
  <2> QED BY <2>1
<1>10. PICK T, P : /\ e \in Disk /\ e.mode = d.mode /\ e.msgs = d.msgs
                   /\ e.turn = turns(T) /\ e.file = files(P)
                   /\ (e.part = d.part /\ e.state = d.state) \/ (e.part = parts /\ e.state = "closed")
  <2>1. CASE e = snap
    BY <1>8, <2>1
  <2>2. CASE \E T, n : e = at(T, n)
    <3>1. PICK T, n : e = at(T, n)
      BY <2>2
    <3>2. /\ e \in Disk /\ e.mode = d.mode /\ e.msgs = d.msgs /\ e.turn = turns(T) /\ e.file = files(Past(n))
          /\ e.part = d.part /\ e.state = d.state
      BY <1>6, <3>1
    <3> QED BY <3>2
  <2> QED BY <1>9, <2>1, <2>2
<1>11. \A u \in TurnId : \/ e.turn[u] = d.turn[u]
                         \/ ~terminalTeamTurn(d.turn[u]) /\ e.turn[u] \in {"cancelling", "indeterminate", "cancelled"}
  BY <1>10 DEF turns, terminalTeamTurn
<1>12. \A p \in Participant :
         /\ e.part[p] = d.part[p] \/ e.part[p].state \in {"indeterminate", "cancelled"}
         /\ e.part[p].turn = d.part[p].turn
         /\ \/ e.file[p] = d.file[p]
            \/ e.file[p].state \in {"indeterminate", "cancelled"} /\ e.file[p].turn = d.part[p].turn
  BY <1>1, <1>10, EndedRecord DEF parts, files
<1>13. d.mode = "panel" /\ d.state = "closed" => e.state = "closed"
  BY <1>10
<1> QED BY <1>10, <1>11, <1>12, <1>13, GivenUpIsSane

LEMMA FiniteTurns ==
  ASSUME NEW T \in SUBSET TurnId
  PROVE  Cardinality(T) \in Nat
<1>1. FollowUp \subseteq FollowUp \cup CancelTurn \cup Close \cup Cancel
  OBVIOUS
<1>2. IsFiniteSet(FollowUp)
  BY <1>1, ConstantsAssumption, FS_Subset
<1>3. IsFiniteSet(FollowUp \cup {"initial"})
  BY <1>2, FS_AddElement
<1>4. IsFiniteSet(TurnId)
  BY <1>3, ConstantsAssumption, FS_Product DEF TurnId
<1>5. IsFiniteSet(T)
  BY <1>4, FS_Subset
<1> QED BY <1>5, FS_CardinalityType

LEMMA WroteFollowUp ==
  ASSUME NEW d \in Disk, NEW v \in Nat
  PROVE  LET e == FollowUpSnapshot(d, v)
         IN /\ e \in Disk /\ e.mode = d.mode /\ e.part = d.file /\ e.file = d.file
            /\ e.turn = d.turn /\ e.msgs = d.msgs
<1> DEFINE n == Cardinality(TurnIds(d))
           s == [d EXCEPT !.part = d.file, !.cost = n, !.ver = IF @ = v THEN @ + 1 ELSE @]
           st == IF currentParticipantsTerminal(s) THEN "open" ELSE "running"
<1>1. n \in Nat
  BY FiniteTurns DEF TurnIds
<1> HIDE DEF n
<1>2. /\ s.mode = d.mode /\ s.part = d.file /\ s.file = d.file /\ s.turn = d.turn /\ s.msgs = d.msgs
      /\ s.cost = n /\ s.ver = IF d.ver = v THEN d.ver + 1 ELSE d.ver
  BY DEF Disk
<1>3. s.ver \in Nat /\ d.file \in [Participant -> Participation] /\ d.reason \in CloseReasons
  BY <1>2 DEF Disk
<1>4. s \in Disk
  BY <1>1, <1>2, <1>3 DEF Disk
<1>5. FollowUpSnapshot(d, v) = Lifecycle(s, st, d.reason)
  BY DEF FollowUpSnapshot, n
<1> HIDE DEF s
<1>6. st \in LifecycleStates
  BY StateNames
<1> HIDE DEF st
<1> QED BY <1>2, <1>3, <1>4, <1>5, <1>6, WroteLifecycle

\* A follow-up: new turns for participants whose records are complete.
LEMMA FollowedUp ==
  ASSUME NEW d \in Disk, d.mode = "session", NEW a \in FollowUp, NEW to \in SUBSET Participant, NEW v \in Nat,
         NEW e \in Disks(FollowUpTurns(d, a, to)) \cup {FollowUpSnapshot(FollowUpTurns(d, a, to).to, v)}
  PROVE  /\ Sane(d, e) /\ Kept(d, e)
         /\ \A u \in TurnId : e.turn[u] = d.turn[u] \/ (d.turn[u] = "none" /\ e.turn[u] = "prepared")
<1> DEFINE turns(P) == [t \in TurnId |-> IF t[2] = a /\ Of(t) \in to \cap P /\ d.turn[t] = "none"
                                         THEN "prepared" ELSE d.turn[t]]
           new(p, P) == [state |-> participantStateForTurn(turns(P)[<<p, a>>]), turn |-> <<p, a>>]
           files(P) == [p \in Participant |-> IF p \in to \cap P THEN new(p, P) ELSE d.file[p]]
           m == AppendTeamMessage(d, a)
           at(i, j) == Moved(m, turns(Past(i)), files(Past(j)))
           n == Len(Order)
           last == at(n, n)
           snap == FollowUpSnapshot(last, v)
<1>1. /\ d.part \in [Participant -> Participation] /\ d.file \in [Participant -> Participation]
      /\ d.turn \in [TurnId -> TurnStates]
  BY DiskParts
<1>2. FollowUpTurns(d, a, to) = Writes({at(i, i) : i \in 0..n} \cup {at(i, i - 1) : i \in 1..n}, last)
  BY DEF FollowUpTurns
<1>3. /\ m \in Disk /\ m.mode = d.mode /\ m.state = d.state /\ m.part = d.part /\ m.msgs = d.msgs \cup {a}
  BY AppendedMessage
<1>4. "prepared" \in TurnStates
  BY StateNames
<1>5. ASSUME NEW P PROVE turns(P) \in [TurnId -> TurnStates]
  BY <1>1, <1>4
<1>6. ASSUME NEW p \in Participant
      PROVE  <<p, a>> \in TurnId /\ <<p, a>> # Nobody /\ Of(<<p, a>>) = p
  <2>1. <<p, a>> \in TurnId /\ Of(<<p, a>>) = p
    BY DEF TurnId, Of
  <2> QED BY <2>1, ConstantsAssumption DEF TurnId
<1>7. \A s \in TurnStates : /\ participantStateForTurn(s) \in ParticipantStates
                            /\ participantStateForTurn(s) \in {"responded", "failed"} => participantStateForTurn(s) = s
  BY DEF TurnStates, participantStateForTurn, terminalTeamTurn, ParticipantStates
<1>8. ASSUME NEW P, NEW p \in Participant
      PROVE  /\ new(p, P) \in Participation /\ new(p, P).turn = <<p, a>>
             /\ new(p, P).state \in {"responded", "failed"} => d.turn[<<p, a>>] = new(p, P).state
  <2>1. turns(P)[<<p, a>>] \in TurnStates
    BY <1>5, <1>6
  <2>2. turns(P)[<<p, a>>] \in {"prepared", d.turn[<<p, a>>]}
    BY <1>6
  <2> HIDE DEF turns
  <2>3. new(p, P) \in Participation /\ new(p, P).turn = <<p, a>>
    BY <1>6, <1>7, <2>1 DEF Participation
  <2>4. new(p, P).state = participantStateForTurn(turns(P)[<<p, a>>])
    OBVIOUS
  <2> QED BY <1>7, <2>1, <2>2, <2>3, <2>4
<1> HIDE DEF new
<1>9. ASSUME NEW P PROVE files(P) \in [Participant -> Participation]
  BY <1>1, <1>8
<1>10. ASSUME NEW P, NEW u \in TurnId
       PROVE  turns(P)[u] = d.turn[u] \/ (d.turn[u] = "none" /\ turns(P)[u] = "prepared")
  OBVIOUS
<1>11. ASSUME NEW P, NEW p \in Participant
       PROVE  \/ files(P)[p] = d.file[p]
              \/ /\ files(P)[p].turn = <<p, a>>
                 /\ files(P)[p].state \in {"responded", "failed"} => d.turn[<<p, a>>] = files(P)[p].state
  BY <1>8
<1> HIDE DEF turns, files, m
<1>12. ASSUME NEW i, NEW j
       PROVE  /\ at(i, j) \in Disk /\ at(i, j).mode = d.mode /\ at(i, j).state = d.state
              /\ at(i, j).part = d.part /\ at(i, j).msgs = d.msgs \cup {a}
              /\ at(i, j).file = files(Past(j)) /\ at(i, j).turn = turns(Past(i))
  BY <1>3, <1>5, <1>9, WroteMoved
<1> HIDE DEF at, n
<1>13. /\ last \in Disk /\ last.mode = d.mode /\ last.msgs = d.msgs \cup {a}
       /\ last.file = files(Past(n)) /\ last.turn = turns(Past(n))
  BY <1>12
<1>14. FollowUpTurns(d, a, to).to = last
  BY <1>2 DEF Writes
<1> HIDE DEF last
<1>15. /\ snap \in Disk /\ snap.mode = d.mode /\ snap.part = last.file /\ snap.file = last.file
       /\ snap.turn = last.turn /\ snap.msgs = last.msgs
  BY <1>13, WroteFollowUp
<1>16. e = snap \/ \E i, j : e = at(i, j)
  <2>1. e = snap \/ e = last \/ e \in {at(i, i) : i \in 0..n} \/ e \in {at(i, i - 1) : i \in 1..n}
    BY <1>2, <1>14 DEF Disks, Writes
  <2>2. last = at(n, n)
    BY DEF last
  <2> HIDE DEF snap
  <2> QED BY <2>1, <2>2
<1> HIDE DEF snap
<1>17. PICK P, Q : /\ e \in Disk /\ e.mode = d.mode /\ e.msgs = d.msgs \cup {a}
                   /\ e.turn = turns(P) /\ e.file = files(Q)
                   /\ e.part = d.part \/ e.part = e.file
  <2>1. CASE e = snap
    BY <1>13, <1>15, <2>1
  <2>2. CASE \E i, j : e = at(i, j)
    <3>1. PICK i, j : e = at(i, j)
      BY <2>2
    <3>2. /\ e \in Disk /\ e.mode = d.mode /\ e.msgs = d.msgs \cup {a} /\ e.turn = turns(Past(i))
          /\ e.file = files(Past(j)) /\ e.part = d.part
      BY <1>12, <3>1
    <3> QED BY <3>2
  <2> QED BY <1>16, <2>1, <2>2
<1>18. \A u \in TurnId : e.turn[u] = d.turn[u] \/ (d.turn[u] = "none" /\ e.turn[u] = "prepared")
  BY <1>10, <1>17
<1>19. \A p \in Participant :
         e.file[p] = d.file[p] \/ (e.file[p].turn # Nobody /\ Credited(e, p, e.file[p]))
  <2> SUFFICES ASSUME NEW p \in Participant, e.file[p] # d.file[p]
               PROVE  e.file[p].turn # Nobody /\ Credited(e, p, e.file[p])
    OBVIOUS
  <2>1. /\ e.file[p].turn = <<p, a>>
        /\ e.file[p].state \in {"responded", "failed"} => d.turn[<<p, a>>] = e.file[p].state
    BY <1>11, <1>17
  <2>2. e.file[p].state \in {"responded", "failed"} => e.turn[<<p, a>>] = e.file[p].state
    BY <1>6, <1>18, <2>1
  <2> QED BY <1>6, <2>1, <2>2 DEF Credited
<1>20. Onward(d, e)
  <2>1. BackedDisk(d) => \A p \in Participant : d.part[p].turn # Nobody => e.part[p].turn # Nobody
    BY <1>17, <1>19 DEF BackedDisk
  <2> QED BY <2>1 DEF Onward
<1>21. Kept(d, e)
  BY <1>18 DEF Kept, terminalTeamTurn
<1>22. Sane(d, e)
  <2>1. \A u \in TurnId : e.turn[u] = "responded" => d.turn[u] = "responded"
    BY <1>18
  <2>2. /\ \A p \in Participant : e.part[p] = d.part[p] \/ e.part[p] = d.file[p] \/ Credited(e, p, e.part[p])
        /\ \A p \in Participant : e.file[p] = d.file[p] \/ Credited(e, p, e.file[p])
    BY <1>17, <1>19
  <2>3. \A p \in Participant : (d.file[p].turn = Nobody => d.part[p].turn = Nobody)
                                 => (e.file[p].turn = Nobody => e.part[p].turn = Nobody)
    BY <1>17, <1>19
  <2> QED BY <1>17, <1>20, <2>1, <2>2, <2>3, ManyIsSane
<1> QED BY <1>18, <1>21, <1>22

-----------------------------------------------------------------------------
(***************************************************************************)
(* Steps.                                                                  *)
(***************************************************************************)

ExtStates == [turn : [TurnId -> ExtTurns], sess : [Participant -> SessionStates]]

\* The drivers launch nothing twice, keep what they said and, in a panel, run
\* nothing they were not asked to.
ExtSteady ==
  /\ ext' \in ExtStates
  /\ \A t \in TurnId :
       /\ ext'.turn[t] = "twice" => ext.turn[t] = "twice"
       /\ ext.turn[t] \in {"responded", "failed"} => ext'.turn[t] = ext.turn[t]
       /\ disk.mode = "panel" /\ ext.turn[t] = "none" => ext'.turn[t] = "none"

\* A goroutine of a panel ends, is queued for a turn that the snapshot names, or
\* goes on with a turn that is on its way.
Quiet(u) ==
  \/ pc'[u] = pc[u] \/ pc'[u] = "idle"
  \/ pc'[u] = "queued" /\ (disk'.part[Of(u)].turn # Nobody \/ disk'.state = "closed")
  \/ /\ pc[u] # "idle" /\ disk'.turn[u] \notin {"none", "prepared"}
     /\ pc'[u] = "launch" => ext'.turn[u] = "none"

\* A step that is no crash.
Calm ==
  /\ pc' \in [TurnId -> Pcs(disk.mode)] /\ act' \in [Thread -> Jobs(disk.mode)]
  /\ lock' \in [Participant -> TurnId \cup {Nobody}]
  /\ up' \in BOOLEAN /\ crashes' = crashes /\ expired' \in BOOLEAN
  /\ disk.mode = "panel" => \A u \in TurnId : Quiet(u)

\* A turn only comes to an outcome that its driver reported, and keeps it.
Settles(u) ==
  \/ disk'.turn[u] = disk.turn[u]
  \/ /\ ~terminalTeamTurn(disk.turn[u])
     /\ disk.mode = "session" /\ disk'.turn[u] \in {"responded", "failed"} => ext.turn[u] = disk'.turn[u]
  \/ disk.turn[u] = "indeterminate" /\ disk'.turn[u] = "cancelled" /\ ext'.turn[u] = "interrupted"

\* The step TurnIsFinal speaks of.
Final ==
  \A t \in TurnId :
    terminalTeamTurn(disk.turn[t]) =>
      \/ disk'.turn[t] = disk.turn[t]
      \/ /\ disk.turn[t] = "indeterminate" /\ disk'.turn[t] = "cancelled"
         /\ ext'.turn[t] = "interrupted"

StepOK ==
  /\ LaunchInv' /\ Sane(disk, disk')
  /\ DriverSaid /\ FreshOK => DriverSaid' /\ Final

LEMMA CrashedIsCalmElsewhere ==
  ASSUME LaunchInv, Crashed
  PROVE  /\ pc' \in [TurnId -> Pcs(disk.mode)] /\ act' \in [Thread -> Jobs(disk.mode)]
         /\ lock' \in [Participant -> TurnId \cup {Nobody}]
         /\ up' \in BOOLEAN /\ crashes' \in 0..MaxDisturbances /\ expired' \in BOOLEAN
         /\ \A u \in TurnId : Quiet(u)
<1> DEFINE asked == {a \in Action : disk.intent[a].st # "none"}
           more == IF expired THEN 1 ELSE 0
<1>1. IsFiniteSet(Action)
  BY ConstantsAssumption DEF Action
<1>2. asked \in SUBSET Action
  OBVIOUS
<1>3. IsFiniteSet(asked)
  BY <1>1, <1>2, FS_Subset
<1>4. Cardinality(asked) \in Nat
  BY <1>3, FS_CardinalityType
<1>5. MaxDisturbances \in Nat
  BY ConstantsAssumption
<1>6. crashes + Cardinality(asked) + more < MaxDisturbances /\ crashes' = crashes + 1
  BY DEF Crashed, Undisturbed
<1>7. crashes \in 0..MaxDisturbances
  BY DEF LaunchInv, TypeOK
<1>8. more \in Nat
  OBVIOUS
<1> HIDE DEF asked, more
<1>9. crashes' \in 0..MaxDisturbances
  BY <1>4, <1>5, <1>6, <1>7, <1>8
<1>10. "idle" \in Pcs(disk.mode)
  BY DEF Pcs
<1>11. Idle \in Jobs(disk.mode)
  <2>1. "idle" \in Ats(disk.mode)
    BY DEF Ats
  <2>2. Idle \in Job /\ Idle.at = "idle"
    BY DEF Idle, Doing, Job
  <2> QED BY <2>1, <2>2 DEF Jobs
<1>12. pc' \in [TurnId -> Pcs(disk.mode)] /\ \A u \in TurnId : pc'[u] = "idle"
  BY <1>10 DEF Crashed
<1>13. act' \in [Thread -> Jobs(disk.mode)]
  BY <1>11 DEF Crashed
<1>14. lock' \in [Participant -> TurnId \cup {Nobody}]
  BY DEF Crashed
<1>15. up' \in BOOLEAN /\ expired' \in BOOLEAN
  BY DEF Crashed, LaunchInv, TypeOK
<1> QED BY <1>9, <1>12, <1>13, <1>14, <1>15 DEF Quiet

LEMMA LaunchKept ==
  ASSUME LaunchInv, Sane(disk, disk'), ExtSteady, 
         pc' \in [TurnId -> Pcs(disk.mode)], act' \in [Thread -> Jobs(disk.mode)],
         lock' \in [Participant -> TurnId \cup {Nobody}],
         up' \in BOOLEAN, crashes' \in 0..MaxDisturbances, expired' \in BOOLEAN,
         disk.mode = "panel" => \A u \in TurnId : Quiet(u)
  PROVE  LaunchInv'
<1>1. disk' \in Disk /\ disk'.mode = disk.mode
  BY DEF Sane
<1>2. \A mode : Pcs(mode) \subseteq {"idle", "queued", "launch", "started", "stop", "watch",
                                     "open", "opened", "turn", "park"}
  BY DEF Pcs
<1>3. \A mode : Jobs(mode) \subseteq Job
  BY DEF Jobs
<1>4. pc' \in [TurnId -> {"idle", "queued", "launch", "started", "stop", "watch",
                          "open", "opened", "turn", "park"}]
  BY <1>2
<1>5. act' \in [Thread -> Job]
  BY <1>3
<1>6. TypeOK'
  BY <1>1, <1>4, <1>5 DEF TypeOK, ExtSteady, ExtStates
<1>7. ModeOK'
  BY <1>1 DEF ModeOK
<1>8. LaunchedOnce'
  BY DEF LaunchInv, LaunchedOnce, ExtSteady
<1>9. ASSUME disk.mode = "panel", NEW t \in TurnId
      PROVE  /\ pc'[t] = "launch" => ext'.turn[t] = "none"
             /\ disk'.turn[t] \in {"none", "prepared"} => ext'.turn[t] = "none" /\ pc'[t] \in {"idle", "queued"}
             /\ disk'.part[Of(t)].turn = Nobody /\ disk'.state # "closed" => ext'.turn[t] = "none" /\ pc'[t] = "idle"
  <2>1. /\ pc[t] = "launch" => ext.turn[t] = "none"
        /\ disk.turn[t] \in {"none", "prepared"} => ext.turn[t] = "none" /\ pc[t] \in {"idle", "queued"}
        /\ disk.part[Of(t)].turn = Nobody /\ disk.state # "closed" => ext.turn[t] = "none" /\ pc[t] = "idle"
    BY <1>9 DEF LaunchInv, LaunchOK
  <2>2. ext.turn[t] = "none" => ext'.turn[t] = "none"
    BY <1>9 DEF ExtSteady
  <2>3. Quiet(t)
    BY <1>9
  <2>4. Of(t) \in Participant
    BY TurnsOf
  <2>5. /\ disk.state = "closed" => disk'.state = "closed"
        /\ disk.part[Of(t)].turn # Nobody => disk'.part[Of(t)].turn # Nobody
    BY <1>9, <2>4 DEF Sane, Onward
  <2>6. disk'.turn[t] \in {"none", "prepared"} =>
          disk.turn[t] \in {"none", "prepared"} \/ (disk.part[Of(t)].turn = Nobody /\ disk.state # "closed")
    BY <1>9 DEF Sane, Onward, Advances
  <2> QED BY <2>1, <2>2, <2>3, <2>5, <2>6 DEF Quiet
<1>10. LaunchOK'
  BY <1>1, <1>9 DEF LaunchOK
<1> QED BY <1>6, <1>7, <1>8, <1>10 DEF LaunchInv

LEMMA StepLemma ==
  ASSUME LaunchInv, Sane(disk, disk'), ExtSteady, Crashed \/ Calm,
         DriverSaid /\ FreshOK => \A u \in TurnId : Settles(u)
  PROVE  StepOK
<1>1. LaunchInv'
  <2>1. CASE Crashed
    BY <2>1, CrashedIsCalmElsewhere, LaunchKept
  <2>2. CASE Calm
    <3>1. up' \in BOOLEAN /\ crashes' \in 0..MaxDisturbances /\ expired' \in BOOLEAN
      BY <2>2 DEF Calm, LaunchInv, TypeOK
    <3> QED BY <2>2, <3>1, LaunchKept DEF Calm
  <2> QED BY <2>1, <2>2
<1>2. ASSUME DriverSaid, FreshOK PROVE DriverSaid' /\ Final
  <2>1. \A u \in TurnId : Settles(u)
    BY <1>2
  <2>2. Final
    BY <2>1 DEF Final, Settles, terminalTeamTurn
  <2>3. ASSUME disk.mode = "session", NEW t \in TurnId, disk'.turn[t] \in {"responded", "failed"}
        PROVE  ext'.turn[t] = disk'.turn[t]
    <3>1. disk.turn[t] \in {"responded", "failed"} => ext.turn[t] = disk.turn[t]
      BY <1>2, <2>3 DEF DriverSaid
    <3>2. ext.turn[t] = disk'.turn[t]
      BY <2>1, <2>3, <3>1 DEF Settles, terminalTeamTurn
    <3> QED BY <2>3, <3>2 DEF ExtSteady
  <2>4. disk'.mode = disk.mode
    BY DEF Sane
  <2> QED BY <2>2, <2>3, <2>4 DEF DriverSaid
<1> QED BY <1>1, <1>2 DEF StepOK

-----------------------------------------------------------------------------
(***************************************************************************)
(* Facts that many actions need.                                           *)
(***************************************************************************)

\* At most the turn t changes, to s, and only if it was not over.
Turned(d, e, t, s) ==
  \A u \in TurnId : e.turn[u] = d.turn[u] \/ (u = t /\ e.turn[u] = s /\ ~terminalTeamTurn(d.turn[u]))

LEMMA EndsTurned ==
  ASSUME NEW d \in Disk, NEW t \in TurnId, NEW s \in TurnStates, NEW q, NEW e, Ends(d, e, t, s, q),
         e.turn = d.turn \/ ~terminalTeamTurn(d.turn[t])
  PROVE  Turned(d, e, t, s)
<1>1. d.turn \in [TurnId -> TurnStates]
  BY DiskParts
<1> QED BY <1>1 DEF Ends, Turned

LEMMA TurnedSettles ==
  ASSUME NEW t \in TurnId, NEW s, Turned(disk, disk', t, s),
         disk.mode = "session" /\ s \in {"responded", "failed"} => ext.turn[t] = s
  PROVE  \A u \in TurnId : Settles(u)
  BY DEF Turned, Settles

LEMMA SameCoreSettles ==
  ASSUME NEW d, NEW e, SameCore(d, e) \/ SameParts(d, e)
  PROVE  \A t, s : Turned(d, e, t, s)
  BY DEF SameCore, SameParts, Turned

LEMMA Committed ==
  ASSUME NEW d \in Disk, NEW m, SameCore(d, m), NEW t \in TurnId, NEW e \in Disks(commitContribution(m, t))
  PROVE  Sane(d, e) /\ Turned(d, e, t, "responded")
<1> DEFINE q == [state |-> "responded", turn |-> t]
<1>1. m \in Disk /\ m.turn = d.turn
  BY DEF SameCore
<1>2. Ends(m, e, t, "responded", q) /\ (e = m \/ m.turn[t] = "active")
  BY <1>1, Contributed
<1>3. Fits(d, t, "responded", q)
  <2>1. t # Nobody
    BY ConstantsAssumption DEF TurnId
  <2> QED BY <2>1 DEF Fits, Participation, ParticipantStates
<1> HIDE DEF q
<1>4. Ends(d, e, t, "responded", q)
  BY <1>2, EndsAfterSameCore
<1>5. "responded" \in TurnStates \ {"none", "prepared"}
  BY DEF TurnStates
<1>6. Sane(d, e)
  BY <1>3, <1>4, <1>5, EndsIsSane
<1>7. e.turn = d.turn \/ ~terminalTeamTurn(d.turn[t])
  BY <1>1, <1>2 DEF terminalTeamTurn
<1> QED BY <1>4, <1>5, <1>6, <1>7, EndsTurned

LEMMA GaveUp ==
  ASSUME NEW d \in Disk, NEW m, SameCore(d, m), NEW t \in TurnId, NEW s \in {"failed", "indeterminate", "cancelled"},
         NEW e \in Disks(markTurnFailure(m, t, s))
  PROVE  Sane(d, e) /\ Turned(d, e, t, s)
<1>1. m \in Disk /\ m.turn = d.turn /\ m.part = d.part
  BY DEF SameCore
<1>2. /\ \E q : Ends(m, e, t, s, q) /\ Fits(m, t, s, q)
      /\ e = m \/ m.turn[t] \in {"prepared", "dispatching", "active"}
  BY <1>1, MarkedFailure
<1>3. PICK q : Ends(m, e, t, s, q) /\ Fits(m, t, s, q)
  BY <1>2
<1>4. Fits(d, t, s, q)
  BY <1>1, <1>3 DEF Fits
<1>5. Ends(d, e, t, s, q)
  BY <1>3, EndsAfterSameCore
<1>6. s \in TurnStates \ {"none", "prepared"}
  BY DEF TurnStates
<1>7. Sane(d, e)
  BY <1>4, <1>5, <1>6, EndsIsSane
<1>8. e.turn = d.turn \/ ~terminalTeamTurn(d.turn[t])
  BY <1>1, <1>2 DEF terminalTeamTurn
<1> QED BY <1>5, <1>6, <1>7, <1>8, EndsTurned

\* One turn written by itself.
LEMMA Stepped ==
  ASSUME NEW d \in Disk, NEW m, SameCore(d, m), NEW t \in TurnId, NEW s \in {"dispatching", "active", "cancelling"},
         ~terminalTeamTurn(d.turn[t]), NEW e, e = WriteTeamTurn(m, t, s)
  PROVE  Sane(d, e) /\ Turned(d, e, t, s) /\ e.turn[t] = s
<1>1. m \in Disk /\ m.mode = d.mode /\ m.state = d.state /\ m.turn = d.turn /\ m.part = d.part /\ m.file = d.file
      /\ m.msgs = d.msgs
  BY DEF SameCore
<1>2. s \in TurnStates \ {"none", "prepared"}
  BY DEF TurnStates
<1>3. /\ e \in Disk
      /\ e.mode = m.mode /\ e.state = m.state /\ e.part = m.part /\ e.file = m.file /\ e.msgs = m.msgs
      /\ e.turn = [m.turn EXCEPT ![t] = s]
  BY <1>1, <1>2, WroteTurn
<1>4. Of(t) \in Participant /\ d.part \in [Participant -> Participation] /\ d.turn \in [TurnId -> TurnStates]
  BY TurnsOf, DiskParts
<1> DEFINE q == [state |-> "running", turn |-> d.part[Of(t)].turn]
<1>5. Fits(d, t, s, q)
  BY <1>4 DEF Fits, Participation, ParticipantStates
<1> HIDE DEF q
<1>6. Ends(d, e, t, s, q)
  BY <1>1, <1>3 DEF Ends
<1>7. Sane(d, e)
  BY <1>2, <1>5, <1>6, EndsIsSane
<1>8. e.turn[t] = s
  BY <1>1, <1>3, <1>4
<1> QED BY <1>2, <1>6, <1>7, <1>8, EndsTurned

LEMMA SameIsSame ==
  ASSUME NEW d \in Disk
  PROVE  SameCore(d, d) /\ Sane(d, d)
<1>1. SameCore(d, d)
  BY DEF SameCore
<1> QED BY <1>1, SameCoreIsSane

\* Jobs and goroutines.
LEMMA JobIn ==
  ASSUME NEW mode, NEW at \in Ats(mode), NEW turns \in SUBSET TurnId, NEW parts \in SUBSET Participant,
         NEW now \in TurnId \cup {Nobody}, at \in {"confirm", "mark"} => now \in TurnId
  PROVE  Doing(at, turns, parts, now) \in Jobs(mode)
<1>1. at \in {"idle", "replay", "prepare", "round", "go", "exact", "confirm", "turns",
              "mark", "calls", "closing"}
  BY DEF Ats
<1>2. Doing(at, turns, parts, now) \in Job
  BY <1>1 DEF Doing, Job
<1>3. Doing(at, turns, parts, now).at = at /\ Doing(at, turns, parts, now).now = now
  BY DEF Doing
<1> QED BY <1>2, <1>3 DEF Jobs

LEMMA IdleIn ==
  ASSUME NEW mode
  PROVE  Idle \in Jobs(mode)
<1>1. "idle" \in Ats(mode)
  BY DEF Ats
<1> QED BY <1>1, JobIn DEF Idle

LEMMA PrepareIn ==
  ASSUME NEW mode
  PROVE  Doing("prepare", {}, {}, Nobody) \in Jobs(mode)
<1>1. "prepare" \in Ats(mode)
  BY DEF Ats
<1> QED BY <1>1, JobIn

LEMMA ClosingIn ==
  ASSUME NEW parts \in SUBSET Participant
  PROVE  Closing(parts) \in Jobs("session")
<1>1. "closing" \in Ats("session")
  BY DEF Ats
<1> QED BY <1>1, JobIn DEF Closing

LEMMA DispatchIn ==
  ASSUME NEW mode, NEW jobs \in [Thread -> Jobs(mode)]
  PROVE  DispatchAsync(jobs) \in [Thread -> Jobs(mode)]
  BY PrepareIn DEF DispatchAsync

LEMMA ExtSame ==
  ASSUME LaunchInv, ext' = ext
  PROVE  ExtSteady
  BY DEF LaunchInv, TypeOK, ExtSteady, ExtStates

\* External: a cancelled execution was running before.
LEMMA InterruptedExt ==
  ASSUME LaunchInv, NEW t \in TurnId
  PROVE  LET e == Interrupted(ext, t)
         IN /\ e \in ExtStates /\ e.sess = ext.sess
            /\ \A u \in TurnId : e.turn[u] = ext.turn[u] \/ (ext.turn[u] = "running" /\ e.turn[u] = "interrupted")
            /\ ext.turn[t] \in {"running", "interrupted"} => e.turn[t] = "interrupted"
<1>1. ext \in ExtStates
  BY DEF LaunchInv, TypeOK, ExtStates
<1>2. "interrupted" \in ExtTurns
  BY DEF ExtTurns
<1> QED BY <1>1, <1>2 DEF Interrupted, ExtStates

LEMMA ExtInterrupted ==
  ASSUME LaunchInv, NEW t \in TurnId, ext' = Interrupted(ext, t)
  PROVE  ExtSteady
  BY InterruptedExt DEF ExtSteady

LEMMA CalmGoing ==
  ASSUME LaunchInv, NEW t \in TurnId, NEW s \in Pcs(disk.mode), pc' = [pc EXCEPT ![t] = s],
         act' = act, lock' = lock, up' = up, crashes' = crashes, expired' = expired,
         disk.mode = "panel" => Quiet(t)
  PROVE  Calm
<1>1. pc \in [TurnId -> Pcs(disk.mode)] /\ act \in [Thread -> Jobs(disk.mode)]
  BY DEF LaunchInv, ModeOK
<1>2. lock \in [Participant -> TurnId \cup {Nobody}] /\ up \in BOOLEAN /\ expired \in BOOLEAN
  BY DEF LaunchInv, TypeOK
<1>3. disk.mode = "panel" => \A u \in TurnId : Quiet(u)
  BY <1>1 DEF Quiet
<1> QED BY <1>1, <1>2, <1>3 DEF Calm

LEMMA CalmActing ==
  ASSUME LaunchInv, act' \in [Thread -> Jobs(disk.mode)],
         pc' = pc, lock' = lock, up' = up, crashes' = crashes, expired' = expired
  PROVE  Calm
<1>1. pc \in [TurnId -> Pcs(disk.mode)]
  BY DEF LaunchInv, ModeOK
<1>2. lock \in [Participant -> TurnId \cup {Nobody}] /\ up \in BOOLEAN /\ expired \in BOOLEAN
  BY DEF LaunchInv, TypeOK
<1>3. \A u \in TurnId : Quiet(u)
  BY DEF Quiet
<1> QED BY <1>1, <1>2, <1>3 DEF Calm

LEMMA CalmJob ==
  ASSUME LaunchInv, NEW x \in Thread, NEW j \in Jobs(disk.mode), act' = [act EXCEPT ![x] = j],
         pc' = pc, lock' = lock, up' = up, crashes' = crashes, expired' = expired
  PROVE  Calm
<1>1. act \in [Thread -> Jobs(disk.mode)]
  BY DEF LaunchInv, ModeOK
<1> QED BY <1>1, CalmActing

-----------------------------------------------------------------------------
(***************************************************************************)
(* The actions of a panel.                                                 *)
(***************************************************************************)

LEMMA DispatchTurnStep ==
  ASSUME LaunchInv, NEW t \in TurnId, dispatchTurn(t)
  PROVE  StepOK
<1> DEFINE going(s) == /\ pc' = [pc EXCEPT ![t] = s] /\ act' = act /\ lock' = lock
                       /\ up' = up /\ crashes' = crashes /\ expired' = expired
<1>1. disk.mode = "panel" /\ pc[t] = "queued" /\ ext' = ext /\ disk \in Disk
  BY DEF dispatchTurn, MayEnter, LaunchInv, TypeOK
<1>2. ExtSteady
  BY <1>1, ExtSame
<1>3. {"watch", "idle", "launch"} \subseteq Pcs(disk.mode)
  BY <1>1 DEF Pcs
<1>4. \/ disk.turn[t] = "active" /\ disk' = disk /\ going("watch")
      \/ /\ disk' \in Disks(markTurnFailure(disk, t, "indeterminate"))
         /\ Crashed \/ going("idle")
      \/ disk.turn[t] = "prepared" /\ disk' = WriteTeamTurn(disk, t, "dispatching") /\ going("launch")
      \/ disk' = disk /\ going("idle")
  BY DEF dispatchTurn, Commit, Written, Writes, Disks
<1>5. SameCore(disk, disk) /\ Sane(disk, disk)
  BY <1>1, SameIsSame
<1>6. CASE disk' = disk /\ (going("idle") \/ (disk.turn[t] = "active" /\ going("watch")))
  <2>1. Calm
    <3>1. pc' = [pc EXCEPT ![t] = "idle"] \/ pc' = [pc EXCEPT ![t] = "watch"]
      BY <1>6
    <3>2. pc \in [TurnId -> Pcs(disk.mode)]
      BY DEF LaunchInv, ModeOK
    <3>3. Quiet(t)
      BY <1>1, <1>6, <3>2 DEF Quiet
    <3> QED BY <1>3, <1>6, <3>1, <3>3, CalmGoing
  <2>2. \A u \in TurnId : Settles(u)
    BY <1>6 DEF Settles
  <2>3. Sane(disk, disk')
    BY <1>5, <1>6
  <2> QED BY <1>2, <2>1, <2>2, <2>3, StepLemma
<1>7. CASE disk' \in Disks(markTurnFailure(disk, t, "indeterminate")) /\ (Crashed \/ going("idle"))
  <2>1. Sane(disk, disk') /\ Turned(disk, disk', t, "indeterminate")
    BY <1>1, <1>5, <1>7, GaveUp
  <2>2. \A u \in TurnId : Settles(u)
    BY <2>1, TurnedSettles
  <2>3. Crashed \/ Calm
    <3>1. pc \in [TurnId -> Pcs(disk.mode)]
      BY DEF LaunchInv, ModeOK
    <3>2. going("idle") => Quiet(t)
      BY <3>1 DEF Quiet
    <3> QED BY <1>3, <1>7, <3>2, CalmGoing
  <2> QED BY <1>2, <2>1, <2>2, <2>3, StepLemma
<1>8. CASE disk.turn[t] = "prepared" /\ disk' = WriteTeamTurn(disk, t, "dispatching") /\ going("launch")
  <2>1. ~terminalTeamTurn(disk.turn[t])
    BY <1>8 DEF terminalTeamTurn
  <2>2. Sane(disk, disk') /\ Turned(disk, disk', t, "dispatching") /\ disk'.turn[t] = "dispatching"
    BY <1>1, <1>5, <1>8, <2>1, Stepped
  <2>3. \A u \in TurnId : Settles(u)
    BY <2>2, TurnedSettles
  <2>4. ext'.turn[t] = "none"
    BY <1>1, <1>8 DEF LaunchInv, LaunchOK
  <2>5. Quiet(t)
    BY <1>1, <2>2, <2>4 DEF Quiet
  <2>6. Calm
    BY <1>3, <1>8, <2>5, CalmGoing
  <2> QED BY <1>2, <2>2, <2>3, <2>6, StepLemma
<1> QED BY <1>4, <1>6, <1>7, <1>8

\* driver.Start is called at most once for a turn.
LEMMA LaunchStep ==
  ASSUME LaunchInv, NEW t \in TurnId, Launch(t)
  PROVE  StepOK
<1>1. pc[t] = "launch" /\ disk \in Disk /\ pc \in [TurnId -> Pcs(disk.mode)] /\ disk.mode \in {"panel", "session"}
  BY DiskParts DEF Launch, LaunchInv, TypeOK, ModeOK
<1>2. disk.mode = "panel"
  BY <1>1 DEF Pcs
<1>3. ext.turn[t] = "none"
  BY <1>1, <1>2 DEF LaunchInv, LaunchOK
<1>4. {"started", "idle"} \subseteq Pcs(disk.mode)
  BY <1>2 DEF Pcs
<1>5. SameCore(disk, disk) /\ Sane(disk, disk)
  BY <1>1, SameIsSame
<1>6. CASE /\ ext' = [ext EXCEPT !.turn[t] = IF @ = "none" THEN "running" ELSE "twice"]
           /\ pc' = [pc EXCEPT ![t] = "started"]
           /\ UNCHANGED <<disk, act, lock, up, crashes, expired>>
  <2>1. ext \in ExtStates
    BY DEF LaunchInv, TypeOK, ExtStates
  <2>2. "running" \in ExtTurns
    BY DEF ExtTurns
  <2>3. ext' = [ext EXCEPT !.turn[t] = "running"]
    BY <1>3, <1>6, <2>1 DEF ExtStates
  <2>4. ext' \in ExtStates /\ \A u \in TurnId : ext'.turn[u] = IF u = t THEN "running" ELSE ext.turn[u]
    BY <2>1, <2>2, <2>3 DEF ExtStates
  <2>5. disk.turn[t] \notin {"none", "prepared"} /\ (disk.part[Of(t)].turn # Nobody \/ disk.state = "closed")
    BY <1>1, <1>2 DEF LaunchInv, LaunchOK
  <2>6. \A u \in TurnId : pc'[u] = IF u = t THEN "started" ELSE pc[u]
    BY <1>1, <1>6
  <2>7. pc' \in [TurnId -> Pcs(disk.mode)]
    BY <1>1, <1>4, <1>6
  <2>8. pc' \in [TurnId -> {"idle", "queued", "launch", "started", "stop", "watch",
                            "open", "opened", "turn", "park"}]
    BY <1>6 DEF LaunchInv, TypeOK
  <2>9. TypeOK'
    BY <1>6, <2>4, <2>8 DEF LaunchInv, TypeOK, ExtStates
  <2>10. ModeOK'
    BY <1>6, <2>7 DEF LaunchInv, ModeOK
  <2>11. LaunchOK'
    BY <1>6, <2>4, <2>5, <2>6 DEF LaunchInv, LaunchOK
  <2>12. LaunchedOnce'
    BY <2>4 DEF LaunchInv, LaunchedOnce
  <2>13. Sane(disk, disk') /\ Final
    BY <1>5, <1>6 DEF Final
  <2>14. DriverSaid'
    BY <1>2, <1>6 DEF DriverSaid
  <2> QED BY <2>9, <2>10, <2>11, <2>12, <2>13, <2>14 DEF StepOK, LaunchInv
<1>7. CASE /\ Commit(markTurnFailure(disk, t, "failed"), pc' = [pc EXCEPT ![t] = "idle"] /\ UNCHANGED <<act, lock>>)
           /\ UNCHANGED ext
  <2>1. disk' \in Disks(markTurnFailure(disk, t, "failed"))
    BY <1>7 DEF Commit, Disks
  <2>2. Sane(disk, disk') /\ Turned(disk, disk', t, "failed")
    BY <1>1, <1>5, <2>1, GaveUp
  <2>3. \A u \in TurnId : Settles(u)
    BY <1>2, <2>2, TurnedSettles
  <2>4. ExtSteady
    BY <1>7, ExtSame
  <2>5. Crashed \/ Calm
    <3>1. \/ Crashed
          \/ /\ pc' = [pc EXCEPT ![t] = "idle"] /\ act' = act /\ lock' = lock
             /\ up' = up /\ crashes' = crashes /\ expired' = expired
      BY <1>7 DEF Commit
    <3>2. pc' = [pc EXCEPT ![t] = "idle"] => Quiet(t)
      BY <1>1 DEF Quiet
    <3> QED BY <1>4, <3>1, <3>2, CalmGoing
  <2> QED BY <2>2, <2>3, <2>4, <2>5, StepLemma
<1> QED BY <1>6, <1>7 DEF Launch

LEMMA LaunchedStep ==
  ASSUME LaunchInv, NEW t \in TurnId, Launched(t)
  PROVE  StepOK
<1> DEFINE h == WriteTeamExecution(disk, t)
           going(s) == /\ pc' = [pc EXCEPT ![t] = s] /\ act' = act /\ lock' = lock
                       /\ up' = up /\ crashes' = crashes /\ expired' = expired
<1>1. disk.mode = "panel" /\ pc[t] = "started" /\ ext' = ext /\ disk \in Disk /\ pc \in [TurnId -> Pcs(disk.mode)]
  BY DEF Launched, LaunchInv, TypeOK, ModeOK
<1>2. ExtSteady
  BY <1>1, ExtSame
<1>3. {"watch", "stop"} \subseteq Pcs(disk.mode)
  BY <1>1 DEF Pcs
<1>4. SameCore(disk, h)
  BY <1>1, WroteExecution
<1>5. disk.turn[t] \notin {"none", "prepared"}
  BY <1>1 DEF LaunchInv, LaunchOK
<1>6. \/ disk' = h /\ (Crashed \/ going("stop"))
      \/ disk.turn[t] = "dispatching" /\ disk' = WriteTeamTurn(h, t, "active") /\ going("watch")
  BY DEF Launched, Commit, Writes, Written
<1> HIDE DEF h
<1>7. CASE disk' = h /\ (Crashed \/ going("stop"))
  <2>1. Sane(disk, disk') /\ Turned(disk, disk', t, "active")
    BY <1>1, <1>4, <1>7, SameCoreIsSane, SameCoreSettles
  <2>2. \A u \in TurnId : Settles(u)
    BY <2>1, TurnedSettles
  <2>3. disk'.turn[t] = disk.turn[t]
    BY <1>4, <1>7 DEF SameCore
  <2>4. going("stop") => Quiet(t)
    BY <1>1, <1>5, <2>3 DEF Quiet
  <2>5. Crashed \/ Calm
    BY <1>3, <1>7, <2>4, CalmGoing
  <2> QED BY <1>2, <2>1, <2>2, <2>5, StepLemma
<1>8. CASE disk.turn[t] = "dispatching" /\ disk' = WriteTeamTurn(h, t, "active") /\ going("watch")
  <2>1. ~terminalTeamTurn(disk.turn[t])
    BY <1>8 DEF terminalTeamTurn
  <2>2. Sane(disk, disk') /\ Turned(disk, disk', t, "active") /\ disk'.turn[t] = "active"
    BY <1>1, <1>4, <1>8, <2>1, Stepped
  <2>3. \A u \in TurnId : Settles(u)
    BY <2>2, TurnedSettles
  <2>4. Quiet(t)
    BY <1>1, <1>8, <2>2 DEF Quiet
  <2>5. Calm
    BY <1>3, <1>8, <2>4, CalmGoing
  <2> QED BY <1>2, <2>2, <2>3, <2>5, StepLemma
<1> QED BY <1>6, <1>7, <1>8

LEMMA StopLateStep ==
  ASSUME LaunchInv, NEW t \in TurnId, StopLate(t)
  PROVE  StepOK
<1>1. /\ disk' = disk /\ disk \in Disk /\ pc \in [TurnId -> Pcs(disk.mode)] /\ pc' = [pc EXCEPT ![t] = "idle"]
      /\ act' = act /\ lock' = lock /\ up' = up /\ crashes' = crashes /\ expired' = expired
  BY DEF StopLate, LaunchInv, TypeOK, ModeOK
<1>2. ExtSteady
  BY ExtSame, ExtInterrupted DEF StopLate
<1>3. "idle" \in Pcs(disk.mode)
  BY DEF Pcs
<1>4. Quiet(t)
  BY <1>1 DEF Quiet
<1>5. Calm
  BY <1>1, <1>3, <1>4, CalmGoing
<1>6. \A u \in TurnId : Settles(u)
  BY <1>1 DEF Settles
<1>7. Sane(disk, disk')
  BY <1>1, SameIsSame
<1> QED BY <1>2, <1>5, <1>6, <1>7, StepLemma

LEMMA ObserveTurnStep ==
  ASSUME LaunchInv, NEW t \in TurnId, observeTurn(t)
  PROVE  StepOK
<1> DEFINE ends(m) == Commit(m, pc' = [pc EXCEPT ![t] = "idle"] /\ UNCHANGED <<act, lock>>)
<1>1. /\ disk.mode = "panel" /\ ext' = ext /\ disk \in Disk /\ pc \in [TurnId -> Pcs(disk.mode)]
  BY DEF observeTurn, LaunchInv, TypeOK, ModeOK
<1>2. ExtSteady
  BY <1>1, ExtSame
<1>3. SameCore(disk, disk)
  BY <1>1, SameIsSame
<1>4. \/ ends(commitContribution(disk, t))
      \/ \E s \in {"failed", "indeterminate"} : ends(markTurnFailure(disk, t, s))
  BY DEF observeTurn
<1>5. Crashed \/ Calm
  <2>1. \/ Crashed
        \/ /\ pc' = [pc EXCEPT ![t] = "idle"] /\ act' = act /\ lock' = lock
           /\ up' = up /\ crashes' = crashes /\ expired' = expired
    BY <1>4 DEF Commit
  <2>2. pc' = [pc EXCEPT ![t] = "idle"] => Quiet(t)
    BY <1>1 DEF Quiet
  <2>3. "idle" \in Pcs(disk.mode)
    BY DEF Pcs
  <2> QED BY <2>1, <2>2, <2>3, CalmGoing
<1>6. PICK s \in {"responded", "failed", "indeterminate"} : Sane(disk, disk') /\ Turned(disk, disk', t, s)
  <2>1. CASE ends(commitContribution(disk, t))
    <3>1. disk' \in Disks(commitContribution(disk, t))
      BY <2>1 DEF Commit, Disks
    <3> QED BY <1>1, <1>3, <3>1, Committed
  <2>2. CASE \E s \in {"failed", "indeterminate"} : ends(markTurnFailure(disk, t, s))
    <3>1. PICK s \in {"failed", "indeterminate"} : disk' \in Disks(markTurnFailure(disk, t, s))
      BY <2>2 DEF Commit, Disks
    <3> QED BY <1>1, <1>3, <3>1, GaveUp
  <2> QED BY <1>4, <2>1, <2>2
<1>7. \A u \in TurnId : Settles(u)
  BY <1>1, <1>6, TurnedSettles
<1> QED BY <1>2, <1>5, <1>6, <1>7, StepLemma

LEMMA SameCoreTwice ==
  ASSUME NEW d, NEW m, NEW e, SameCore(d, m), SameCore(m, e)
  PROVE  SameCore(d, e)
  BY DEF SameCore

LEMMA AskedIn ==
  ASSUME NEW st \in {"none", "pending", "done"}, NEW ver \in Nat, NEW turn \in TurnId \cup {Nobody},
         NEW to \in SUBSET Participant
  PROVE  Asked(st, ver, turn, to) \in Intent
  BY DEF Asked, Intent

LEMMA AnsweredSame ==
  ASSUME NEW d \in Disk, NEW a \in Action
  PROVE  SameCore(d, Answered(d, a))
<1> DEFINE i == d.intent[a]
<1>1. i.ver \in Nat /\ i.turn \in TurnId \cup {Nobody} /\ i.to \in SUBSET Participant
  BY DiskParts DEF Intent
<1>2. Asked("done", i.ver, i.turn, i.to) \in Intent
  BY <1>1, AskedIn
<1> QED BY <1>2, WroteIntent DEF Answered

LEMMA Actors ==
  /\ Action \subseteq Thread /\ Controller \in Thread
  /\ FollowUp \subseteq Action /\ CancelTurn \subseteq Action /\ Close \subseteq Action /\ Cancel \subseteq Action
  BY DEF Action, Thread

LEMMA PanelCancelStep ==
  ASSUME LaunchInv, NEW a \in Cancel, PanelCancel(a)
  PROVE  StepOK
<1> DEFINE i == Asked("pending", disk.ver, Nobody, {})
           d == IF disk.intent[a].st = "none" THEN WriteTeamActionIntent(disk, a, i) ELSE disk
           marked == MarkTurns(d)
           calls == {Of(t) : t \in {u \in d.exec : marked.to.turn[u] = "cancelling"}}
           next(job) == /\ act' = [act EXCEPT ![a] = job] /\ pc' = pc /\ lock' = lock
                        /\ up' = up /\ crashes' = crashes /\ expired' = expired
<1>1. disk.mode = "panel" /\ ext' = ext /\ disk \in Disk /\ a \in Action /\ a \in Thread /\ disk.ver \in Nat
  BY Actors DEF PanelCancel, LaunchInv, TypeOK, Disk
<1>2. ExtSteady
  BY <1>1, ExtSame
<1>3. i \in Intent
  BY <1>1, AskedIn
<1>4. SameCore(disk, disk)
  BY <1>1, SameIsSame
<1> HIDE DEF i
<1>5. SameCore(disk, d)
  BY <1>1, <1>3, <1>4, WroteIntent
<1>6. \/ disk' = d /\ Crashed
      \/ disk' = Answered(d, a) /\ next(Idle)
      \/ disk' = disk /\ next(Idle)
      \/ /\ disk.state # "closed"
         /\ disk' \in Disks(marked) \cup {CancellingSnapshot(d, marked.to)}
         /\ Crashed \/ next(Doing("calls", TurnIds(d), calls, Nobody))
  BY DEF PanelCancel, Commit, Writes, Written, i
<1> HIDE DEF d
<1>7. d \in Disk /\ d.state = disk.state
  BY <1>5 DEF SameCore
<1>8. d.exec \subseteq TurnId /\ TurnIds(d) \subseteq TurnId
  BY <1>7, DiskParts DEF TurnIds
<1>9. calls \subseteq Participant
  BY <1>8, TurnsOf
<1> HIDE DEF calls, marked
<1>10. "calls" \in Ats(disk.mode)
  BY <1>1 DEF Ats
<1>11. Doing("calls", TurnIds(d), calls, Nobody) \in Jobs(disk.mode)
  BY <1>8, <1>9, <1>10, JobIn
<1>12. Idle \in Jobs(disk.mode)
  BY IdleIn
<1>13. Crashed \/ Calm
  BY <1>1, <1>6, <1>11, <1>12, CalmJob
<1>14. Sane(disk, disk') /\ \A u \in TurnId : Settles(u)
  <2>1. CASE disk' = d \/ disk' = Answered(d, a) \/ disk' = disk
    <3>1. SameCore(disk, disk')
      BY <1>1, <1>4, <1>5, <1>7, <2>1, AnsweredSame, SameCoreTwice
    <3>2. \A u \in TurnId : Settles(u)
      BY <3>1 DEF SameCore, Settles
    <3> QED BY <1>1, <3>1, <3>2, SameCoreIsSane
  <2>2. CASE disk.state # "closed" /\ disk' \in Disks(marked) \cup {CancellingSnapshot(d, marked.to)}
    <3>1. Sane(d, disk') /\ Kept(d, disk')
      BY <1>7, <2>2, MarkedTurns DEF marked
    <3>2. disk' \in Disk
      BY <3>1 DEF Sane
    <3>3. SameCore(disk', disk')
      BY <3>2 DEF SameCore
    <3>4. Sane(disk, disk')
      BY <1>1, <1>5, <3>1, <3>3, SaneBetween
    <3>5. \A u \in TurnId : Settles(u)
      <4>1. d.turn = disk.turn
        BY <1>5 DEF SameCore
      <4>2. \A u \in TurnId : \/ disk'.turn[u] = d.turn[u]
                              \/ ~terminalTeamTurn(d.turn[u])
        BY <1>7, <2>2, MarkedTurns DEF marked
      <4> QED BY <1>1, <4>1, <4>2 DEF Settles
    <3> QED BY <3>4, <3>5
  <2> QED BY <1>6, <2>1, <2>2
<1> QED BY <1>2, <1>13, <1>14, StepLemma

LEMMA PanelCancelCallStep ==
  ASSUME LaunchInv, NEW a \in Cancel, NEW p \in Participant, PanelCancelCall(a, p)
  PROVE  StepOK
<1> DEFINE t == <<p, "initial">>
           j == Doing("calls", act[a].turns, act[a].parts \ {p}, Nobody)
<1>1. /\ disk' = disk /\ disk \in Disk /\ act \in [Thread -> Jobs(disk.mode)] /\ a \in Thread /\ act[a].at = "calls"
      /\ pc' = pc /\ lock' = lock /\ up' = up /\ crashes' = crashes /\ expired' = expired
  BY Actors DEF PanelCancelCall, LaunchInv, TypeOK, ModeOK
<1>2. t \in TurnId
  BY DEF TurnId
<1>3. (ext' = Interrupted(ext, t) /\ act' = [act EXCEPT ![a] = j]) \/ (ext' = ext /\ act' = [act EXCEPT ![a] = Idle])
  BY DEF PanelCancelCall
<1>4. act[a].at \in Ats(disk.mode) /\ act[a] \in Job
  BY <1>1 DEF Jobs
<1>5. act[a].turns \in SUBSET TurnId /\ act[a].parts \ {p} \in SUBSET Participant
  BY <1>4 DEF Job
<1>6. j \in Jobs(disk.mode) /\ Idle \in Jobs(disk.mode)
  BY <1>1, <1>4, <1>5, JobIn, IdleIn
<1> HIDE DEF t, j
<1>7. ExtSteady
  BY <1>2, <1>3, ExtSame, ExtInterrupted
<1>8. Calm
  BY <1>1, <1>3, <1>6, CalmJob
<1>9. \A u \in TurnId : Settles(u)
  BY <1>1 DEF Settles
<1>10. Sane(disk, disk')
  BY <1>1, SameIsSame
<1> QED BY <1>7, <1>8, <1>9, <1>10, StepLemma

LEMMA PanelCancelFinishStep ==
  ASSUME LaunchInv, NEW a \in Cancel, PanelCancelFinish(a)
  PROVE  StepOK
<1> DEFINE m == CancelledTurns(disk, act[a].turns)
<1>1. disk.mode = "panel" /\ ext' = ext /\ disk \in Disk /\ a \in Action /\ a \in Thread
  BY Actors DEF PanelCancelFinish, LaunchInv, TypeOK
<1>2. ExtSteady
  BY <1>1, ExtSame
<1>3. \/ disk' \in Disks(m) /\ Crashed
      \/ /\ disk' = Answered(m.to, a) /\ act' = [act EXCEPT ![a] = Idle] /\ pc' = pc /\ lock' = lock
         /\ up' = up /\ crashes' = crashes /\ expired' = expired
  BY DEF PanelCancelFinish, Commit, Writes
<1>4. Crashed \/ Calm
  BY <1>1, <1>3, IdleIn, CalmJob
<1>5. \A e \in Disks(m) : /\ Sane(disk, e)
                          /\ \A u \in TurnId : e.turn[u] = disk.turn[u] \/ ~terminalTeamTurn(disk.turn[u])
  BY <1>1, EndedTurns
<1>6. m.to \in Disks(m)
  BY DEF Disks
<1> HIDE DEF m
<1>7. PICK e \in Disks(m) : SameCore(e, disk')
  <2>1. CASE disk' \in Disks(m)
    <3>1. disk' \in Disk
      BY <1>5, <2>1 DEF Sane
    <3> QED BY <2>1, <3>1, SameIsSame
  <2>2. CASE disk' = Answered(m.to, a)
    <3>1. m.to \in Disk
      BY <1>5, <1>6 DEF Sane
    <3> QED BY <1>1, <1>6, <2>2, <3>1, AnsweredSame
  <2> QED BY <1>3, <2>1, <2>2
<1>8. Sane(disk, disk')
  <2>1. SameCore(disk, disk)
    BY <1>1, SameIsSame
  <2> QED BY <1>1, <1>5, <1>7, <2>1, SaneBetween
<1>9. \A u \in TurnId : Settles(u)
  <2>1. disk'.turn = e.turn
    BY <1>7 DEF SameCore
  <2> QED BY <1>1, <1>5, <2>1 DEF Settles
<1> QED BY <1>2, <1>4, <1>8, <1>9, StepLemma

-----------------------------------------------------------------------------
(***************************************************************************)
(* The actions of both modes.                                              *)
(***************************************************************************)

\* A repeated start: the files of some participants as the snapshot has them.
LEMMA Repaired ==
  ASSUME NEW d \in Disk, NEW e \in Disks(repairPreparedTeam(d))
  PROVE  /\ e \in Disk /\ e.mode = d.mode /\ e.state = d.state /\ e.part = d.part
         /\ e.turn = d.turn /\ e.msgs = d.msgs /\ e.intent = d.intent
         /\ Sane(d, e)
<1> DEFINE files(n) == [p \in Participant |-> IF p \in Past(n) THEN d.part[p] ELSE d.file[p]]
           at(n) == Moved(d, d.turn, files(n))
<1>1. /\ d.part \in [Participant -> Participation] /\ d.file \in [Participant -> Participation]
      /\ d.turn \in [TurnId -> TurnStates]
  BY DiskParts
<1>2. repairPreparedTeam(d) = Writes({at(n) : n \in 0..Len(Order)}, at(Len(Order)))
  BY DEF repairPreparedTeam
<1>3. ASSUME NEW n
      PROVE  /\ files(n) \in [Participant -> Participation]
             /\ \A p \in Participant : files(n)[p] = d.file[p] \/ files(n)[p] = d.part[p]
  BY <1>1
<1> HIDE DEF files
<1>4. ASSUME NEW n
      PROVE  /\ at(n) \in Disk /\ at(n).mode = d.mode /\ at(n).state = d.state /\ at(n).part = d.part
             /\ at(n).turn = d.turn /\ at(n).msgs = d.msgs /\ at(n).intent = d.intent /\ at(n).file = files(n)
  BY <1>1, <1>3, WroteMoved
<1> HIDE DEF at
<1>5. PICK n : e = at(n)
  BY <1>2 DEF Disks, Writes
<1>6. /\ e \in Disk /\ e.mode = d.mode /\ e.state = d.state /\ e.part = d.part
      /\ e.turn = d.turn /\ e.msgs = d.msgs /\ e.intent = d.intent
      /\ \A p \in Participant : e.file[p] = d.file[p] \/ e.file[p] = d.part[p]
  BY <1>3, <1>4, <1>5
<1>7. BackedDisk(d) => BackedDisk(e)
  BY <1>6 DEF BackedDisk, Credited
<1>8. Onward(d, e)
  BY <1>6 DEF Onward, Advances
<1> QED BY <1>6, <1>7, <1>8 DEF Sane

LEMMA BeginStep ==
  ASSUME LaunchInv, Begin
  PROVE  StepOK
<1> DEFINE n == Cardinality(Participant)
           s == [disk EXCEPT !.state = "created", !.ver = 1, !.cost = n]
           m == repairPreparedTeam(disk)
           done == /\ (act' = DispatchAsync(act) \/ act' = act) /\ pc' = pc /\ lock' = lock
                   /\ up' = up /\ crashes' = crashes /\ expired' = expired
<1>1. /\ ext' = ext /\ disk \in Disk /\ act \in [Thread -> Jobs(disk.mode)]
      /\ \/ disk.state = "none" /\ disk' = s /\ done
         \/ disk' \in Disks(m) /\ (done \/ Crashed)
  BY DEF Begin, Commit, Written, Writes, Disks, LaunchInv, TypeOK, ModeOK
<1>2. n \in Nat
  BY ConstantsAssumption, FS_CardinalityType
<1> HIDE DEF n, m
<1>3. /\ s.mode = disk.mode /\ s.part = disk.part /\ s.file = disk.file /\ s.turn = disk.turn /\ s.msgs = disk.msgs
      /\ s.state = "created" /\ s.ver = 1 /\ s.cost = n
  BY <1>1 DEF Disk
<1>4. "created" \in LifecycleStates
  BY StateNames
<1>5. s \in Disk
  BY <1>1, <1>2, <1>3, <1>4 DEF Disk
<1> HIDE DEF s
<1>6. Sane(disk, disk') /\ disk'.turn = disk.turn
  <2>1. CASE disk.state = "none" /\ disk' = s
    <3>1. SameParts(disk, disk')
      BY <1>3, <1>5, <2>1 DEF SameParts
    <3> QED BY <1>1, <3>1, SamePartsIsSane DEF SameParts
  <2>2. CASE disk' \in Disks(m)
    BY <1>1, <2>2, Repaired DEF m
  <2> QED BY <1>1, <2>1, <2>2
<1>7. \A u \in TurnId : Settles(u)
  BY <1>6 DEF Settles
<1>8. ExtSteady
  BY <1>1, ExtSame
<1>9. Crashed \/ Calm
  BY <1>1, DispatchIn, CalmActing
<1> QED BY <1>6, <1>7, <1>8, <1>9, StepLemma

LEMMA PrepareStep ==
  ASSUME LaunchInv, Prepare
  PROVE  StepOK
<1> DEFINE m == prepareInitialTurns(disk)
           turns == OpenTurns(m.to)
           j == Doing("round", {}, {}, Nobody)
<1>1. /\ ext' = ext /\ disk \in Disk /\ act \in [Thread -> Jobs(disk.mode)] /\ up \in BOOLEAN /\ expired \in BOOLEAN
      /\ lock \in [Participant -> TurnId \cup {Nobody}]
  BY DEF Prepare, LaunchInv, TypeOK, ModeOK
<1>2. ExtSteady
  BY <1>1, ExtSame
<1>3. disk' \in Disks(m)
  BY DEF Prepare, Commit, Disks
<1>4. \/ Crashed
      \/ /\ disk' = m.to /\ pc' = [t \in TurnId |-> IF t \in turns THEN "queued" ELSE "idle"]
         /\ act' = [act EXCEPT ![Controller] = j] /\ lock' = lock
         /\ up' = up /\ crashes' = crashes /\ expired' = expired
  BY DEF Prepare, Commit
<1>5. /\ Sane(disk, disk')
      /\ \A u \in TurnId : \/ disk'.turn[u] = disk.turn[u]
                           \/ /\ disk'.turn[u] = "prepared"
                              /\ disk.part[Of(u)].turn = Nobody /\ disk.state # "closed"
      /\ disk' = m.to => disk.state = "closed" \/ \A p \in Participant : disk'.part[p].turn # Nobody
  BY <1>1, <1>3, PreparedTurns
<1> HIDE DEF m, turns
<1>6. j \in Jobs(disk.mode)
  <2>1. "round" \in Ats(disk.mode)
    BY DEF Ats
  <2> QED BY <2>1, JobIn
<1> HIDE DEF j
<1>7. Crashed \/ Calm
  <2> SUFFICES ASSUME ~Crashed PROVE Calm
    OBVIOUS
  <2>1. /\ disk' = m.to /\ pc' = [t \in TurnId |-> IF t \in turns THEN "queued" ELSE "idle"]
        /\ act' = [act EXCEPT ![Controller] = j] /\ lock' = lock
        /\ up' = up /\ crashes' = crashes /\ expired' = expired
    BY <1>4
  <2>2. {"queued", "idle"} \subseteq Pcs(disk.mode)
    BY DEF Pcs
  <2>3. pc' \in [TurnId -> Pcs(disk.mode)]
    BY <2>1, <2>2
  <2>4. act' \in [Thread -> Jobs(disk.mode)]
    BY <1>1, <1>6, <2>1, Actors
  <2>5. ASSUME disk.mode = "panel", NEW u \in TurnId PROVE Quiet(u)
    <3>1. pc'[u] \in {"queued", "idle"}
      BY <2>1
    <3>2. disk'.part[Of(u)].turn # Nobody \/ disk'.state = "closed"
      BY <1>5, <2>1, <2>5, TurnsOf DEF Sane, Onward
    <3> QED BY <3>1, <3>2 DEF Quiet
  <2> QED BY <1>1, <2>1, <2>3, <2>4, <2>5 DEF Calm
<1>8. ASSUME DriverSaid, FreshOK, NEW u \in TurnId PROVE Settles(u)
  <2>1. CASE disk.part[Of(u)].turn = Nobody
    <3>1. disk.turn[u] \in {"none", "prepared"}
      BY <1>8, <2>1, TurnsOf DEF FreshOK, TurnsPrepared
    <3> QED BY <1>5, <3>1 DEF Settles, terminalTeamTurn
  <2>2. CASE disk.part[Of(u)].turn # Nobody
    BY <1>5, <2>2 DEF Settles
  <2> QED BY <2>1, <2>2
<1> QED BY <1>2, <1>5, <1>7, <1>8, StepLemma

LEMMA OpenSessionsIn ==
  ASSUME NEW d
  PROVE  OpenSessions(d) \in SUBSET Participant
  BY DEF OpenSessions

LEMMA RoundEndsStep ==
  ASSUME LaunchInv, RoundEnds
  PROVE  StepOK
<1> DEFINE j == IF disk.mode = "session" /\ disk.state = "closing" THEN Closing(OpenSessions(disk)) ELSE Idle
<1>1. /\ disk' = disk /\ ext' = ext /\ disk \in Disk /\ act' = [act EXCEPT ![Controller] = j]
      /\ pc' = pc /\ lock' = lock /\ up' = up /\ crashes' = crashes /\ expired' = expired
  BY DEF RoundEnds, LaunchInv, TypeOK
<1>2. j \in Jobs(disk.mode)
  BY IdleIn, ClosingIn, OpenSessionsIn
<1> HIDE DEF j
<1>3. Calm
  BY <1>1, <1>2, Actors, CalmJob
<1>4. ExtSteady
  BY <1>1, ExtSame
<1>5. \A u \in TurnId : Settles(u)
  BY <1>1 DEF Settles
<1>6. Sane(disk, disk')
  BY <1>1, SameIsSame
<1> QED BY <1>3, <1>4, <1>5, <1>6, StepLemma

LEMMA CrashStep ==
  ASSUME LaunchInv, Crash
  PROVE  StepOK
<1>1. disk' = disk /\ ext' = ext /\ Crashed /\ disk \in Disk
  BY DEF Crash, LaunchInv, TypeOK
<1>2. ExtSteady
  BY <1>1, ExtSame
<1>3. \A u \in TurnId : Settles(u)
  BY <1>1 DEF Settles
<1>4. Sane(disk, disk')
  BY <1>1, SameIsSame
<1> QED BY <1>1, <1>2, <1>3, <1>4, StepLemma

LEMMA ExpireStep ==
  ASSUME LaunchInv, Expire
  PROVE  StepOK
<1>1. /\ disk' = disk /\ ext' = ext /\ pc' = pc /\ act' = act /\ lock' = lock /\ up' = up /\ crashes' = crashes
      /\ expired' = TRUE /\ disk \in Disk /\ act \in [Thread -> Jobs(disk.mode)] /\ pc \in [TurnId -> Pcs(disk.mode)]
      /\ lock \in [Participant -> TurnId \cup {Nobody}] /\ up \in BOOLEAN
  BY DEF Expire, LaunchInv, TypeOK, ModeOK
<1>2. ExtSteady
  BY <1>1, ExtSame
<1>3. \A u \in TurnId : Settles(u)
  BY <1>1 DEF Settles
<1>4. Sane(disk, disk')
  BY <1>1, SameIsSame
<1>5. \A u \in TurnId : Quiet(u)
  BY <1>1 DEF Quiet
<1>6. Calm
  BY <1>1, <1>5 DEF Calm
<1> QED BY <1>2, <1>3, <1>4, <1>6, StepLemma

LEMMA ExecutionEndsStep ==
  ASSUME LaunchInv, NEW t \in TurnId, ExecutionEnds(t)
  PROVE  StepOK
<1>1. /\ disk' = disk /\ pc' = pc /\ act' = act /\ lock' = lock /\ up' = up /\ crashes' = crashes /\ expired' = expired
      /\ disk \in Disk /\ act \in [Thread -> Jobs(disk.mode)] /\ ext.turn[t] = "running"
  BY DEF ExecutionEnds, LaunchInv, TypeOK, ModeOK
<1>2. PICK end \in {"responded", "failed", "lost"} : ext' = [ext EXCEPT !.turn[t] = end]
  BY DEF ExecutionEnds
<1>3. ext \in ExtStates /\ end \in ExtTurns
  BY DEF LaunchInv, TypeOK, ExtStates, ExtTurns
<1>4. ext' \in ExtStates /\ \A u \in TurnId : ext'.turn[u] = IF u = t THEN end ELSE ext.turn[u]
  BY <1>2, <1>3 DEF ExtStates
<1>5. ExtSteady
  BY <1>1, <1>4 DEF ExtSteady
<1>6. \A u \in TurnId : Settles(u)
  BY <1>1 DEF Settles
<1>7. Sane(disk, disk')
  BY <1>1, SameIsSame
<1>8. Calm
  BY <1>1, CalmActing
<1> QED BY <1>5, <1>6, <1>7, <1>8, StepLemma

\* A snapshot that only changes the state of a session.
LEMMA NewState ==
  ASSUME NEW d \in Disk, NEW s \in LifecycleStates, NEW r \in CloseReasons,
         d.mode = "session" \/ d.state # "closed"
  PROVE  SameParts(d, WriteTeamSnapshot(d, s, r, d.part))
<1>1. d.part \in [Participant -> Participation]
  BY DiskParts
<1> QED BY <1>1, WroteSnapshot DEF SameParts

LEMMA RecoverStep ==
  ASSUME LaunchInv, Recover
  PROVE  StepOK /\ SameParts(disk, disk')
<1> DEFINE pending == {a \in Action : disk.intent[a].st = "pending"}
           over == /\ expired /\ disk.mode = "session"
                   /\ disk.state \notin {"none", "closed", "cancelling"}
           d == IF over /\ disk.state # "closing"
                THEN WriteTeamSnapshot(disk, "closing", disk.reason, disk.part) ELSE disk
           again == Doing("replay", {}, {}, Nobody)
<1>1. /\ ext' = ext /\ pc' = pc /\ lock' = lock /\ up' = TRUE /\ crashes' = crashes /\ expired' = expired
      /\ disk \in Disk /\ act \in [Thread -> Jobs(disk.mode)] /\ pc \in [TurnId -> Pcs(disk.mode)]
      /\ lock \in [Participant -> TurnId \cup {Nobody}] /\ expired \in BOOLEAN
  BY DEF Recover, LaunchInv, TypeOK, ModeOK
<1>2. "closing" \in LifecycleStates /\ disk.reason \in CloseReasons
  BY <1>1, StateNames, DiskParts
<1>3. SameParts(disk, d)
  <2>1. SameParts(disk, disk)
    BY <1>1 DEF SameParts
  <2>2. over => SameParts(disk, WriteTeamSnapshot(disk, "closing", disk.reason, disk.part))
    BY <1>1, <1>2, NewState
  <2> QED BY <2>1, <2>2
<1>4. /\ disk' = disk \/ disk' = d
      /\ \/ act' = [x \in Thread |-> IF x \in pending THEN again ELSE Idle]
         \/ over /\ act' = [act EXCEPT ![Controller] = Closing(OpenSessions(d))]
         \/ act' = DispatchAsync(act) \/ act' = act
  BY DEF Recover
<1> HIDE DEF d, pending
<1>5. SameParts(disk, disk')
  BY <1>1, <1>3, <1>4 DEF SameParts
<1>6. Sane(disk, disk') /\ \A u \in TurnId : Settles(u)
  BY <1>1, <1>5, SamePartsIsSane DEF SameParts, Settles
<1>7. again \in Jobs(disk.mode)
  <2>1. "replay" \in Ats(disk.mode)
    BY DEF Ats
  <2> QED BY <2>1, JobIn
<1> HIDE DEF again
<1>8. act' \in [Thread -> Jobs(disk.mode)]
  <2>1. CASE act' = [x \in Thread |-> IF x \in pending THEN again ELSE Idle]
    BY <1>7, <2>1, IdleIn
  <2>2. CASE over /\ act' = [act EXCEPT ![Controller] = Closing(OpenSessions(d))]
    <3>1. Closing(OpenSessions(d)) \in Jobs(disk.mode)
      BY <2>2, ClosingIn, OpenSessionsIn
    <3> QED BY <1>1, <2>2, <3>1
  <2>3. CASE act' = DispatchAsync(act) \/ act' = act
    BY <1>1, <2>3, DispatchIn
  <2> QED BY <1>4, <2>1, <2>2, <2>3
<1>9. \A u \in TurnId : Quiet(u)
  BY <1>1 DEF Quiet
<1>10. Calm
  BY <1>1, <1>8, <1>9 DEF Calm
<1>11. ExtSteady
  BY <1>1, ExtSame
<1> QED BY <1>5, <1>6, <1>10, <1>11, StepLemma

-----------------------------------------------------------------------------
(***************************************************************************)
(* The goroutines of a session.                                            *)
(***************************************************************************)

LEMMA SessionPc ==
  ASSUME LaunchInv, NEW t \in TurnId, pc[t] \in {"open", "opened", "turn", "park"}
  PROVE  disk.mode = "session"
<1>1. disk.mode \in {"panel", "session"} /\ pc[t] \in Pcs(disk.mode)
  BY DiskParts DEF LaunchInv, TypeOK, ModeOK
<1> QED BY <1>1 DEF Pcs

LEMMA SessionAt ==
  ASSUME LaunchInv, NEW x \in Thread, act[x].at \in {"go", "exact", "confirm", "turns", "mark", "closing"}
  PROVE  disk.mode = "session"
<1>1. disk.mode \in {"panel", "session"} /\ act[x].at \in Ats(disk.mode)
  BY DiskParts DEF LaunchInv, TypeOK, ModeOK, Jobs
<1> QED BY <1>1 DEF Ats

LEMMA CalmGoroutine ==
  ASSUME LaunchInv, disk.mode = "session", NEW t \in TurnId, NEW s \in Pcs("session"),
         NEW holder \in TurnId \cup {Nobody}, Goroutine(t, s, holder), up' = up, crashes' = crashes, expired' = expired
  PROVE  Calm
<1>1. /\ pc \in [TurnId -> Pcs(disk.mode)] /\ act \in [Thread -> Jobs(disk.mode)] /\ act' = act
      /\ lock \in [Participant -> TurnId \cup {Nobody}] /\ up \in BOOLEAN /\ expired \in BOOLEAN
  BY DEF LaunchInv, TypeOK, ModeOK, Goroutine
<1>2. pc' \in [TurnId -> Pcs(disk.mode)]
  BY <1>1 DEF Goroutine
<1>3. lock' \in [Participant -> TurnId \cup {Nobody}]
  BY <1>1 DEF Goroutine
<1> QED BY <1>1, <1>2, <1>3 DEF Calm

LEMMA ExtLeft ==
  ASSUME LaunchInv, NEW p \in Participant, NEW s \in SessionStates, ext' = [ext EXCEPT !.sess[p] = s]
  PROVE  ExtSteady
<1>1. ext \in ExtStates
  BY DEF LaunchInv, TypeOK, ExtStates
<1>2. ext' \in ExtStates /\ ext'.turn = ext.turn
  BY <1>1 DEF ExtStates
<1> QED BY <1>2 DEF ExtSteady

LEMMA ExtLeaves ==
  ASSUME LaunchInv, NEW p \in Participant, NEW s \in SessionStates, ext' \in DriverLeaves(p, s)
  PROVE  ExtSteady
<1>1. ext' = [ext EXCEPT !.sess[p] = s]
  BY DEF DriverLeaves
<1> QED BY <1>1, ExtLeft

\* A step that leaves the turns and the records of participants alone.
LEMMA SameStep ==
  ASSUME LaunchInv, SameCore(disk, disk') \/ SameParts(disk, disk'), ExtSteady, Crashed \/ Calm
  PROVE  StepOK
<1>1. disk \in Disk
  BY DEF LaunchInv, TypeOK
<1>2. Sane(disk, disk')
  BY <1>1, SameCoreIsSane, SamePartsIsSane
<1>3. \A u \in TurnId : Settles(u)
  BY DEF SameCore, SameParts, Settles
<1> QED BY <1>2, <1>3, StepLemma

\* A step that ends or advances one turn.
LEMMA TurnStep ==
  ASSUME LaunchInv, NEW t \in TurnId, NEW s, Sane(disk, disk'), Turned(disk, disk', t, s),
         s \in {"responded", "failed"} => ext.turn[t] = s, ExtSteady, Crashed \/ Calm
  PROVE  StepOK
<1>1. \A u \in TurnId : Settles(u)
  BY TurnedSettles
<1> QED BY <1>1, StepLemma

LEMMA DispatchSessionTurnStep ==
  ASSUME LaunchInv, NEW t \in TurnId, dispatchSessionTurn(t)
  PROVE  StepOK
<1> DEFINE s == CASE disk.turn[t] \notin {"prepared", "dispatching", "active"} -> "idle"
                  [] t \in disk.exec -> "watch"
                  [] OTHER -> "open"
<1>1. /\ disk.mode = "session" /\ disk' = disk /\ ext' = ext /\ disk \in Disk /\ pc' = [pc EXCEPT ![t] = s]
      /\ act' = act /\ lock' = lock /\ up' = up /\ crashes' = crashes /\ expired' = expired
  BY DEF dispatchSessionTurn, LaunchInv, TypeOK
<1>2. s \in {"idle", "watch", "open"}
  OBVIOUS
<1> HIDE DEF s
<1>3. s \in Pcs(disk.mode)
  BY <1>1, <1>2 DEF Pcs
<1>4. Calm
  BY <1>1, <1>3, CalmGoing
<1>5. SameCore(disk, disk')
  BY <1>1, SameIsSame
<1>6. ExtSteady
  BY <1>1, ExtSame
<1> QED BY <1>4, <1>5, <1>6, SameStep

LEMMA EnsureSessionStep ==
  ASSUME LaunchInv, NEW t \in TurnId, ensureParticipantSession(t)
  PROVE  StepOK
<1> DEFINE p == Of(t)
           l == WriteTeamParticipantSession(disk, p, "lost")
           giveUp(d) == markTurnFailure(d, t, "indeterminate")
<1>1. disk \in Disk /\ disk.mode = "session" /\ p \in Participant
  BY SessionPc, TurnsOf DEF ensureParticipantSession, LaunchInv, TypeOK
<1>2. SameCore(disk, disk)
  BY <1>1, SameIsSame
<1>3. "lost" \in SessionStates /\ "active" \in SessionStates
  BY StateNames
<1>4. SameCore(disk, l)
  BY <1>1, <1>3, WroteSession
<1>5. {"opened", "idle"} \subseteq Pcs("session")
  BY DEF Pcs
<1>6. \/ /\ disk' = disk /\ (ext' = ext \/ ext' = [ext EXCEPT !.sess[p] = "active"])
         /\ Goroutine(t, "opened", t) /\ up' = up /\ crashes' = crashes /\ expired' = expired
      \/ /\ disk' = l \/ disk' \in Disks(giveUp(l)) \/ disk' \in Disks(giveUp(disk))
         /\ Crashed \/ (Goroutine(t, "idle", Nobody) /\ up' = up /\ crashes' = crashes /\ expired' = expired)
         /\ ext' = ext
  BY DEF ensureParticipantSession, Commit, After, Writes, Disks
<1> HIDE DEF l
<1>7. CASE /\ disk' = disk /\ (ext' = ext \/ ext' = [ext EXCEPT !.sess[p] = "active"])
           /\ Goroutine(t, "opened", t) /\ up' = up /\ crashes' = crashes /\ expired' = expired
  <2>1. ExtSteady
    BY <1>1, <1>3, <1>7, ExtSame, ExtLeft
  <2>2. Calm
    BY <1>1, <1>5, <1>7, CalmGoroutine
  <2>3. SameCore(disk, disk')
    BY <1>2, <1>7
  <2> QED BY <2>1, <2>2, <2>3, SameStep
<1>8. CASE /\ disk' = l \/ disk' \in Disks(giveUp(l)) \/ disk' \in Disks(giveUp(disk))
           /\ Crashed \/ (Goroutine(t, "idle", Nobody) /\ up' = up /\ crashes' = crashes /\ expired' = expired)
           /\ ext' = ext
  <2>1. ExtSteady
    BY <1>8, ExtSame
  <2>2. Crashed \/ Calm
    BY <1>1, <1>5, <1>8, CalmGoroutine
  <2>3. Sane(disk, disk') /\ Turned(disk, disk', t, "indeterminate")
    <3>1. CASE disk' = l
      BY <1>1, <1>4, <3>1, SameCoreIsSane, SameCoreSettles
    <3>2. CASE disk' \in Disks(giveUp(l))
      BY <1>1, <1>4, <3>2, GaveUp
    <3>3. CASE disk' \in Disks(giveUp(disk))
      BY <1>1, <1>2, <3>3, GaveUp
    <3> QED BY <1>8, <3>1, <3>2, <3>3
  <2> QED BY <2>1, <2>2, <2>3, TurnStep
<1> QED BY <1>6, <1>7, <1>8

LEMMA SessionReadyStep ==
  ASSUME LaunchInv, NEW t \in TurnId, SessionReady(t)
  PROVE  StepOK
<1> DEFINE d == WriteTeamParticipantSession(disk, Of(t), "active")
           still == up' = up /\ crashes' = crashes /\ expired' = expired
<1>1. disk \in Disk /\ disk.mode = "session" /\ Of(t) \in Participant /\ ext' = ext
  BY SessionPc, TurnsOf DEF SessionReady, LaunchInv, TypeOK
<1>2. "active" \in SessionStates
  BY StateNames
<1>3. SameCore(disk, d)
  BY <1>1, <1>2, WroteSession
<1>4. {"turn", "idle"} \subseteq Pcs("session")
  BY DEF Pcs
<1>5. \/ disk' = d /\ (Crashed \/ (Goroutine(t, "idle", Nobody) /\ still))
      \/ /\ disk.turn[t] \in {"prepared", "dispatching"} /\ disk' = WriteTeamTurn(d, t, "dispatching")
         /\ Goroutine(t, "turn", t) /\ still
  BY DEF SessionReady, Commit, Writes, Written
<1> HIDE DEF d
<1>6. ExtSteady
  BY <1>1, ExtSame
<1>7. CASE disk' = d /\ (Crashed \/ (Goroutine(t, "idle", Nobody) /\ still))
  <2>1. Crashed \/ Calm
    BY <1>1, <1>4, <1>7, CalmGoroutine
  <2> QED BY <1>3, <1>6, <1>7, <2>1, SameStep
<1>8. CASE /\ disk.turn[t] \in {"prepared", "dispatching"} /\ disk' = WriteTeamTurn(d, t, "dispatching")
           /\ Goroutine(t, "turn", t) /\ still
  <2>1. Calm
    BY <1>1, <1>4, <1>8, CalmGoroutine
  <2>2. ~terminalTeamTurn(disk.turn[t])
    BY <1>8 DEF terminalTeamTurn
  <2>3. Sane(disk, disk') /\ Turned(disk, disk', t, "dispatching")
    BY <1>1, <1>3, <1>8, <2>2, Stepped
  <2> QED BY <1>6, <2>1, <2>3, TurnStep
<1> QED BY <1>5, <1>7, <1>8

LEMMA StartTurnStep ==
  ASSUME LaunchInv, NEW t \in TurnId, StartTurn(t)
  PROVE  StepOK
<1> DEFINE still == up' = up /\ crashes' = crashes /\ expired' = expired
<1>1. disk \in Disk /\ disk.mode = "session" /\ ext \in ExtStates
  BY SessionPc DEF StartTurn, LaunchInv, TypeOK, ExtStates
<1>2. SameCore(disk, disk)
  BY <1>1, SameIsSame
<1>3. {"started", "idle"} \subseteq Pcs("session")
  BY DEF Pcs
<1>4. CASE /\ disk' = disk /\ ext' = [ext EXCEPT !.turn[t] = IF @ = "none" THEN "running" ELSE @]
           /\ Goroutine(t, "started", t) /\ still
  <2>1. "running" \in ExtTurns
    BY DEF ExtTurns
  <2>2. /\ ext' \in ExtStates
        /\ \A u \in TurnId : ext'.turn[u] = ext.turn[u] \/ (ext.turn[u] = "none" /\ ext'.turn[u] = "running")
    BY <1>1, <1>4, <2>1 DEF ExtStates
  <2>3. ExtSteady
    BY <1>1, <2>2 DEF ExtSteady
  <2>4. Calm
    BY <1>1, <1>3, <1>4, CalmGoroutine
  <2>5. SameCore(disk, disk')
    BY <1>2, <1>4
  <2> QED BY <2>3, <2>4, <2>5, SameStep
<1>5. CASE /\ disk' \in Disks(markTurnFailure(disk, t, "indeterminate")) /\ ext' = ext
           /\ Crashed \/ (Goroutine(t, "idle", Nobody) /\ still)
  <2>1. ExtSteady
    BY <1>5, ExtSame
  <2>2. Crashed \/ Calm
    BY <1>1, <1>3, <1>5, CalmGoroutine
  <2>3. Sane(disk, disk') /\ Turned(disk, disk', t, "indeterminate")
    BY <1>1, <1>2, <1>5, GaveUp
  <2> QED BY <2>1, <2>2, <2>3, TurnStep
<1> QED BY <1>4, <1>5 DEF StartTurn, Commit, Disks

LEMMA TurnStartedStep ==
  ASSUME LaunchInv, NEW t \in TurnId, TurnStarted(t)
  PROVE  StepOK
<1> DEFINE e == WriteTeamExecution(disk, t)
           s == WriteTeamParticipantSession(e, Of(t), "active")
           still == up' = up /\ crashes' = crashes /\ expired' = expired
<1>1. disk \in Disk /\ disk.mode = "session" /\ Of(t) \in Participant /\ ext' = ext
  BY TurnsOf DEF TurnStarted, LaunchInv, TypeOK
<1>2. "active" \in SessionStates
  BY StateNames
<1>3. \/ disk' = e /\ Crashed
      \/ disk' = s /\ (Crashed \/ (Goroutine(t, "idle", Nobody) /\ still))
      \/ /\ disk.turn[t] = "dispatching" /\ disk' = WriteTeamTurn(s, t, "active")
         /\ Goroutine(t, "watch", Nobody) /\ still
  BY DEF TurnStarted, Commit, Writes
<1>4. SameCore(disk, e)
  BY <1>1, WroteExecution
<1> HIDE DEF e
<1>5. SameCore(disk, s)
  <2>1. e \in Disk
    BY <1>4 DEF SameCore
  <2> QED BY <1>1, <1>2, <1>4, <2>1, WroteSession, SameCoreTwice
<1> HIDE DEF s
<1>6. {"watch", "idle"} \subseteq Pcs("session")
  BY DEF Pcs
<1>7. ExtSteady
  BY <1>1, ExtSame
<1>8. CASE (disk' = e \/ disk' = s) /\ (Crashed \/ (Goroutine(t, "idle", Nobody) /\ still))
  <2>1. Crashed \/ Calm
    BY <1>1, <1>6, <1>8, CalmGoroutine
  <2> QED BY <1>4, <1>5, <1>7, <1>8, <2>1, SameStep
<1>9. CASE /\ disk.turn[t] = "dispatching" /\ disk' = WriteTeamTurn(s, t, "active")
           /\ Goroutine(t, "watch", Nobody) /\ still
  <2>1. Calm
    BY <1>1, <1>6, <1>9, CalmGoroutine
  <2>2. ~terminalTeamTurn(disk.turn[t])
    BY <1>9 DEF terminalTeamTurn
  <2>3. Sane(disk, disk') /\ Turned(disk, disk', t, "active")
    BY <1>1, <1>5, <1>9, <2>2, Stepped
  <2> QED BY <1>7, <2>1, <2>3, TurnStep
<1> QED BY <1>3, <1>8, <1>9

LEMMA ObserveSessionTurnStep ==
  ASSUME LaunchInv, NEW t \in TurnId, observeSessionTurn(t)
  PROVE  StepOK
<1> DEFINE p == Of(t)
           seen == WriteTeamParticipantSession(disk, p, "active")
           gone == WriteTeamParticipantSession(disk, p, "lost")
           still == up' = up /\ crashes' = crashes /\ expired' = expired
           over(s) == Crashed \/ (Goroutine(t, s, IF s = "park" THEN t ELSE Nobody) /\ still)
<1>1. disk \in Disk /\ disk.mode = "session" /\ p \in Participant /\ ext' = ext
  BY TurnsOf DEF observeSessionTurn, LaunchInv, TypeOK
<1>2. "active" \in SessionStates /\ "lost" \in SessionStates
  BY StateNames
<1>3. SameCore(disk, seen) /\ SameCore(disk, gone) /\ SameCore(disk, disk)
  BY <1>1, <1>2, WroteSession, SameIsSame
<1>4. /\ over("park") \/ over("idle")
      /\ \/ disk' = disk \/ disk' = seen \/ disk' = gone
         \/ ext.turn[t] = "responded" /\ disk' \in Disks(commitContribution(seen, t))
         \/ disk' \in Disks(markTurnFailure(seen, t, "cancelled"))
         \/ ext.turn[t] = "failed" /\ disk' \in Disks(markTurnFailure(seen, t, "failed"))
         \/ disk' \in Disks(markTurnFailure(gone, t, "indeterminate"))
  BY DEF observeSessionTurn, Commit, After, Writes, Written, Disks
<1> HIDE DEF seen, gone
<1>5. {"park", "idle"} \subseteq Pcs("session")
  BY DEF Pcs
<1>6. Crashed \/ Calm
  BY <1>1, <1>4, <1>5, CalmGoroutine
<1>7. ExtSteady
  BY <1>1, ExtSame
<1>8. CASE disk' = disk \/ disk' = seen \/ disk' = gone
  BY <1>3, <1>6, <1>7, <1>8, SameStep
<1>9. CASE ext.turn[t] = "responded" /\ disk' \in Disks(commitContribution(seen, t))
  <2>1. Sane(disk, disk') /\ Turned(disk, disk', t, "responded")
    BY <1>1, <1>3, <1>9, Committed
  <2> QED BY <1>6, <1>7, <1>9, <2>1, TurnStep
<1>10. CASE disk' \in Disks(markTurnFailure(seen, t, "cancelled"))
  <2>1. Sane(disk, disk') /\ Turned(disk, disk', t, "cancelled")
    BY <1>1, <1>3, <1>10, GaveUp
  <2> QED BY <1>6, <1>7, <2>1, TurnStep
<1>11. CASE ext.turn[t] = "failed" /\ disk' \in Disks(markTurnFailure(seen, t, "failed"))
  <2>1. Sane(disk, disk') /\ Turned(disk, disk', t, "failed")
    BY <1>1, <1>3, <1>11, GaveUp
  <2> QED BY <1>6, <1>7, <1>11, <2>1, TurnStep
<1>12. CASE disk' \in Disks(markTurnFailure(gone, t, "indeterminate"))
  <2>1. Sane(disk, disk') /\ Turned(disk, disk', t, "indeterminate")
    BY <1>1, <1>3, <1>12, GaveUp
  <2> QED BY <1>6, <1>7, <2>1, TurnStep
<1> QED BY <1>4, <1>8, <1>9, <1>10, <1>11, <1>12

LEMMA ParkStep ==
  ASSUME LaunchInv, NEW t \in TurnId, parkParticipantSession(t)
  PROVE  StepOK
<1> DEFINE p == Of(t)
           w == WriteTeamParticipantSession(disk, p, "parked")
           still == up' = up /\ crashes' = crashes /\ expired' = expired
<1>1. disk \in Disk /\ disk.mode = "session" /\ p \in Participant
  BY SessionPc, TurnsOf DEF parkParticipantSession, LaunchInv, TypeOK
<1>2. "parked" \in SessionStates
  BY StateNames
<1>3. SameCore(disk, disk) /\ SameCore(disk, w)
  BY <1>1, <1>2, WroteSession, SameIsSame
<1>4. /\ ext' = ext \/ ext' \in DriverLeaves(p, "parked")
      /\ disk' = disk \/ disk' = w
      /\ Crashed \/ (Goroutine(t, "idle", Nobody) /\ still)
  BY DEF parkParticipantSession, Commit, Writes
<1> HIDE DEF w
<1>5. "idle" \in Pcs("session")
  BY DEF Pcs
<1>6. Crashed \/ Calm
  BY <1>1, <1>4, <1>5, CalmGoroutine
<1>7. ExtSteady
  BY <1>1, <1>2, <1>4, ExtSame, ExtLeaves
<1> QED BY <1>3, <1>4, <1>6, <1>7, SameStep

-----------------------------------------------------------------------------
(***************************************************************************)
(* The actions of the host of a session.                                   *)
(***************************************************************************)

LEMMA CarryIn ==
  ASSUME NEW a, NEW t \in TurnId \cup {Nobody}
  PROVE  Carry(a, t) \in Jobs("session")
<1>1. "exact" \in Ats("session") /\ "go" \in Ats("session")
  BY DEF Ats
<1>2. Doing("exact", {}, {}, t) \in Jobs("session") /\ Doing("go", {}, {}, Nobody) \in Jobs("session")
  BY <1>1, JobIn
<1> QED BY <1>2 DEF Carry

LEMMA SessionActionStep ==
  ASSUME LaunchInv, NEW a \in Action, sessionAction(a)
  PROVE  StepOK
<1>1. /\ disk.mode = "session" /\ disk \in Disk /\ disk.ver \in Nat /\ ext' = ext /\ pc' = pc /\ lock' = lock
      /\ up' = up /\ crashes' = crashes /\ expired' = expired /\ a \in Thread
  BY Actors DEF sessionAction, LaunchInv, TypeOK, Disk
<1>2. PICK t \in TurnId \cup {Nobody}, to \in SUBSET Participant :
        /\ disk' = WriteTeamActionIntent(disk, a, Asked("pending", disk.ver, t, to))
        /\ act' = [act EXCEPT ![a] = Carry(a, t)]
  BY DEF sessionAction
<1>3. Asked("pending", disk.ver, t, to) \in Intent
  BY <1>1, AskedIn
<1>4. SameCore(disk, disk')
  BY <1>1, <1>2, <1>3, WroteIntent
<1>5. Calm
  BY <1>1, <1>2, CarryIn, CalmJob
<1>6. ExtSteady
  BY <1>1, ExtSame
<1> QED BY <1>4, <1>5, <1>6, SameStep

LEMMA FollowUpExpiredStep ==
  ASSUME LaunchInv, NEW a \in Action, followUpExpired(a)
  PROVE  StepOK
<1> DEFINE d == WriteTeamSnapshot(disk, "closing", disk.reason, disk.part)
           j == IF currentParticipantsTerminal(d) THEN Closing(OpenSessions(d)) ELSE Idle
<1>1. /\ disk.mode = "session" /\ disk \in Disk /\ ext' = ext /\ pc' = pc /\ lock' = lock
      /\ up' = up /\ crashes' = crashes /\ expired' = expired /\ a \in Thread
      /\ disk' = d /\ act' = [act EXCEPT ![a] = j]
  BY Actors DEF followUpExpired, LaunchInv, TypeOK
<1>2. "closing" \in LifecycleStates /\ disk.reason \in CloseReasons
  BY <1>1, StateNames, DiskParts
<1>3. SameParts(disk, d)
  BY <1>1, <1>2, NewState
<1> HIDE DEF d
<1>4. j \in Jobs(disk.mode)
  BY <1>1, IdleIn, ClosingIn, OpenSessionsIn
<1> HIDE DEF j
<1>5. Calm
  BY <1>1, <1>4, CalmJob
<1>6. ExtSteady
  BY <1>1, ExtSame
<1> QED BY <1>1, <1>3, <1>5, <1>6, SameStep

LEMMA ReplayActionStep ==
  ASSUME LaunchInv, NEW a \in Action, replayAction(a)
  PROVE  StepOK
<1> DEFINE j == Carry(a, disk.intent[a].turn)
<1>1. /\ disk.mode = "session" /\ disk \in Disk /\ ext' = ext /\ pc' = pc /\ lock' = lock
      /\ up' = up /\ crashes' = crashes /\ expired' = expired /\ a \in Thread
  BY Actors DEF replayAction, LaunchInv, TypeOK
<1>2. /\ disk' = disk \/ disk' = Answered(disk, a)
      /\ act' = [act EXCEPT ![a] = Idle] \/ act' = [act EXCEPT ![a] = j]
  BY DEF replayAction
<1>3. disk.intent[a].turn \in TurnId \cup {Nobody}
  BY <1>1, DiskParts DEF Intent
<1>4. j \in Jobs(disk.mode) /\ Idle \in Jobs(disk.mode)
  BY <1>1, <1>3, CarryIn, IdleIn
<1> HIDE DEF j
<1>5. Calm
  BY <1>1, <1>2, <1>4, CalmJob
<1>6. SameCore(disk, disk')
  BY <1>1, <1>2, SameIsSame, AnsweredSame
<1>7. ExtSteady
  BY <1>1, ExtSame
<1> QED BY <1>5, <1>6, <1>7, SameStep

LEMMA ReplayFollowUpStep ==
  ASSUME LaunchInv, NEW a \in Action, replayFollowUp(a)
  PROVE  StepOK
<1>1. /\ disk' = disk /\ disk \in Disk /\ ext' = ext /\ pc' = pc /\ lock' = lock
      /\ up' = up /\ crashes' = crashes /\ expired' = expired
      /\ act \in [Thread -> Jobs(disk.mode)] /\ act' = DispatchAsync(act)
  BY DEF replayFollowUp, LaunchInv, TypeOK, ModeOK
<1>2. Calm
  BY <1>1, DispatchIn, CalmActing
<1>3. SameCore(disk, disk')
  BY <1>1, SameIsSame
<1>4. ExtSteady
  BY <1>1, ExtSame
<1> QED BY <1>2, <1>3, <1>4, SameStep

LEMMA CommitFollowUpStep ==
  ASSUME LaunchInv, NEW a \in Action, commitFollowUp(a)
  PROVE  StepOK
<1> DEFINE to == disk.intent[a].to
           v == disk.intent[a].ver
           m == FollowUpTurns(disk, a, to)
           n == FollowUpSnapshot(m.to, v)
           jobs == [act EXCEPT ![a] = Idle]
<1>1. /\ disk \in Disk /\ ext' = ext /\ a \in Thread /\ a \in FollowUp /\ act[a].at = "go"
      /\ act \in [Thread -> Jobs(disk.mode)]
  BY Actors DEF commitFollowUp, LaunchInv, TypeOK, ModeOK
<1>2. disk.mode = "session"
  BY <1>1, SessionAt
<1>3. to \in SUBSET Participant /\ v \in Nat
  BY <1>1, DiskParts DEF Intent
<1>4. /\ \/ disk' \in Disks(m) \cup {n} \/ disk' = Answered(n, a)
         \/ \E i \in DOMAIN Order : disk' \in Disks(FollowUpTurns(disk, a, to \cap Past(i - 1)))
      /\ \/ Crashed
         \/ /\ act' = DispatchAsync(jobs) \/ act' = jobs
            /\ pc' = pc /\ lock' = lock /\ up' = up /\ crashes' = crashes /\ expired' = expired
  BY DEF commitFollowUp, Commit, Writes, Disks
<1> DEFINE Good(e) ==
             /\ Sane(disk, e)
             /\ \A u \in TurnId : e.turn[u] = disk.turn[u] \/ (disk.turn[u] = "none" /\ e.turn[u] = "prepared")
<1>5. \A e \in Disks(m) \cup {n} : Good(e)
  BY <1>1, <1>2, <1>3, FollowedUp
<1>5a. ASSUME NEW P, disk' \in Disks(FollowUpTurns(disk, a, to \cap P))
       PROVE  Good(disk')
  BY <1>1, <1>2, <1>3, <1>5a, FollowedUp
<1> HIDE DEF m, n
<1>6. jobs \in [Thread -> Jobs(disk.mode)]
  BY <1>1, IdleIn
<1> HIDE DEF jobs
<1>7. Crashed \/ Calm
  BY <1>4, <1>6, DispatchIn, CalmActing
<1>8. PICK e : Good(e) /\ SameCore(e, disk')
  <2>1. CASE disk' \in Disks(m) \cup {n}
    <3>1. disk' \in Disk
      BY <1>5, <2>1 DEF Sane
    <3> QED BY <1>5, <2>1, <3>1, SameIsSame
  <2>2. CASE disk' = Answered(n, a)
    <3>1. n \in Disk
      BY <1>5 DEF Sane
    <3> QED BY <1>5, <2>2, <3>1, AnsweredSame
  <2>3. CASE \E i \in DOMAIN Order : disk' \in Disks(FollowUpTurns(disk, a, to \cap Past(i - 1)))
    <3>1. Good(disk')
      BY <1>5a, <2>3
    <3> QED BY <3>1, SameIsSame DEF Sane
  <2> QED BY <1>4, <2>1, <2>2, <2>3
<1>9. SameCore(disk, disk)
  BY <1>1, SameIsSame
<1>10. Sane(disk, disk')
  BY <1>1, <1>8, <1>9, SaneBetween
<1>11. \A u \in TurnId : Settles(u)
  <2>1. disk'.turn = e.turn
    BY <1>8 DEF SameCore
  <2> QED BY <1>8, <2>1 DEF Settles, terminalTeamTurn
<1>12. ExtSteady
  BY <1>1, ExtSame
<1> QED BY <1>7, <1>10, <1>11, <1>12, StepLemma

LEMMA CancelExactStep ==
  ASSUME LaunchInv, NEW a \in Action, cancelExactSessionTurn(a)
  PROVE  StepOK
<1> DEFINE t == act[a].now
           j == Doing("confirm", act[a].turns, {}, t)
           next(job) == /\ act' = [act EXCEPT ![a] = job] /\ pc' = pc /\ lock' = lock
                        /\ up' = up /\ crashes' = crashes /\ expired' = expired
<1>1. /\ disk \in Disk /\ ext' = ext /\ a \in Thread /\ act[a].at = "exact" /\ act[a] \in Job
  BY Actors DEF cancelExactSessionTurn, LaunchInv, TypeOK
<1>2. disk.mode = "session"
  BY <1>1, SessionAt
<1>3. ExtSteady
  BY <1>1, ExtSame
<1>4. \/ t \in disk.exec /\ disk' \in Disks(MarkTurn(disk, t)) /\ (Crashed \/ next(j))
      \/ disk' = disk /\ next(Idle)
  BY DEF cancelExactSessionTurn, Commit, Disks, Written, Writes
<1>5. CASE t \in disk.exec /\ disk' \in Disks(MarkTurn(disk, t)) /\ (Crashed \/ next(j))
  <2>1. t \in TurnId
    BY <1>1, <1>5, DiskParts
  <2>2. "confirm" \in Ats(disk.mode)
    BY <1>2 DEF Ats
  <2>3. act[a].turns \in SUBSET TurnId
    BY <1>1 DEF Job
  <2>4. j \in Jobs(disk.mode)
    BY <2>1, <2>2, <2>3, JobIn
  <2> HIDE DEF j, t
  <2>5. Crashed \/ Calm
    BY <1>1, <1>5, <2>4, CalmJob
  <2>6. (\A q : Ends(disk, disk', t, "cancelling", q)) /\ (disk' = disk \/ disk.turn[t] = "active")
    BY <1>1, <1>5, <2>1, MarkedTurn
  <2>7. "cancelling" \in TurnStates \ {"none", "prepared"}
    BY DEF TurnStates
  <2>8. Sane(disk, disk') /\ Turned(disk, disk', t, "cancelling")
    <3>1. disk'.turn = disk.turn \/ ~terminalTeamTurn(disk.turn[t])
      BY <2>6 DEF terminalTeamTurn
    <3>2. Turned(disk, disk', t, "cancelling")
      BY <1>1, <2>1, <2>6, <2>7, <3>1, EndsTurned
    <3> DEFINE q == [state |-> "running", turn |-> disk.part[Of(t)].turn]
    <3>3. disk.part[Of(t)].turn \in TurnId \cup {Nobody}
      BY <1>1, <2>1, DiskParts, TurnsOf DEF Participation
    <3>4. Fits(disk, t, "cancelling", q)
      BY <3>3 DEF Fits, Participation, ParticipantStates
    <3> HIDE DEF q
    <3>5. Sane(disk, disk')
      BY <1>1, <2>1, <2>6, <2>7, <3>4, EndsIsSane
    <3> QED BY <3>2, <3>5
  <2> QED BY <1>3, <2>1, <2>5, <2>8, TurnStep
<1>6. CASE disk' = disk /\ next(Idle)
  <2>1. Calm
    BY <1>1, <1>6, IdleIn, CalmJob
  <2>2. SameCore(disk, disk')
    BY <1>1, <1>6, SameIsSame
  <2> QED BY <1>3, <2>1, <2>2, SameStep
<1> QED BY <1>4, <1>5, <1>6

\* A turn whose cancellation is complete; only an outcome that its driver
\* reported would be lost, and then the driver does not say interrupted.
LEMMA CancelledSane ==
  ASSUME NEW d \in Disk, NEW m, SameCore(d, m), NEW t \in TurnId, NEW a \in Action, NEW c, NEW e,
         c = NewlyCancelled(m, t) \/ (c = FoundCancelled(m, t) /\ d.turn[t] = "cancelled"),
         e \in Disks(c) \/ e = Answered(c.to, a)
  PROVE  /\ Sane(d, e)
         /\ \A u \in TurnId : e.turn[u] = d.turn[u] \/ (u = t /\ e.turn[u] = "cancelled")
<1>1. m \in Disk /\ m.turn = d.turn /\ m.part = d.part
  BY DEF SameCore
<1>2. \A f \in Disks(c) : f \in Disk /\ \E q : Ends(m, f, t, "cancelled", q) /\ Fits(m, t, "cancelled", q)
  BY <1>1, CompletedCancel DEF Ends
<1>3. c.to \in Disks(c)
  BY DEF Disks
<1>4. PICK f \in Disks(c) : SameCore(f, e)
  <2>1. CASE e \in Disks(c)
    BY <1>2, <2>1, SameIsSame
  <2>2. CASE e = Answered(c.to, a)
    BY <1>2, <1>3, <2>2, AnsweredSame
  <2> QED BY <2>1, <2>2
<1>5. PICK q : Ends(m, f, t, "cancelled", q) /\ Fits(m, t, "cancelled", q)
  BY <1>2
<1>6. Fits(d, t, "cancelled", q)
  BY <1>1, <1>5 DEF Fits
<1>7. Ends(m, e, t, "cancelled", q)
  BY <1>1, <1>4, <1>5, SameCoreAfterEnds
<1>8. Ends(d, e, t, "cancelled", q)
  BY <1>7, EndsAfterSameCore
<1>9. "cancelled" \in TurnStates \ {"none", "prepared"}
  BY DEF TurnStates
<1>10. Sane(d, e)
  BY <1>6, <1>8, <1>9, EndsIsSane
<1>11. \A u \in TurnId : e.turn[u] = d.turn[u] \/ (u = t /\ e.turn[u] = "cancelled")
  <2>1. d.turn \in [TurnId -> TurnStates]
    BY DiskParts
  <2> QED BY <1>8, <2>1 DEF Ends
<1> QED BY <1>10, <1>11

LEMMA ConfirmCancelStep ==
  ASSUME LaunchInv, NEW a \in Action, ConfirmCancelTurn(a)
  PROVE  StepOK
<1> DEFINE t == act[a].now
           p == Of(t)
           w == WriteTeamParticipantSession(disk, p, "parked")
           again == Doing("turns", act[a].turns, {}, Nobody)
           old == FoundCancelled(disk, t)
           new == NewlyCancelled(w, t)
           m == commitContribution(disk, t)
           ended == WriteTeamParticipantSession(m.to, p, "parked")
           stopped == Interrupted(ext, t)
<1>1. /\ disk \in Disk /\ a \in Thread /\ act[a].at = "confirm" /\ act[a] \in Jobs(disk.mode)
  BY Actors DEF ConfirmCancelTurn, LaunchInv, TypeOK, ModeOK
<1>2. disk.mode = "session"
  BY <1>1, SessionAt
<1>3. t \in TurnId /\ act[a].turns \in SUBSET TurnId
  BY <1>1 DEF Jobs, Job
<1>4. p \in Participant /\ "parked" \in SessionStates
  BY <1>3, TurnsOf, StateNames
<1>5. SameCore(disk, disk) /\ SameCore(disk, w)
  BY <1>1, <1>4, SameIsSame, WroteSession
<1>6. \/ Crashed
      \/ /\ act' = [act EXCEPT ![a] = Idle] \/ act' = [act EXCEPT ![a] = again]
         /\ pc' = pc /\ lock' = lock /\ up' = up /\ crashes' = crashes /\ expired' = expired
  BY DEF ConfirmCancelTurn, Commit
<1>7. again \in Jobs(disk.mode) /\ Idle \in Jobs(disk.mode)
  <2>1. "turns" \in Ats(disk.mode)
    BY <1>2 DEF Ats
  <2> QED BY <1>3, <2>1, JobIn, IdleIn
<1> HIDE DEF again
<1>8. Crashed \/ Calm
  BY <1>1, <1>6, <1>7, CalmJob
<1>9. \/ /\ disk.turn[t] = "cancelled" /\ ext' = ext
         /\ disk' \in Disks(old) \/ disk' = Answered(old.to, a)
      \/ /\ ext.turn[t] = "responded" /\ (ext' = ext \/ ext' \in DriverLeaves(p, "parked"))
         /\ disk' = disk \/ disk' \in Disks(m) \/ disk' = ended
      \/ /\ ext.turn[t] \in {"interrupted", "running"}
         /\ ext' = [stopped EXCEPT !.sess[p] = "parked"]
         /\ disk' = disk \/ disk' = w \/ disk' \in Disks(new) \/ disk' = Answered(new.to, a)
      \/ disk' = disk /\ (ext' = ext \/ ext' = stopped)
  <2>1. ASSUME NEW n, NEW Then, Commit(IF a \in CancelTurn THEN Writes(Disks(n), Answered(n.to, a)) ELSE n, Then)
        PROVE  disk' \in Disks(n) \/ disk' = Answered(n.to, a)
    BY <2>1 DEF Commit, Writes, Disks
  <2>2. ASSUME NEW n, NEW Then,
               Commit(After({disk, w}, IF a \in CancelTurn THEN Writes(Disks(n), Answered(n.to, a)) ELSE n), Then)
        PROVE  disk' = disk \/ disk' = w \/ disk' \in Disks(n) \/ disk' = Answered(n.to, a)
    BY <2>2 DEF Commit, Writes, Disks, After
  <2>3. ASSUME NEW n, NEW Then, Commit(Writes({disk} \cup Disks(n), WriteTeamParticipantSession(n.to, p, "parked")), Then)
        PROVE  disk' = disk \/ disk' \in Disks(n) \/ disk' = WriteTeamParticipantSession(n.to, p, "parked")
    BY <2>3 DEF Commit, Writes
  <2>4. ASSUME NEW n, NEW Then, Commit(n, Then)
        PROVE  disk' \in Disks(n)
    BY <2>4 DEF Commit, Disks
  <2>5. ASSUME NEW Then, Commit(Written(disk), Then)
        PROVE  disk' = disk
    BY <2>5 DEF Commit, Written, Writes
  <2> QED BY <2>1, <2>2, <2>3, <2>4, <2>5 DEF ConfirmCancelTurn, NewlyCancelled, FoundCancelled
<1> HIDE DEF t, w
<1>10. CASE /\ disk.turn[t] = "cancelled" /\ ext' = ext
            /\ disk' \in Disks(old) \/ disk' = Answered(old.to, a)
  <2>1. /\ Sane(disk, disk')
        /\ \A u \in TurnId : disk'.turn[u] = disk.turn[u] \/ (u = t /\ disk'.turn[u] = "cancelled")
    BY <1>1, <1>3, <1>5, <1>10, CancelledSane
  <2>2. \A u \in TurnId : Settles(u)
    BY <1>10, <2>1 DEF Settles
  <2>3. ExtSteady
    BY <1>10, ExtSame
  <2> QED BY <1>8, <2>1, <2>2, <2>3, StepLemma
<1>11. CASE /\ ext.turn[t] = "responded" /\ (ext' = ext \/ ext' \in DriverLeaves(p, "parked"))
            /\ disk' = disk \/ disk' \in Disks(m) \/ disk' = ended
  <2>1. ExtSteady
    BY <1>4, <1>11, ExtSame, ExtLeaves
  <2>2. \A e \in Disks(m) : Sane(disk, e) /\ Turned(disk, e, t, "responded")
    BY <1>1, <1>3, <1>5, Committed
  <2>3. m.to \in Disks(m) /\ Sane(disk, m.to)
    BY <2>2 DEF Disks
  <2>4. m.to \in Disk
    BY <2>3 DEF Sane
  <2>5. SameCore(m.to, ended)
    BY <1>4, <2>4, WroteSession
  <2> HIDE DEF m, ended
  <2>6. Sane(disk, disk') /\ Turned(disk, disk', t, "responded")
    <3>1. CASE disk' = disk
      BY <1>1, <1>5, <3>1, SameCoreIsSane, SameCoreSettles
    <3>2. CASE disk' \in Disks(m)
      BY <2>2, <3>2
    <3>3. CASE disk' = ended
      <4>1. Sane(disk, disk')
        BY <1>1, <1>5, <2>3, <2>5, <3>3, SaneBetween
      <4>2. Turned(disk, disk', t, "responded")
        BY <2>2, <2>3, <2>5, <3>3 DEF SameCore, Turned
      <4> QED BY <4>1, <4>2
    <3> QED BY <1>11, <3>1, <3>2, <3>3
  <2> QED BY <1>3, <1>8, <1>11, <2>1, <2>6, TurnStep
<1>12. CASE /\ ext.turn[t] \in {"interrupted", "running"}
            /\ ext' = [stopped EXCEPT !.sess[p] = "parked"]
            /\ disk' = disk \/ disk' = w \/ disk' \in Disks(new) \/ disk' = Answered(new.to, a)
  <2>1. /\ stopped \in ExtStates
        /\ \A u \in TurnId : stopped.turn[u] = ext.turn[u]
                               \/ (ext.turn[u] = "running" /\ stopped.turn[u] = "interrupted")
        /\ stopped.turn[t] = "interrupted"
    BY <1>3, <1>12, InterruptedExt
  <2> HIDE DEF stopped
  <2>2. ext' \in ExtStates /\ ext'.turn = stopped.turn
    BY <1>4, <1>12, <2>1 DEF ExtStates
  <2>3. ExtSteady
    BY <2>1, <2>2 DEF ExtSteady
  <2>4. /\ Sane(disk, disk')
        /\ \A u \in TurnId : disk'.turn[u] = disk.turn[u] \/ (u = t /\ disk'.turn[u] = "cancelled")
    <3>1. CASE disk' = disk \/ disk' = w
      BY <1>1, <1>5, <3>1, SameCoreIsSane DEF SameCore
    <3>2. CASE disk' \in Disks(new) \/ disk' = Answered(new.to, a)
      BY <1>1, <1>3, <1>5, <3>2, CancelledSane
    <3> QED BY <1>12, <3>1, <3>2
  <2>5. ASSUME DriverSaid, NEW u \in TurnId PROVE Settles(u)
    <3>1. CASE disk'.turn[u] = disk.turn[u]
      BY <3>1 DEF Settles
    <3>2. CASE disk'.turn[u] # disk.turn[u]
      <4>1. u = t /\ disk'.turn[u] = "cancelled" /\ ext'.turn[u] = "interrupted"
        BY <2>1, <2>2, <2>4, <3>2
      <4>2. disk.turn[u] \notin {"responded", "failed", "cancelled"}
        BY <1>2, <1>12, <2>5, <3>2, <4>1 DEF DriverSaid
      <4>3. ~terminalTeamTurn(disk.turn[u]) \/ disk.turn[u] = "indeterminate"
        BY <4>2 DEF terminalTeamTurn
      <4> QED BY <4>1, <4>3 DEF Settles
    <3> QED BY <3>1, <3>2
  <2> QED BY <1>8, <2>3, <2>4, <2>5, StepLemma
<1>13. CASE disk' = disk /\ (ext' = ext \/ ext' = stopped)
  <2>1. ExtSteady
    BY <1>3, <1>13, ExtSame, ExtInterrupted
  <2>2. SameCore(disk, disk')
    BY <1>5, <1>13
  <2> QED BY <1>8, <2>1, <2>2, SameStep
<1> QED BY <1>9, <1>10, <1>11, <1>12, <1>13

LEMMA CloseSessionStep ==
  ASSUME LaunchInv, NEW a \in Action, closeTeamSession(a)
  PROVE  StepOK
<1> DEFINE w == WriteTeamSnapshot(disk, "closing", disk.reason, disk.part)
           d == IF disk.state = "closing" THEN disk ELSE w
           r == Answered(d, a)
           next(job) == /\ act' = [act EXCEPT ![a] = job] /\ pc' = pc /\ lock' = lock
                        /\ up' = up /\ crashes' = crashes /\ expired' = expired
           j == IF currentParticipantsTerminal(r) THEN Closing(OpenSessions(r)) ELSE Idle
<1>1. /\ disk \in Disk /\ ext' = ext /\ a \in Thread /\ act[a].at = "go"
  BY Actors DEF closeTeamSession, LaunchInv, TypeOK
<1>2. disk.mode = "session"
  BY <1>1, SessionAt
<1>3. "closing" \in LifecycleStates /\ disk.reason \in CloseReasons
  BY <1>1, StateNames, DiskParts
<1>4. SameParts(disk, w) /\ SameParts(disk, disk)
  BY <1>1, <1>2, <1>3, NewState DEF SameParts
<1>5. disk' \in {d, r, disk} /\ (Crashed \/ next(j) \/ next(Idle))
  BY DEF closeTeamSession, Commit, Writes, Written
<1> HIDE DEF w
<1>6. SameParts(disk, d) /\ d \in Disk
  BY <1>4 DEF SameParts
<1> HIDE DEF d
<1>7. SameCore(d, r)
  BY <1>6, AnsweredSame
<1> HIDE DEF r
<1>8. SameParts(disk, disk')
  BY <1>4, <1>5, <1>6, <1>7 DEF SameParts, SameCore
<1>9. j \in Jobs(disk.mode) /\ Idle \in Jobs(disk.mode)
  BY <1>2, IdleIn, ClosingIn, OpenSessionsIn
<1> HIDE DEF j
<1>10. Crashed \/ Calm
  BY <1>1, <1>5, <1>9, CalmJob
<1>11. ExtSteady
  BY <1>1, ExtSame
<1> QED BY <1>8, <1>10, <1>11, SameStep

LEMMA CloseParticipantStep ==
  ASSUME LaunchInv, NEW x \in Thread, NEW p \in Participant, CloseParticipantSession(x, p)
  PROVE  StepOK
<1> DEFINE w == WriteTeamParticipantSession(disk, p, "closed")
           j == Closing(act[x].parts \ {p})
           next(job) == /\ act' = [act EXCEPT ![x] = job] /\ pc' = pc /\ lock' = lock
                        /\ up' = up /\ crashes' = crashes /\ expired' = expired
<1>1. /\ disk \in Disk /\ act[x].at = "closing" /\ act[x] \in Job
  BY DEF CloseParticipantSession, LaunchInv, TypeOK
<1>2. disk.mode = "session"
  BY <1>1, SessionAt
<1>3. act[x].parts \ {p} \in SUBSET Participant
  BY <1>1 DEF Job
<1>4. j \in Jobs(disk.mode) /\ Idle \in Jobs(disk.mode)
  BY <1>2, <1>3, IdleIn, ClosingIn
<1>5. "closed" \in SessionStates
  BY StateNames
<1>6. SameCore(disk, disk) /\ SameCore(disk, w)
  BY <1>1, <1>5, SameIsSame, WroteSession
<1>7. /\ disk' = disk \/ disk' = w
      /\ ext' = ext \/ ext' \in DriverLeaves(p, "closed")
      /\ Crashed \/ next(j) \/ next(Idle)
  BY <1>1 DEF CloseParticipantSession, Commit, Writes
<1> HIDE DEF j, w
<1>8. Crashed \/ Calm
  BY <1>4, <1>7, CalmJob
<1>9. ExtSteady
  BY <1>5, <1>7, ExtSame, ExtLeaves
<1> QED BY <1>6, <1>7, <1>8, <1>9, SameStep

LEMMA FinalizeStep ==
  ASSUME LaunchInv, NEW x \in Thread, finalizeGracefulClose(x)
  PROVE  StepOK
<1> DEFINE c == WriteTeamSnapshot(disk, "closed", "host_closed", disk.part)
<1>1. /\ disk \in Disk /\ act[x].at = "closing" /\ ext' = ext
      /\ act' = [act EXCEPT ![x] = Idle] /\ pc' = pc /\ lock' = lock
      /\ up' = up /\ crashes' = crashes /\ expired' = expired
      /\ disk' = disk \/ disk' = c
  BY DEF finalizeGracefulClose, LaunchInv, TypeOK
<1>2. disk.mode = "session"
  BY <1>1, SessionAt
<1>3. "closed" \in LifecycleStates /\ "host_closed" \in CloseReasons
  BY DEF LifecycleStates, CloseReasons
<1>4. SameParts(disk, c) /\ SameParts(disk, disk)
  BY <1>1, <1>2, <1>3, NewState DEF SameParts
<1> HIDE DEF c
<1>5. Calm
  BY <1>1, IdleIn, CalmJob
<1>6. ExtSteady
  BY <1>1, ExtSame
<1> QED BY <1>1, <1>4, <1>5, <1>6, SameStep

LEMMA OpenTurnsIn ==
  ASSUME NEW d
  PROVE  OpenTurns(d) \in SUBSET TurnId
  BY DEF OpenTurns, TurnIds

LEMMA CancelSessionStep ==
  ASSUME LaunchInv, NEW a \in Action, cancelTeamSession(a)
  PROVE  StepOK
<1> DEFINE w == WriteTeamSnapshot(disk, "cancelling", disk.reason, disk.part)
           d == IF disk.state = "cancelling" THEN disk ELSE w
           j == Doing("turns", OpenTurns(d), {}, Nobody)
<1>1. /\ disk \in Disk /\ disk.mode = "session" /\ a \in Thread /\ ext' = ext /\ pc' = pc /\ lock' = lock
      /\ up' = up /\ crashes' = crashes /\ expired' = expired
  BY Actors DEF cancelTeamSession, LaunchInv, TypeOK
<1>2. /\ disk' \in {disk, Answered(disk, a), d}
      /\ act' = [act EXCEPT ![a] = Idle] \/ act' = [act EXCEPT ![a] = j]
  BY DEF cancelTeamSession
<1>3. "cancelling" \in LifecycleStates /\ disk.reason \in CloseReasons
  BY <1>1, StateNames, DiskParts
<1>4. SameParts(disk, w) /\ SameParts(disk, disk) /\ SameCore(disk, Answered(disk, a))
  BY <1>1, <1>3, NewState, AnsweredSame DEF SameParts
<1> HIDE DEF w
<1>5. SameParts(disk, d)
  BY <1>4
<1>6. "turns" \in Ats(disk.mode)
  BY <1>1 DEF Ats
<1> HIDE DEF d
<1>7. j \in Jobs(disk.mode) /\ Idle \in Jobs(disk.mode)
  BY <1>6, OpenTurnsIn, JobIn, IdleIn
<1> HIDE DEF j
<1>8. Calm
  BY <1>1, <1>2, <1>7, CalmJob
<1>9. ExtSteady
  BY <1>1, ExtSame
<1> QED BY <1>2, <1>4, <1>5, <1>8, <1>9, SameStep

LEMMA CancelReadTurnStep ==
  ASSUME LaunchInv, NEW a \in Action, NEW t \in TurnId, CancelReadTurn(a, t)
  PROVE  StepOK
<1> DEFINE rest == act[a].turns \ {t}
           exact == Doing("exact", rest, {}, t)
           mark == Doing("mark", rest, {}, t)
           on == Doing("turns", rest, {}, Nobody)
<1>1. /\ disk \in Disk /\ disk' = disk /\ a \in Thread /\ ext' = ext /\ pc' = pc /\ lock' = lock
      /\ up' = up /\ crashes' = crashes /\ expired' = expired /\ act[a].at = "turns" /\ act[a] \in Job
  BY Actors DEF CancelReadTurn, LaunchInv, TypeOK
<1>2. disk.mode = "session"
  BY <1>1, SessionAt
<1>3. \/ act' = [act EXCEPT ![a] = exact]
      \/ act' = [act EXCEPT ![a] = mark]
      \/ act' = [act EXCEPT ![a] = on]
  BY DEF CancelReadTurn
<1>4. rest \in SUBSET TurnId
  BY <1>1 DEF Job
<1>5. "exact" \in Ats(disk.mode) /\ "mark" \in Ats(disk.mode) /\ "turns" \in Ats(disk.mode)
  BY <1>2 DEF Ats
<1> HIDE DEF rest
<1>6. exact \in Jobs(disk.mode) /\ mark \in Jobs(disk.mode) /\ on \in Jobs(disk.mode)
  BY <1>4, <1>5, JobIn
<1> HIDE DEF exact, mark, on
<1>7. Calm
  BY <1>1, <1>3, <1>6, CalmJob
<1>8. SameCore(disk, disk')
  BY <1>1, SameIsSame
<1>9. ExtSteady
  BY <1>1, ExtSame
<1> QED BY <1>7, <1>8, <1>9, SameStep

LEMMA CancelBeforeActiveStep ==
  ASSUME LaunchInv, NEW a \in Action, CancelBeforeActive(a)
  PROVE  StepOK
<1> DEFINE t == act[a].now
           j == Doing("turns", act[a].turns, {}, Nobody)
<1>1. /\ disk \in Disk /\ ext' = ext /\ a \in Thread /\ act[a].at = "mark" /\ act[a] \in Jobs(disk.mode)
  BY Actors DEF CancelBeforeActive, LaunchInv, TypeOK, ModeOK
<1>2. disk.mode = "session"
  BY <1>1, SessionAt
<1>3. t \in TurnId /\ act[a].turns \in SUBSET TurnId
  BY <1>1 DEF Jobs, Job
<1>4. /\ disk' \in Disks(markTurnFailure(disk, t, "cancelled"))
      /\ \/ Crashed
         \/ /\ act' = [act EXCEPT ![a] = j] /\ pc' = pc /\ lock' = lock
            /\ up' = up /\ crashes' = crashes /\ expired' = expired
  BY DEF CancelBeforeActive, Commit, Disks
<1>5. "turns" \in Ats(disk.mode)
  BY <1>2 DEF Ats
<1>6. j \in Jobs(disk.mode)
  BY <1>3, <1>5, JobIn
<1> HIDE DEF j, t
<1>7. Crashed \/ Calm
  BY <1>1, <1>4, <1>6, CalmJob
<1>8. SameCore(disk, disk)
  BY <1>1, SameIsSame
<1>9. Sane(disk, disk') /\ Turned(disk, disk', t, "cancelled")
  BY <1>1, <1>3, <1>4, <1>8, GaveUp
<1>10. ExtSteady
  BY <1>1, ExtSame
<1> QED BY <1>3, <1>7, <1>9, <1>10, TurnStep

LEMMA CancelTurnsDoneStep ==
  ASSUME LaunchInv, NEW a \in Action, CancelTurnsDone(a)
  PROVE  StepOK
<1> DEFINE j == Closing(OpenSessions(disk))
<1>1. /\ disk \in Disk /\ disk' = disk /\ a \in Thread /\ ext' = ext /\ pc' = pc /\ lock' = lock
      /\ up' = up /\ crashes' = crashes /\ expired' = expired /\ act[a].at = "turns"
      /\ act' = [act EXCEPT ![a] = j]
  BY Actors DEF CancelTurnsDone, LaunchInv, TypeOK
<1>2. disk.mode = "session"
  BY <1>1, SessionAt
<1>3. j \in Jobs(disk.mode)
  BY <1>2, ClosingIn, OpenSessionsIn
<1> HIDE DEF j
<1>4. Calm
  BY <1>1, <1>3, CalmJob
<1>5. SameCore(disk, disk')
  BY <1>1, SameIsSame
<1>6. ExtSteady
  BY <1>1, ExtSame
<1> QED BY <1>4, <1>5, <1>6, SameStep

LEMMA CancelFinishStep ==
  ASSUME LaunchInv, NEW a \in Action, CancelFinish(a)
  PROVE  StepOK
<1> DEFINE c == WriteTeamSnapshot(disk, "closed", "cancelled", disk.part)
<1>1. /\ disk \in Disk /\ ext' = ext /\ a \in Thread /\ act[a].at = "closing"
  BY Actors DEF CancelFinish, LaunchInv, TypeOK
<1>2. disk.mode = "session"
  BY <1>1, SessionAt
<1>3. /\ disk' \in {Answered(disk, a), c, Answered(c, a)}
      /\ \/ Crashed
         \/ /\ act' = [act EXCEPT ![a] = Idle] /\ pc' = pc /\ lock' = lock
            /\ up' = up /\ crashes' = crashes /\ expired' = expired
  BY DEF CancelFinish, Commit, Writes, Written
<1>4. "closed" \in LifecycleStates /\ "cancelled" \in CloseReasons
  BY DEF LifecycleStates, CloseReasons
<1>5. SameParts(disk, c) /\ c \in Disk
  BY <1>1, <1>2, <1>4, NewState DEF SameParts
<1> HIDE DEF c
<1>6. SameCore(disk, Answered(disk, a)) /\ SameCore(c, Answered(c, a))
  BY <1>1, <1>5, AnsweredSame
<1>7. SameCore(disk, disk') \/ SameParts(disk, disk')
  BY <1>3, <1>5, <1>6 DEF SameParts, SameCore
<1>8. Crashed \/ Calm
  BY <1>1, <1>3, IdleIn, CalmJob
<1>9. ExtSteady
  BY <1>1, ExtSame
<1> QED BY <1>7, <1>8, <1>9, SameStep

-----------------------------------------------------------------------------
(***************************************************************************)
(* The theorems.                                                           *)
(***************************************************************************)

LEMMA BlankIn ==
  ASSUME NEW mode \in {"panel", "session"}
  PROVE  LET d == Blank(mode)
         IN /\ d \in Disk /\ d.mode = mode /\ d.state = "none"
            /\ \A p \in Participant : d.part[p].state = "pending" /\ d.part[p].turn = Nobody /\ d.file[p] = d.part[p]
            /\ \A t \in TurnId : d.turn[t] = "none"
            /\ \A a \in Action : d.intent[a].st = "none"
<1> DEFINE new == [state |-> "pending", turn |-> Nobody]
           pending == [p \in Participant |-> new]
           turns == [t \in TurnId |-> "none"]
           sess == [p \in Participant |-> "none"]
           intents == [a \in Action |-> NoIntent]
           d == Blank(mode)
<1>1. new \in Participation
  BY DEF Participation, ParticipantStates
<1>2. NoIntent \in Intent /\ NoIntent.st = "none"
  BY AskedIn DEF NoIntent, Asked
<1>3. pending \in [Participant -> Participation]
  BY <1>1
<1>4. turns \in [TurnId -> TurnStates]
  BY DEF TurnStates
<1>5. sess \in [Participant -> SessionStates]
  BY DEF SessionStates
<1>6. intents \in [Action -> Intent]
  BY <1>2
<1>7. /\ d.mode = mode /\ d.state = "none" /\ d.part = pending /\ d.file = pending
      /\ d.turn = turns /\ d.intent = intents
  BY DEF Blank
<1>8. "none" \in LifecycleStates /\ "none" \in CloseReasons
  BY DEF LifecycleStates, CloseReasons
<1> HIDE DEF pending, turns, sess, intents
<1>9. d = [mode |-> mode, state |-> "none", ver |-> 0, reason |-> "none", part |-> pending,
           file |-> pending, turn |-> turns, exec |-> {}, sess |-> sess, msgs |-> {}, cost |-> 0, intent |-> intents]
  BY DEF Blank, pending, turns, sess, intents
<1>10. d \in Disk
  BY <1>3, <1>4, <1>5, <1>6, <1>8, <1>9 DEF Disk
<1> HIDE DEF d
<1>11. \A p \in Participant : pending[p].state = "pending" /\ pending[p].turn = Nobody
  BY DEF pending
<1>12. \A t \in TurnId : turns[t] = "none"
  BY DEF turns
<1>13. \A a \in Action : intents[a].st = "none"
  BY <1>2 DEF intents
<1> QED BY <1>7, <1>10, <1>11, <1>12, <1>13 DEF d

LEMMA InitOK ==
  ASSUME Init
  PROVE  OutcomeInv
<1>1. PICK mode \in Modes : disk = Blank(mode)
  BY DEF Init
<1>2. mode \in {"panel", "session"}
  BY ConstantsAssumption
<1>3. /\ disk \in Disk /\ disk.mode = mode /\ disk.state = "none"
      /\ \A p \in Participant :
           disk.part[p].state = "pending" /\ disk.part[p].turn = Nobody /\ disk.file[p] = disk.part[p]
      /\ \A t \in TurnId : disk.turn[t] = "none"
      /\ \A a \in Action : disk.intent[a].st = "none"
  BY <1>1, <1>2, BlankIn
<1>4. /\ \A t \in TurnId : ext.turn[t] = "none" /\ pc[t] = "idle"
      /\ \A x \in Thread : act[x].at = "idle"
  BY DEF Init, Idle, Doing
<1>5. TypeOK
  <2>1. "none" \in ExtTurns /\ "none" \in SessionStates
    BY DEF ExtTurns, SessionStates
  <2>2. ext \in [turn : [TurnId -> ExtTurns], sess : [Participant -> SessionStates]]
    BY <2>1 DEF Init
  <2>3. act \in [Thread -> Job]
    BY IdleIn DEF Init, Jobs
  <2>4. crashes \in 0..MaxDisturbances
    BY ConstantsAssumption DEF Init
  <2>5. pc \in [TurnId -> {"idle"}] /\ lock \in [Participant -> {Nobody}] /\ up = TRUE /\ expired = FALSE
    BY DEF Init
  <2> QED BY <1>3, <2>2, <2>3, <2>4, <2>5 DEF TypeOK
<1>6. ModeOK
  <2>1. "idle" \in Pcs(disk.mode)
    BY DEF Pcs
  <2> QED BY <2>1, IdleIn DEF Init, ModeOK
<1>7. LaunchOK /\ LaunchedOnce
  BY <1>4 DEF LaunchOK, LaunchedOnce
<1>8. BackedDisk(disk)
  BY <1>3 DEF BackedDisk, Credited
<1>9. FreshOK
  BY <1>3, <1>4, Actors DEF FreshOK
<1>10. DriverSaid
  BY <1>3 DEF DriverSaid
<1> QED BY <1>5, <1>6, <1>7, <1>8, <1>9, <1>10 DEF OutcomeInv, LaunchInv

\* Every step, action by action.
LEMMA NextStep ==
  ASSUME LaunchInv, Next
  PROVE  StepOK
<1>1. CASE SharedNext
  BY <1>1, BeginStep, PrepareStep, RoundEndsStep, RecoverStep, ExpireStep, CrashStep, ExecutionEndsStep DEF SharedNext
<1>2. CASE PanelNext
  BY <1>2, DispatchTurnStep, LaunchStep, LaunchedStep, StopLateStep, ObserveTurnStep,
     PanelCancelStep, PanelCancelFinishStep, PanelCancelCallStep DEF PanelNext
<1>3. CASE SessionNext
  <2>1. ASSUME NEW t \in TurnId,
               \/ dispatchSessionTurn(t) \/ ensureParticipantSession(t) \/ SessionReady(t)
               \/ StartTurn(t) \/ TurnStarted(t) \/ observeSessionTurn(t) \/ parkParticipantSession(t)
        PROVE  StepOK
    BY <2>1, DispatchSessionTurnStep, EnsureSessionStep, SessionReadyStep, StartTurnStep, TurnStartedStep,
       ObserveSessionTurnStep, ParkStep
  <2>2. ASSUME NEW a \in Action,
               \/ sessionAction(a) \/ followUpExpired(a) \/ replayAction(a)
               \/ commitFollowUp(a) \/ cancelExactSessionTurn(a) \/ ConfirmCancelTurn(a)
               \/ closeTeamSession(a) \/ cancelTeamSession(a) \/ CancelTurnsDone(a) \/ CancelFinish(a)
               \/ CancelBeforeActive(a) \/ replayFollowUp(a)
               \/ \E t \in TurnId : CancelReadTurn(a, t)
        PROVE  StepOK
    BY <2>2, SessionActionStep, FollowUpExpiredStep, ReplayActionStep, CommitFollowUpStep, CancelExactStep,
       ConfirmCancelStep, CloseSessionStep, CancelSessionStep, CancelTurnsDoneStep, CancelFinishStep,
       CancelBeforeActiveStep, ReplayFollowUpStep, CancelReadTurnStep
  <2>3. ASSUME NEW x \in Thread,
               finalizeGracefulClose(x) \/ \E p \in Participant : CloseParticipantSession(x, p)
        PROVE  StepOK
    BY <2>3, FinalizeStep, CloseParticipantStep
  <2> QED BY <1>3, <2>1, <2>2, <2>3 DEF SessionNext
<1> QED BY <1>1, <1>2, <1>3 DEF Next

LEMMA StutterStep ==
  ASSUME LaunchInv, UNCHANGED vars
  PROVE  StepOK
<1>1. disk' = disk /\ ext' = ext /\ pc' = pc /\ act' = act /\ lock' = lock /\ up' = up
      /\ crashes' = crashes /\ expired' = expired
  BY DEF vars
<1>2. disk \in Disk /\ act \in [Thread -> Jobs(disk.mode)]
  BY DEF LaunchInv, TypeOK, ModeOK
<1>3. Calm
  BY <1>1, <1>2, CalmActing
<1>4. SameCore(disk, disk') /\ ExtSteady
  BY <1>1, <1>2, SameIsSame, ExtSame
<1> QED BY <1>3, <1>4, SameStep

\* The files, the goroutines and the calls fit the mode of the Team, and what
\* is still to be launched has no execution.
THEOREM TeamInvariant == Spec => []LaunchInv
<1>1. Init => LaunchInv
  BY InitOK DEF OutcomeInv
<1>2. LaunchInv /\ [Next]_vars => LaunchInv'
  BY NextStep, StutterStep DEF StepOK
<1> QED BY <1>1, <1>2, PTL DEF Spec

\* Across crashes, recoveries and repeated dispatches no turn is launched a
\* second time, whatever the participants, the limits, the failing drivers
\* and the number of disturbances.
THEOREM TurnsAreLaunchedOnce == Spec => []LaunchedOnce
<1>1. LaunchInv => LaunchedOnce
  BY DEF LaunchInv
<1> QED BY <1>1, TeamInvariant, PTL

-----------------------------------------------------------------------------
(***************************************************************************)
(* Before the snapshot names the turns there is nothing a goroutine, a     *)
(* driver or the host could do.                                            *)
(***************************************************************************)

Fresh ==
  /\ \A t \in TurnId : disk.turn[t] \in {"none", "prepared"} /\ ext.turn[t] = "none" /\ pc[t] = "idle"
  /\ \A a \in Action : disk.intent[a].st = "none" /\ act[a].at = "idle"
  /\ disk.state \in {"none", "created"} /\ act[Controller].at \in {"idle", "prepare"}

LEMMA FreshPanel ==
  ASSUME EarlyCancel = FALSE, ~TurnsPrepared, Fresh
  PROVE  ~PanelNext
<1>1. ASSUME NEW t \in TurnId
      PROVE  ~(dispatchTurn(t) \/ Launch(t) \/ Launched(t) \/ StopLate(t) \/ observeTurn(t))
  BY DEF Fresh, dispatchTurn, MayEnter, Launch, Launched, StopLate, observeTurn
<1>2. ASSUME NEW a \in Cancel
      PROVE  ~(PanelCancel(a) \/ PanelCancelFinish(a) \/ \E p \in Participant : PanelCancelCall(a, p))
  <2>1. disk.intent[a].st = "none" /\ act[a].at = "idle"
    BY Actors DEF Fresh
  <2>2. ~PanelCancel(a)
    BY <2>1 DEF PanelCancel
  <2> QED BY <2>1, <2>2 DEF PanelCancelFinish, PanelCancelCall
<1> QED BY <1>1, <1>2 DEF PanelNext

LEMMA FreshSession ==
  ASSUME EarlyCancel = FALSE, ~TurnsPrepared, Fresh
  PROVE  ~SessionNext
<1>1. ASSUME NEW t \in TurnId
      PROVE  ~(\/ dispatchSessionTurn(t) \/ ensureParticipantSession(t) \/ SessionReady(t)
               \/ StartTurn(t) \/ TurnStarted(t) \/ observeSessionTurn(t) \/ parkParticipantSession(t))
  <2>1. pc[t] = "idle"
    BY DEF Fresh
  <2> QED BY <2>1 DEF dispatchSessionTurn, MayEnter, ensureParticipantSession, SessionReady, StartTurn,
                  TurnStarted, observeSessionTurn, parkParticipantSession
<1>2. ASSUME NEW a \in Action
      PROVE  ~(\/ sessionAction(a) \/ followUpExpired(a) \/ replayAction(a)
               \/ commitFollowUp(a) \/ cancelExactSessionTurn(a) \/ ConfirmCancelTurn(a)
               \/ closeTeamSession(a) \/ cancelTeamSession(a) \/ CancelTurnsDone(a) \/ CancelFinish(a)
               \/ CancelBeforeActive(a) \/ replayFollowUp(a)
               \/ \E t \in TurnId : CancelReadTurn(a, t))
  <2>1. disk.intent[a].st = "none" /\ act[a].at = "idle" /\ disk.state \in {"none", "created"}
    BY DEF Fresh
  <2>2. ~sessionAction(a)
    BY <2>1 DEF Fresh, sessionAction, preflightFollowUp, preflightCancelTurn
  <2>3. ~followUpExpired(a)
    BY DEF followUpExpired
  <2>4. ~(replayAction(a) \/ replayFollowUp(a))
    BY <2>1 DEF replayAction, replayFollowUp
  <2>5. ~(\/ commitFollowUp(a) \/ cancelExactSessionTurn(a) \/ ConfirmCancelTurn(a)
          \/ closeTeamSession(a) \/ cancelTeamSession(a) \/ CancelTurnsDone(a) \/ CancelFinish(a)
          \/ CancelBeforeActive(a) \/ \E t \in TurnId : CancelReadTurn(a, t))
    BY <2>1 DEF commitFollowUp, cancelExactSessionTurn, ConfirmCancelTurn, closeTeamSession, cancelTeamSession,
                CancelTurnsDone, CancelFinish, CancelBeforeActive, CancelReadTurn
  <2> QED BY <2>2, <2>3, <2>4, <2>5
<1>3. ASSUME NEW x \in Thread
      PROVE  ~(finalizeGracefulClose(x) \/ \E p \in Participant : CloseParticipantSession(x, p))
  <2>1. act[x].at \in {"idle", "prepare"}
    BY DEF Fresh, Thread
  <2> QED BY <2>1 DEF finalizeGracefulClose, CloseParticipantSession
<1> QED BY <1>1, <1>2, <1>3 DEF SessionNext

\* A crash leaves every goroutine and every call idle.
LEMMA CrashedIsIdle ==
  ASSUME Crashed
  PROVE  /\ \A t \in TurnId : pc'[t] = "idle"
         /\ \A a \in Action : act'[a].at = "idle"
         /\ act'[Controller].at = "idle"
  BY Actors DEF Crashed, Idle, Doing

LEMMA Dispatched ==
  ASSUME act \in [Thread -> Job], act[Controller].at \in {"idle", "prepare"},
         \A a \in Action : act[a].at = "idle", act' = DispatchAsync(act) \/ act' = act
  PROVE  act'[Controller].at \in {"idle", "prepare"} /\ \A a \in Action : act'[a].at = "idle"
<1>1. Controller \notin Action
  BY ConstantsAssumption DEF Action
<1>2. Doing("prepare", {}, {}, Nobody).at = "prepare"
  BY DEF Doing
<1> QED BY <1>1, <1>2, Actors DEF DispatchAsync

LEMMA FreshKept ==
  ASSUME LaunchInv, EarlyCancel = FALSE, FreshOK, ~TurnsPrepared, LongEnough, LongEnough', SharedNext
  PROVE  FreshOK'
<1> DEFINE P == \A p \in Participant : disk'.part[p].turn # Nobody
<1>1. /\ disk.state \in {"none", "created"}
      /\ \A p \in Participant : disk.part[p].turn = Nobody
      /\ \A t \in TurnId : disk.turn[t] \in {"none", "prepared"} /\ ext.turn[t] = "none" /\ pc[t] = "idle"
      /\ \A a \in Action : disk.intent[a].st = "none" /\ act[a].at = "idle"
      /\ act[Controller].at \in {"idle", "prepare"}
  BY DEF FreshOK
<1>2. disk \in Disk /\ act \in [Thread -> Job] /\ ~expired
  BY DEF LaunchInv, TypeOK, LongEnough
<1>3. CASE Begin
  <2>1. /\ ext' = ext /\ (Crashed \/ (pc' = pc /\ (act' = DispatchAsync(act) \/ act' = act)))
        /\ \/ disk' \in Disks(repairPreparedTeam(disk))
           \/ disk' = [disk EXCEPT !.state = "created", !.ver = 1, !.cost = Cardinality(Participant)]
    BY <1>3 DEF Begin, Commit, Written, Writes, Disks
  <2>2. /\ disk'.state \in {"none", "created"} /\ disk'.part = disk.part /\ disk'.turn = disk.turn
        /\ disk'.intent = disk.intent
    <3>1. CASE disk' \in Disks(repairPreparedTeam(disk))
      BY <1>1, <1>2, <3>1, Repaired
    <3>2. CASE disk' = [disk EXCEPT !.state = "created", !.ver = 1, !.cost = Cardinality(Participant)]
      BY <1>1, <1>2, <3>2 DEF Disk
    <3> QED BY <2>1, <3>1, <3>2
  <2>3. CASE Crashed
    BY <1>1, <2>1, <2>2, <2>3, CrashedIsIdle DEF FreshOK
  <2>4. CASE pc' = pc /\ (act' = DispatchAsync(act) \/ act' = act)
    BY <1>1, <1>2, <2>1, <2>2, <2>4, Dispatched DEF FreshOK
  <2> QED BY <2>1, <2>3, <2>4
<1>4. CASE Prepare
  <2> DEFINE m == prepareInitialTurns(disk)
  <2>1. disk' \in Disks(m) /\ (Crashed \/ disk' = m.to) /\ ext' = ext
    BY <1>4 DEF Prepare, Commit, Disks
  <2>2. /\ \A u \in TurnId : disk'.turn[u] = disk.turn[u] \/ disk'.turn[u] = "prepared"
        /\ disk' = m.to => disk.state = "closed" \/ P
        /\ P \/ (disk'.state = disk.state /\ disk'.part = disk.part /\ disk'.intent = disk.intent)
    BY <1>2, <2>1, PreparedTurns
  <2>3. CASE P
    BY <2>3 DEF FreshOK, TurnsPrepared
  <2>4. CASE ~P
    <3>1. Crashed
      BY <1>1, <2>1, <2>2, <2>4
    <3> QED BY <1>1, <2>1, <2>2, <2>4, <3>1, CrashedIsIdle DEF FreshOK
  <2> QED BY <2>3, <2>4
<1>5. CASE RoundEnds
  BY <1>1, <1>5 DEF RoundEnds
<1>6. CASE Recover
  <2>1. {a \in Action : disk.intent[a].st = "pending"} = {}
    BY <1>1
  <2>2. ext' = ext /\ pc' = pc /\ disk' = disk /\ (act' = DispatchAsync(act) \/ act' = act)
    BY <1>2, <1>6, <2>1 DEF Recover
  <2> QED BY <1>1, <1>2, <2>2, Dispatched DEF FreshOK
<1>7. CASE Expire
  BY <1>7 DEF Expire, LongEnough, TurnsPrepared
<1>8. CASE Crash
  <2>1. Crashed /\ disk' = disk /\ ext' = ext
    BY <1>8 DEF Crash
  <2> QED BY <1>1, <2>1, CrashedIsIdle DEF FreshOK
<1>9. CASE \E t \in TurnId : ExecutionEnds(t)
  BY <1>1, <1>9 DEF ExecutionEnds
<1> QED BY <1>3, <1>4, <1>5, <1>6, <1>7, <1>8, <1>9 DEF SharedNext

LEMMA OutcomeStep ==
  ASSUME EarlyCancel = FALSE, OutcomeInv, LongEnough, LongEnough', [Next]_vars
  PROVE  OutcomeInv' /\ Final
<1>1. StepOK /\ LaunchInv /\ BackedDisk(disk) /\ FreshOK
  BY NextStep, StutterStep DEF OutcomeInv
<1>2. LaunchInv' /\ DriverSaid' /\ Final /\ Sane(disk, disk')
  BY <1>1 DEF StepOK, OutcomeInv
<1>3. BackedDisk(disk')
  BY <1>1, <1>2 DEF Sane, Final, Kept
<1>4. FreshOK'
  <2>1. CASE TurnsPrepared
    <3>1. \A p \in Participant : disk'.part[p].turn # Nobody
      BY <1>1, <1>2, <2>1 DEF Sane, Onward, TurnsPrepared
    <3> QED BY <3>1 DEF FreshOK, TurnsPrepared
  <2>2. CASE ~TurnsPrepared
    <3>1. Fresh
      BY <1>1, <2>2 DEF Fresh, FreshOK
    <3>2. SharedNext \/ UNCHANGED vars
      BY <2>2, <3>1, FreshPanel, FreshSession DEF Next
    <3>3. CASE UNCHANGED vars
      BY <1>1, <3>3 DEF FreshOK, TurnsPrepared, vars
    <3> QED BY <1>1, <2>2, <3>2, <3>3, FreshKept
  <2> QED BY <2>1, <2>2
<1> QED BY <1>2, <1>3, <1>4 DEF OutcomeInv

\* The outcomes on disk are backed and nothing is done before the turns are
\* prepared, for a Team whose host does not end it before its turns are
\* prepared and whose lifetime is long enough to prepare them.
THEOREM OutcomeInvariant ==
  ASSUME EarlyCancel = FALSE
  PROVE  Spec /\ []LongEnough => []OutcomeInv
<1>1. Init => OutcomeInv
  BY InitOK
<1>2. OutcomeInv /\ LongEnough /\ LongEnough' /\ [Next]_vars => OutcomeInv'
  BY OutcomeStep
<1> QED BY <1>1, <1>2, PTL DEF Spec

\* A turn is credited with an answer only after its message is stored, and the
\* snapshot credits a participant with an outcome only if one of its turns
\* has it (commitContribution, markTurnFailure, the follow-up's snapshot).
THEOREM OutcomesAreBacked ==
  ASSUME EarlyCancel = FALSE
  PROVE  Spec /\ []LongEnough => []OutcomeIsBacked
<1>1. OutcomeInv => OutcomeIsBacked
  <2> SUFFICES ASSUME OutcomeInv PROVE OutcomeIsBacked
    OBVIOUS
  <2>1. BackedDisk(disk)
    BY DEF OutcomeInv
  <2> QED BY <2>1 DEF BackedDisk, Credited, OutcomeIsBacked, TurnIds
<1> QED BY <1>1, OutcomeInvariant, PTL

\* Under the same conditions a turn that is over keeps its outcome: what
\* arrives late changes nothing, but that an indeterminate turn is cancelled
\* once its execution was really stopped (completeCancelledTurn).
THEOREM TurnsAreFinal ==
  ASSUME EarlyCancel = FALSE
  PROVE  Spec /\ []LongEnough => TurnIsFinal
<1> DEFINE A == \A t \in TurnId :
                  terminalTeamTurn(disk.turn[t]) =>
                    \/ disk.turn'[t] = disk.turn[t]
                    \/ /\ disk.turn[t] = "indeterminate" /\ disk.turn'[t] = "cancelled"
                       /\ ext'.turn[t] = "interrupted"
<1>1. OutcomeInv /\ LongEnough /\ LongEnough' /\ [Next]_vars => [A]_vars
  BY OutcomeStep DEF Final
<1>2. TurnIsFinal <=> [][A]_vars
  BY DEF TurnIsFinal
<1> HIDE DEF A
<1> QED BY <1>1, <1>2, OutcomeInvariant, PTL DEF Spec

\* The lifetime of a panel is never over, and neither is that of a session
\* that does not outlive it: then the hypothesis holds by itself.
THEOREM LifetimesAreLong ==
  ASSUME MayExpire = FALSE \/ Modes = {"panel"}
  PROVE  Spec => []LongEnough
<1> DEFINE I == LaunchInv /\ ~expired /\ (MayExpire = FALSE \/ disk.mode = "panel")
<1>1. Init => I
  <2> SUFFICES ASSUME Init PROVE I
    OBVIOUS
  <2>1. PICK mode \in Modes : disk = Blank(mode)
    BY DEF Init
  <2>2. disk.mode = mode
    BY <2>1 DEF Blank
  <2> QED BY <2>2, InitOK DEF OutcomeInv, Init
<1>2. I /\ [Next]_vars => I'
  <2> SUFFICES ASSUME I, [Next]_vars PROVE I'
    OBVIOUS
  <2>1. LaunchInv' /\ disk'.mode = disk.mode
    BY NextStep, StutterStep DEF StepOK, Sane
  <2>2. expired' = expired
    <3>1. ~Expire
      BY DEF Expire
    <3>2. CASE SharedNext
      BY <3>1, <3>2 DEF SharedNext, Begin, Prepare, RoundEnds, Recover, Crash, Crashed, Commit, ExecutionEnds
    <3>3. CASE PanelNext
      BY <3>3 DEF PanelNext, dispatchTurn, Launch, Launched, StopLate, observeTurn, PanelCancel,
                  PanelCancelCall, PanelCancelFinish, Crashed, Commit
    <3>4. CASE SessionNext
      <4>1. \A m, Then : Commit(m, Then) => expired' = expired
        BY DEF Commit, Crashed
      <4>2. ASSUME NEW t \in TurnId
            PROVE  (\/ dispatchSessionTurn(t) \/ ensureParticipantSession(t) \/ SessionReady(t)
                    \/ StartTurn(t) \/ TurnStarted(t) \/ observeSessionTurn(t) \/ parkParticipantSession(t))
                      => expired' = expired
        BY <4>1 DEF dispatchSessionTurn, ensureParticipantSession, SessionReady, StartTurn, TurnStarted,
                    observeSessionTurn, parkParticipantSession
      <4>3. ASSUME NEW a \in Action
            PROVE  (sessionAction(a) \/ followUpExpired(a) \/ replayAction(a) \/ replayFollowUp(a)
                    \/ cancelTeamSession(a) \/ CancelTurnsDone(a) \/ \E t \in TurnId : CancelReadTurn(a, t))
                      => expired' = expired
        BY DEF sessionAction, followUpExpired, replayAction, replayFollowUp, cancelTeamSession,
               CancelTurnsDone, CancelReadTurn
      <4>4. ASSUME NEW a \in Action
            PROVE  (commitFollowUp(a) \/ cancelExactSessionTurn(a) \/ ConfirmCancelTurn(a)
                    \/ closeTeamSession(a) \/ CancelFinish(a) \/ CancelBeforeActive(a)) => expired' = expired
        BY <4>1 DEF commitFollowUp, cancelExactSessionTurn, ConfirmCancelTurn, closeTeamSession,
                    CancelFinish, CancelBeforeActive
      <4>5. ASSUME NEW x \in Thread
            PROVE  finalizeGracefulClose(x) \/ (\E p \in Participant : CloseParticipantSession(x, p))
                      => expired' = expired
        BY <4>1 DEF finalizeGracefulClose, CloseParticipantSession
      <4> QED BY <3>4, <4>2, <4>3, <4>4, <4>5 DEF SessionNext
    <3> QED BY <3>2, <3>3, <3>4 DEF Next, vars
  <2> QED BY <2>1, <2>2
<1>3. I => LongEnough
  BY DEF LongEnough
<1> QED BY <1>1, <1>2, <1>3, PTL DEF Spec
=============================================================================
