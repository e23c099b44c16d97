--------------------------- MODULE ActionJournal ---------------------------
(***************************************************************************)
(* The way of an action from its caller to a Run and back: RunAction of    *)
(* the application service under mutationMu, the application journal, the  *)
(* Run service's Resume and cancel with the action intent, the receipts    *)
(* and the cancellation mailbox, crashes, and the replay at startup.       *)
(*                                                                         *)
(* Of the Run only the state version, the receipts and three phases are    *)
(* kept; what a test of its nodes decides is chosen freely.                *)
(* WorkflowRun has the details.  Durable are the journal, the intents, the *)
(* node writes, the Run and the mailbox.                                   *)
(***************************************************************************)
EXTENDS Naturals, FiniteSets

CONSTANTS Id,           \* the actionIds
          MaxVersion,   \* bound on the state version
          Steps,        \* the node writes of an action
          NoEntry,      \* the journal has no record of the actionId
          NoRequest     \* there is no cancellation request or no response

\* Run.ActionReceipts keeps the newest of them.
maxActionReceipts == 256

ASSUME JournalAssumption ==
    /\ IsFiniteSet(Id) /\ Cardinality(Id) <= maxActionReceipts
    /\ MaxVersion \in Nat
    /\ Steps \in Nat \ {0}

\* What the request hash covers: another kind or another expected version is
\* another payload.
RunActionRequest == [id : Id, kind : {"resume", "cancel"}, ver : 1..MaxVersion]

\* "not_found": the cancellation request was gone when the caller came to handle it;
\* "bad_payload": an intent file could not be read, written or removed.
Answers == {"applied", "moot", "error", "not_found", "bad_payload"}

\* A record has its response once it is marked as mutated.
ApplicationJournalRecord ==
    {x \in [req : RunActionRequest, state : {"intent", "mutated", "committed"},
            resp : Answers \cup {"none"}] : x.state = "intent" <=> x.resp = "none"}

ASSUME NoEntryAssumption == NoEntry \notin ApplicationJournalRecord
ASSUME NoRequestAssumption == NoRequest \notin RunActionRequest

VARIABLES journal,   \* the application journal
          version,   \* the state version of the Run
          receipts,  \* the requests that the Run has recorded
          phase,     \* the phase of the Run: open, cancelling or completed
          intent,    \* the phase of the intent file of each action
          wrote,     \* how many node writes of each action are on disk
          done,      \* how often the Run recorded each action
          mail,      \* cancel.request.json
          reply,     \* cancel.response.json
          busy,      \* a controller has the lease of the Run
          handler,   \* the handler of the cancellation request
          proc,      \* the engine process: down, replaying its journal, or up
          call       \* the call of RunAction that has mutationMu

runState == <<version, receipts, phase, done>>
mailbox == <<mail, reply, handler>>
vars == <<journal, version, receipts, phase, intent, wrote, done, mail, reply, busy,
          handler, proc, call>>

CallPoints == {"idle", "begin", "core", "plan", "apply", "final", "remove", "wait",
               "try", "abort", "mark", "commit"}

TypeOK ==
    /\ journal \in [Id -> ApplicationJournalRecord \cup {NoEntry}]
    /\ version \in 1..MaxVersion + 1
    /\ receipts \subseteq RunActionRequest
    /\ phase \in {"open", "cancelling", "completed"}
    /\ intent \in [Id -> {"none", "planned", "applying"}]
    /\ wrote \in [Id -> 0..Steps]
    /\ done \in [Id -> Nat]
    /\ mail \in RunActionRequest \cup {NoRequest}
    /\ reply \in [req : RunActionRequest \cup {NoRequest},
                  status : {"completed", "failed", "conflict"}]
    /\ busy \in BOOLEAN
    /\ handler \in {"off", "marked", "resolve"}
    /\ proc \in {"down", "replay", "up"}
    /\ call \in [pc : CallPoints, req : RunActionRequest \cup {NoRequest},
                 out : Answers \cup {"none"}]
    /\ call.pc # "idle" => call.req # NoRequest

Idle == [pc |-> "idle", req |-> NoRequest, out |-> "none"]
NoReply == [req |-> NoRequest, status |-> "failed"]

Init ==
    /\ journal = [i \in Id |-> NoEntry]
    /\ version = 1
    /\ receipts = {}
    /\ phase = "open"
    /\ intent = [i \in Id |-> "none"]
    /\ wrote = [i \in Id |-> 0]
    /\ done = [i \in Id |-> 0]
    /\ mail = NoRequest
    /\ reply = NoReply
    /\ busy = TRUE
    /\ handler = "off"
    /\ proc = "up"
    /\ call = Idle

-----------------------------------------------------------------------------
\* The record of the action waits for its response, or for its commit.
Pending(i) == journal[i] # NoEntry /\ journal[i].state # "committed"

\* The call goes on at p, or on to its end with the answer a.
Goto(p) == call' = [pc |-> p, req |-> call.req, out |-> "none"]
Ends(p, a) == call' = [pc |-> p, req |-> call.req, out |-> a]

\* Mutant of RunAction: a pending record is answered by the version alone, the
\* receipt in the Run is not looked at.
RunActionNoReceipt(r) ==
    /\ call.pc = "idle"
    /\ proc = "up" \/ (proc = "replay" /\ Pending(r.id))
    /\ \/ /\ journal[r.id] = NoEntry
          /\ version = r.ver
          /\ call' = [pc |-> "begin", req |-> r, out |-> "none"]
       \/ /\ Pending(r.id)
          /\ journal[r.id].req = r
          /\ call' = [req |-> r,
                      pc |-> IF journal[r.id].state = "mutated" THEN "commit"
                             ELSE IF version = r.ver THEN "core" ELSE "mark",
                      out |-> IF journal[r.id].state # "mutated" /\ version # r.ver
                              THEN "error" ELSE "none"]
    /\ UNCHANGED <<journal, runState, intent, wrote, mailbox, busy, proc>>

\* The call of a caller, or of Recover for a pending record.  A request that is
\* refused without a record (another payload under its id, another version, a
\* shape that does not fit) and one whose record is committed change nothing.
RunAction(r) ==
    /\ call.pc = "idle"
    /\ proc = "up" \/ (proc = "replay" /\ Pending(r.id))
    /\ \/ /\ journal[r.id] = NoEntry
          /\ version = r.ver
          /\ call' = [pc |-> "begin", req |-> r, out |-> "none"]
       \/ /\ Pending(r.id)
          /\ journal[r.id].req = r
          /\ call' = [req |-> r,
                      pc |-> IF journal[r.id].state = "mutated" THEN "commit"
                             ELSE IF r \notin receipts /\ version = r.ver
                             THEN "core" ELSE "mark",
                      out |-> IF journal[r.id].state = "mutated" THEN "none"
                              ELSE IF r \in receipts THEN "applied"
                              ELSE IF version # r.ver THEN "error" ELSE "none"]
    /\ UNCHANGED <<journal, runState, intent, wrote, mailbox, busy, proc>>

BeginApplicationJournal ==
    /\ call.pc = "begin"
    /\ journal' = [journal EXCEPT ![call.req.id] =
                     [req |-> call.req, state |-> "intent", resp |-> "none"]]
    /\ Goto("core")
    /\ UNCHANGED <<runState, intent, wrote, mailbox, busy, proc>>

MarkApplicationJournalMutated ==
    /\ call.pc = "mark"
    /\ journal' = [journal EXCEPT ![call.req.id] =
                     [req |-> @.req, state |-> "mutated", resp |-> call.out]]
    /\ Ends("commit", call.out)
    /\ UNCHANGED <<runState, intent, wrote, mailbox, busy, proc>>

CommitApplicationJournal ==
    /\ call.pc = "commit"
    /\ journal' = [journal EXCEPT ![call.req.id].state = "committed"]
    /\ call' = Idle
    /\ UNCHANGED <<runState, intent, wrote, mailbox, busy, proc>>

\* An error that is not final: the record stays pending, the caller may try
\* again.  In Recover it ends the process.
InternalError ==
    /\ call' = Idle
    /\ \/ proc = "replay" /\ proc' = "down" /\ busy' = FALSE /\ handler' = "off"
       \/ proc # "replay" /\ UNCHANGED <<proc, busy, handler>>
    /\ UNCHANGED <<journal, runState, intent, wrote, mail, reply>>

\* A file cannot be read or written (in "remove": the event after the Run was
\* written).  The lease is released, everything on disk stays.
IoError ==
    /\ call.pc \in {"begin", "core", "apply", "final", "remove", "abort", "mark", "commit"}
    /\ InternalError

-----------------------------------------------------------------------------
Resuming(p) == call.pc = p /\ call.req.kind = "resume"

\* The lease is not free within a second.
ResumeConflict ==
    /\ Resuming("core")
    /\ busy
    /\ InternalError

\* Resume has the lease.  An intent of the action is carried on; a new action
\* needs the expected version and no intent of another action, and the state of
\* its node decides whether it is refused, has nothing to do because the Run is
\* completed with the same decision, is only recorded, or is planned.
Resume ==
    /\ Resuming("core")
    /\ ~busy
    /\ LET i == call.req.id
           free == \A j \in Id : intent[j] = "none"
       IN  \/ /\ intent[i] # "none"
              /\ intent' = [intent EXCEPT ![i] = "applying"]
              /\ Goto("apply")
           \/ /\ intent[i] = "none"
              /\ Ends("abort", "error")
              /\ UNCHANGED intent
           \/ /\ intent[i] = "none" /\ version = call.req.ver
              /\ IF phase = "completed" THEN Ends("mark", "moot") ELSE Goto("final")
              /\ UNCHANGED intent
           \/ /\ free /\ version = call.req.ver
              /\ intent' = [intent EXCEPT ![i] = "planned"]
              /\ Goto("plan")
    /\ UNCHANGED <<journal, runState, wrote, mailbox, busy, proc>>

\* The intent is marked as applying before the first node is written; an
\* error of this write is final.
ApplyBegins ==
    /\ call.pc = "plan"
    /\ \/ /\ intent' = [intent EXCEPT ![call.req.id] = "applying"]
          /\ Goto("apply")
       \/ Ends("abort", "error") /\ UNCHANGED intent
    /\ UNCHANGED <<journal, runState, wrote, mailbox, busy, proc>>

\* applyActionIntent: the next node write.
ApplyNode ==
    /\ call.pc = "apply"
    /\ LET i == call.req.id
       IN  IF wrote[i] < Steps
           THEN wrote' = [wrote EXCEPT ![i] = @ + 1] /\ UNCHANGED call
           ELSE Goto("final") /\ UNCHANGED wrote
    /\ UNCHANGED <<journal, runState, intent, mailbox, busy, proc>>

\* The Run records a request: the receipt is in the write of the new version.
recordActionReceipt(r) ==
    /\ version <= MaxVersion
    /\ version' = version + 1
    /\ receipts' = receipts \cup {r}
    /\ done' = [done EXCEPT ![r.id] = @ + 1]

finalizeAction ==
    /\ call.pc = "final"
    /\ recordActionReceipt(call.req)
    /\ phase' = "open"
    /\ Goto("remove")
    /\ UNCHANGED <<journal, intent, wrote, mailbox, busy, proc>>

\* The intent is removed and the lease goes to a new controller.
RemoveActionIntent ==
    /\ call.pc = "remove"
    /\ intent' = [intent EXCEPT ![call.req.id] = "none"]
    /\ busy' = TRUE
    /\ Ends("mark", "applied")
    /\ UNCHANGED <<journal, runState, wrote, mailbox, proc>>

\* After a final error an intent is removed only if nothing was written yet.
AbortActionIntent ==
    /\ call.pc = "abort"
    /\ intent' = [intent EXCEPT ![call.req.id] = IF @ = "planned" THEN "none" ELSE @]
    /\ Ends("mark", call.out)
    /\ UNCHANGED <<journal, runState, wrote, mailbox, busy, proc>>

\* An intent file cannot be read, written or removed.  The path in the message
\* holds the word action, so mapActionError takes it for a bad payload, which
\* is final, wherever the action is.
IntentFileFails ==
    /\ \/ Resuming("core") /\ ~busy
       \/ call.pc \in {"apply", "remove"}
    /\ intent[call.req.id] # "none"
    /\ Ends("abort", "bad_payload")
    /\ UNCHANGED <<journal, runState, intent, wrote, mailbox, busy, proc>>

-----------------------------------------------------------------------------
\* CancelWithPrecondition up to the request file.  A request that is pending
\* must be the same; a new one removes an old response.
CancelBegins ==
    /\ call.pc = "core"
    /\ call.req.kind = "cancel"
    /\ IF version # call.req.ver THEN Ends("abort", "error") /\ UNCHANGED <<mail, reply>>
       ELSE IF phase = "completed" THEN Ends("mark", "moot") /\ UNCHANGED <<mail, reply>>
       ELSE IF mail \notin {NoRequest, call.req}
       THEN Ends("abort", "error") /\ UNCHANGED <<mail, reply>>
       ELSE /\ mail' = call.req
            /\ reply' = IF mail = call.req THEN reply ELSE NoReply
            /\ Goto("wait")
    /\ UNCHANGED <<journal, runState, intent, wrote, busy, handler, proc>>

\* The caller reads the response under the guard of the mailbox.  A failed
\* cancellation is not final.
CancelReads ==
    /\ call.pc = "wait"
    /\ handler # "resolve"
    /\ reply.req = call.req
    /\ \/ /\ reply.status = "completed"
          /\ Ends("mark", IF call.req \in receipts THEN "applied" ELSE "moot")
          /\ UNCHANGED <<journal, runState, intent, wrote, mailbox, busy, proc>>
       \/ /\ reply.status = "conflict"
          /\ Ends("abort", "error")
          /\ UNCHANGED <<journal, runState, intent, wrote, mailbox, busy, proc>>
       \/ reply.status = "failed" /\ InternalError

\* There is no response yet: the caller tries to take the lease, and reads again
\* if it cannot.
CancelPolls ==
    /\ \/ /\ call.pc = "wait"
          /\ handler # "resolve"
          /\ reply.req # call.req
          /\ Goto("try")
       \/ /\ call.pc = "try"
          /\ busy
          /\ Goto("wait")
    /\ UNCHANGED <<journal, runState, intent, wrote, mailbox, busy, proc>>

\* The caller has the lease, but the monitor has resolved the request since the
\* caller looked for the response.  The missing file is an error that is final,
\* and the response is overwritten.
CancelFindsNothing ==
    /\ call.pc = "try"
    /\ ~busy
    /\ mail = NoRequest
    /\ reply' = [req |-> call.req, status |-> "failed"]
    /\ Ends("abort", "not_found")
    /\ UNCHANGED <<journal, runState, intent, wrote, mail, busy, handler, proc>>

\* The monitor of the controller, or the caller once it has the lease, marks
\* the cancellation in the Run, unless the version is stale, the Run is
\* completed, or it is being cancelled already.
CancelMark ==
    /\ handler = "off"
    /\ mail # NoRequest
    /\ busy \/ call.pc = "try"
    /\ \/ /\ version # mail.ver
          /\ reply' = [req |-> mail, status |-> "conflict"]
          /\ handler' = "resolve"
          /\ UNCHANGED runState
       \/ /\ version = mail.ver
          /\ handler' = "marked"
          /\ IF phase = "open" THEN recordActionReceipt(mail) /\ phase' = "cancelling"
             ELSE UNCHANGED runState
          /\ UNCHANGED reply
    /\ UNCHANGED <<journal, intent, wrote, mail, busy, proc, call>>

\* The outcomes are applied in one or more writes of the Run, or it has no
\* Attempts that can be cancelled, and the response is written.
CancelEnds ==
    /\ handler = "marked"
    /\ \E s \in {"completed", "failed"} :
         /\ reply' = [req |-> mail, status |-> s]
         /\ \/ phase = "completed" /\ s = "completed" /\ UNCHANGED <<version, phase>>
            \/ phase = "cancelling" /\ s = "failed" /\ UNCHANGED <<version, phase>>
            \/ /\ phase # "completed"
               /\ version <= MaxVersion
               /\ version' = version + 1
               /\ phase' = IF s = "completed" THEN "completed" ELSE "open"
    /\ handler' = "resolve"
    /\ UNCHANGED <<journal, receipts, done, intent, wrote, mail, busy, proc, call>>

\* The request is removed; the monitor stops its controller, the caller goes on
\* with the response it has written.
ResolveCancellation ==
    /\ handler = "resolve"
    /\ mail' = NoRequest
    /\ handler' = "off"
    /\ busy' = FALSE
    /\ IF busy THEN UNCHANGED call ELSE Goto("wait")
    /\ UNCHANGED <<journal, runState, intent, wrote, reply, proc>>

-----------------------------------------------------------------------------
\* The controller persists the Run: an open one, or one whose cancellation the
\* engine carries on after a restart.
ControllerWrites ==
    /\ busy
    /\ phase # "completed"
    /\ version <= MaxVersion
    /\ version' = version + 1
    /\ phase' \in {"open", "cancelling", "completed"}
    /\ UNCHANGED <<journal, receipts, done, intent, wrote, mailbox, busy, proc, call>>

\* The controller ends.  One that is recovered after a failed heartbeat counts
\* as the same controller.
ControllerEnds ==
    /\ busy
    /\ handler = "off"
    /\ busy' = FALSE
    /\ UNCHANGED <<journal, runState, intent, wrote, mailbox, proc, call>>

Crash ==
    /\ proc # "down"
    /\ proc' = "down"
    /\ busy' = FALSE
    /\ handler' = "off"
    /\ call' = Idle
    /\ UNCHANGED <<journal, runState, intent, wrote, mail, reply>>

Restart ==
    /\ proc = "down"
    /\ proc' = "replay"
    /\ UNCHANGED <<journal, runState, intent, wrote, mailbox, busy, call>>

\* Mutant of Recover: the Run is recovered before the journal is replayed.
RecoverFirst ==
    /\ proc = "replay"
    /\ call.pc = "idle"
    /\ proc' = "up"
    /\ busy' \in {busy, busy \/ phase # "completed"}
    /\ UNCHANGED <<journal, runState, intent, wrote, mailbox, call>>

\* All pending records are replayed: the Run gets a controller if it needs one.
Recover ==
    /\ proc = "replay"
    /\ call.pc = "idle"
    /\ \A i \in Id : ~Pending(i)
    /\ proc' = "up"
    /\ busy' \in {busy, busy \/ phase # "completed"}
    /\ UNCHANGED <<journal, runState, intent, wrote, mailbox, call>>

Next ==
    \/ \E r \in RunActionRequest : RunAction(r)
    \/ BeginApplicationJournal
    \/ MarkApplicationJournalMutated
    \/ CommitApplicationJournal
    \/ IoError
    \/ ResumeConflict \/ Resume \/ ApplyBegins \/ ApplyNode \/ finalizeAction
    \/ RemoveActionIntent \/ AbortActionIntent \/ IntentFileFails
    \/ CancelBegins \/ CancelReads \/ CancelPolls \/ CancelFindsNothing
    \/ CancelMark \/ CancelEnds \/ ResolveCancellation
    \/ ControllerWrites \/ ControllerEnds
    \/ Crash \/ Restart \/ Recover

Spec == Init /\ [][Next]_vars

-----------------------------------------------------------------------------
\* The final answer of an action is what its record says.
answer == [i \in Id |-> IF journal[i] = NoEntry THEN "none" ELSE journal[i].resp]

EO == INSTANCE ExactlyOnce

\* Journal, receipts, versions and intents together give every action at most
\* one effect and at most one answer, which tells the truth unless it is
\* not_found or bad_payload, through crashes at any write, repeated requests and the replay.
Once == EO!Spec

\* A final error says that the action was not applied.
ErrorMeansNotApplied ==
    \A i \in Id : answer[i] \in {"error", "not_found", "bad_payload"} => done[i] = 0

\* Half an action is never forgotten: if nodes of an action were written and it
\* is answered without being applied, then its intent is still there, and
\* another action on the same version of the Run was applied in its place or
\* cancelled the Run.
HalfDoneIsSuperseded ==
    \A i \in Id :
      answer[i] \in {"moot", "error"} /\ wrote[i] > 0 =>
        /\ intent[i] = "applying"
        /\ \E j \in Id \ {i} :
             /\ journal[j] # NoEntry
             /\ journal[j].req.ver = journal[i].req.ver
             /\ done[j] = 1 \/ journal[j].req.kind = "cancel"

-----------------------------------------------------------------------------
\* Nothing more happens to an open Run at the version of r.
Settled(r) ==
    /\ version >= r.ver
    /\ version = r.ver => phase # "open"

\* The journal, the receipts and the effects say the same.
Ledger ==
    /\ \A i \in Id :
         IF journal[i] = NoEntry THEN intent[i] = "none" /\ wrote[i] = 0 /\ done[i] = 0
         ELSE /\ journal[i].req.id = i
              /\ journal[i].req.ver <= version
              /\ done[i] \in {0, 1}
              /\ done[i] = 1 => version > journal[i].req.ver
              /\ done[i] = 1 <=> journal[i].req \in receipts
              /\ journal[i].state # "intent" =>
                   EO!Truthful(done[i], journal[i].resp)
    /\ \A r \in receipts : journal[r.id] # NoEntry /\ journal[r.id].req = r

\* What the call that has mutationMu knows of its record and of the Run.
CallInv ==
    LET r == call.req
        i == call.req.id
    IN  /\ call.pc # "idle" => r.ver <= version
        /\ call.pc = "begin" => journal[i] = NoEntry
        /\ call.pc \notin {"idle", "begin"} =>
             /\ journal[i] # NoEntry
             /\ journal[i].req = r
             /\ journal[i].state = IF call.pc = "commit" THEN "mutated" ELSE "intent"
        /\ call.pc \in {"plan", "apply", "final", "remove"} => r.kind = "resume"
        /\ call.pc \in {"wait", "try"} => r.kind = "cancel"
        /\ call.pc \in {"core", "plan", "apply", "final"} => done[i] = 0
        /\ call.pc = "remove" =>
             /\ done[i] = 1
             /\ \A j \in Id : journal[j] # NoEntry => journal[j].req.ver < version
        /\ call.pc \in {"abort", "mark"} =>
             /\ call.out \in Answers
             /\ EO!Truthful(done[i], call.out)
             /\ done[i] = 0 /\ wrote[i] > 0 /\ call.out # "bad_payload" => version > r.ver
        /\ call.pc \in {"plan", "apply", "final"} => ~busy /\ version = r.ver
        /\ call.pc = "core" /\ intent[i] # "none" => ~busy /\ version = r.ver
        /\ call.pc = "plan" => intent[i] = "planned"
        /\ call.pc = "apply" => intent[i] = "applying"

\* A cancellation request that can still be applied has a pending record, and
\* whoever may handle it does so for a waiting caller.
MailInv ==
    /\ mail # NoRequest =>
         mail.kind = "cancel" /\ journal[mail.id] # NoEntry /\ journal[mail.id].req = mail
    /\ reply.req # NoRequest => Settled(reply.req)
    /\ mail # NoRequest /\ ~Settled(mail) =>
         /\ journal[mail.id].state = "intent"
         /\ call.req = mail => call.pc \notin {"abort", "mark"}
         /\ busy \/ handler # "off" => call.pc \in {"wait", "try"}
    /\ call.pc \in {"wait", "try"} =>
         /\ mail \in {NoRequest, call.req}
         /\ mail = NoRequest => Settled(call.req)
         /\ mail = call.req /\ handler = "off" => call.req \notin receipts
         /\ reply.req = call.req /\ reply.status = "conflict" => call.req \notin receipts
         /\ \A i \in Id : journal[i] # NoEntry => journal[i].req.ver <= call.req.ver
    /\ handler # "off" =>
         /\ mail # NoRequest
         /\ handler = "resolve" => reply.req = mail
         /\ ~busy => call.pc = "try"

Superseded(i) ==
    \E j \in Id \ {i} :
      /\ journal[j] # NoEntry
      /\ journal[j].req.ver = journal[i].req.ver
      /\ done[j] = 1 \/ journal[j].req.kind = "cancel"

\* An action with node writes has its intent until the Run recorded it, and while
\* it can go on no controller runs.
HalfInv ==
    \A i \in Id :
      journal[i] # NoEntry =>
        /\ wrote[i] > 0 => journal[i].req.kind = "resume"
        /\ done[i] = 0 =>
             /\ wrote[i] > 0 => intent[i] = "applying"
             /\ journal[i].state = "intent" /\ intent[i] # "none"
                  /\ version = journal[i].req.ver => ~busy
             /\ wrote[i] > 0 /\ version > journal[i].req.ver
                  /\ journal[i].resp # "bad_payload" => Superseded(i)
             /\ wrote[i] > 0 /\ journal[i].state # "intent"
                  /\ journal[i].resp # "bad_payload" => version > journal[i].req.ver

\* The inductive invariant: the journal, the Run, the mailbox and the call that has
\* mutationMu agree, so that each step knows what the steps before it did.
JournalInv == TypeOK /\ Ledger /\ CallInv /\ MailInv /\ HalfInv
=============================================================================
