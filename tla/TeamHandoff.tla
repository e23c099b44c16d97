---------------------------- MODULE TeamHandoff -----------------------------
(***************************************************************************)
(* Handoffs of a Team: an artifact frozen from retained messages, and its  *)
(* binding to one Run.  Either operation writes a durable intent first,    *)
(* then the artifact or the binding, then an event, then the answer into   *)
(* the intent; a write may fail, the engine may crash between two writes,  *)
(* and its start replays every intent without an answer before it serves   *)
(* anybody.  All of it runs under the Team service's mutex.                *)
(***************************************************************************)
EXTENDS Naturals, Sequences, FiniteSets

CONSTANTS
  Handoff, Action, Run, Content, Message,
  HomeRuns,      \* the Runs in the Team's own project
  MaxReceipts,   \* teamcontract.MaxMutationReceipts
  MaxVersion,    \* bound on the Team's state version
  MaxCrashes, MaxFailures,   \* bounds on crashes and on failing writes
  Nothing

ASSUME HandoffAssumption ==
  /\ IsFiniteSet(Handoff) /\ IsFiniteSet(Action)
  /\ HomeRuns \subseteq Run
  /\ MaxReceipts \in Nat /\ MaxVersion \in Nat /\ MaxCrashes \in Nat /\ MaxFailures \in Nat

VARIABLES
  version, messages,     \* the Team's state version and its retained messages
  creates, artifacts,    \* on disk: the intents of create, the artifacts
  binds, bindings,       \* on disk: the intents of bindRun, the bindings
  events,                \* on disk: the Team's event log
  call,                  \* the operation in progress
  phase,                 \* of the engine
  crashes, failures

vars == <<version, messages, creates, artifacts, binds, bindings, events, call, phase, crashes, failures>>
disk == <<creates, artifacts, binds, bindings, events>>

Artifacts == [content : Content, messages : SUBSET Message, version : 0..MaxVersion]
CreateIntents == [artifact : Artifacts, answered : BOOLEAN]
\* BoundAt is told apart by the action whose intent first had it.
Bindings == [run : Run, boundAt : Action]
BindIntents == [handoff : Handoff, run : Run, version : 0..MaxVersion, binding : Bindings, answered : BOOLEAN]
Events == ({"created"} \X Handoff) \cup ({"bound"} \X Handoff \X Run)

Calls == {<<>>} \cup ({"artifact", "created", "createAnswer"} \X Handoff)
              \cup ({"binding", "bound", "bindAnswer"} \X Action)

\* Nothing is none of the values kept on disk.
ASSUME NothingAssumption ==
  /\ Nothing \notin CreateIntents /\ Nothing \notin Artifacts
  /\ Nothing \notin BindIntents /\ Nothing \notin Bindings

\* The shape of the state.
TypeOK ==
  /\ version \in 0..MaxVersion /\ messages \subseteq Message
  /\ creates \in [Handoff -> CreateIntents \cup {Nothing}]
  /\ artifacts \in [Handoff -> Artifacts \cup {Nothing}]
  /\ binds \in [Action -> BindIntents \cup {Nothing}]
  /\ bindings \in [Handoff -> Bindings \cup {Nothing}]
  /\ events \in Seq(Events)
  /\ call \in Calls
  /\ phase \in {"serving", "recovering", "refused"}
  /\ crashes \in 0..MaxCrashes /\ failures \in 0..MaxFailures

Init ==
  /\ version = 0 /\ messages = {}
  /\ creates = [h \in Handoff |-> Nothing] /\ artifacts = [h \in Handoff |-> Nothing]
  /\ binds = [a \in Action |-> Nothing] /\ bindings = [h \in Handoff |-> Nothing]
  /\ events = <<>>
  /\ call = <<>> /\ phase = "serving"
  /\ crashes = 0 /\ failures = 0

-----------------------------------------------------------------------------
(***************************************************************************)
(* The Team goes on by itself: its version rises, its messages grow.       *)
(***************************************************************************)

TeamMoves ==
  /\ version < MaxVersion /\ version' = version + 1
  /\ \E m \in SUBSET Message : messages' = messages \cup m
  /\ phase = "serving"
  /\ UNCHANGED <<disk, call, phase, crashes, failures>>

Idle == call = <<>>
Serves == phase = "serving" /\ Idle

\* TeamMutationIntentCount, as far as Handoffs go.
IntentCount ==
  Cardinality({h \in Handoff : creates[h] # Nothing}) + Cardinality({a \in Action : binds[a] # Nothing})

Unanswered(intent) == intent # Nothing /\ ~intent.answered

-----------------------------------------------------------------------------
(***************************************************************************)
(* HandoffCreate.  A new request is checked against the Team's version and *)
(* its messages; a repeated one goes on where its intent was left, and one *)
(* that has its answer, or another request under the same id, changes      *)
(* nothing.                                                                *)
(***************************************************************************)

CreateIntends(h, content, selected) ==
  /\ Serves /\ creates[h] = Nothing /\ artifacts[h] = Nothing
  /\ selected # {} /\ selected \subseteq messages
  /\ IntentCount < MaxReceipts
  /\ creates' = [creates EXCEPT ![h] =
       [artifact |-> [content |-> content, messages |-> selected, version |-> version], answered |-> FALSE]]
  /\ call' = <<"artifact", h>>
  /\ UNCHANGED <<version, messages, artifacts, binds, bindings, events, phase, crashes, failures>>

CreateResumes(h) ==
  /\ Idle /\ phase \in {"serving", "recovering"}
  /\ Unanswered(creates[h])
  /\ call' = <<"artifact", h>>
  /\ UNCHANGED <<version, messages, disk, phase, crashes, failures>>

\* Mutant of WriteArtifact: the artifact is made from what the Team has now.
WriteArtifactAnew(h) ==
  /\ call = <<"artifact", h>>
  /\ artifacts' = [artifacts EXCEPT ![h] = [creates[h].artifact EXCEPT !.version = version]]
  /\ call' = <<"created", h>>
  /\ UNCHANGED <<version, messages, creates, binds, bindings, events, phase, crashes, failures>>

\* validateHandoffSourcesLocked, and the artifact, which exists as intended
\* or not at all.
WriteArtifact(h) ==
  /\ call = <<"artifact", h>>
  /\ creates[h].artifact.messages \subseteq messages
  /\ artifacts[h] \in {Nothing, creates[h].artifact}
  /\ artifacts' = [artifacts EXCEPT ![h] = creates[h].artifact]
  /\ call' = <<"created", h>>
  /\ UNCHANGED <<version, messages, creates, binds, bindings, events, phase, crashes, failures>>

\* appendHandoffEventLocked: an event already in the log is not repeated.
Logged(e) == IF \E i \in 1..Len(events) : events[i] = e THEN events ELSE Append(events, e)

LogCreated(h) ==
  /\ call = <<"created", h>>
  /\ events' = Logged(<<"created", h>>)
  /\ call' = <<"createAnswer", h>>
  /\ UNCHANGED <<version, messages, creates, artifacts, binds, bindings, phase, crashes, failures>>

AnswerCreate(h) ==
  /\ call = <<"createAnswer", h>>
  /\ creates' = [creates EXCEPT ![h].answered = TRUE]
  /\ call' = <<>>
  /\ UNCHANGED <<version, messages, artifacts, binds, bindings, events, phase, crashes, failures>>

HandoffCreate(h) ==
  \/ \E content \in Content, selected \in SUBSET Message : CreateIntends(h, content, selected)
  \/ CreateResumes(h) \/ WriteArtifact(h) \/ LogCreated(h) \/ AnswerCreate(h)

-----------------------------------------------------------------------------
(***************************************************************************)
(* HandoffBindRun, by the identity of the action.                          *)
(***************************************************************************)

\* A second action for the same Run takes the binding over as it is.
NewBinding(a, h, r) == IF bindings[h] = Nothing THEN [run |-> r, boundAt |-> a] ELSE bindings[h]

BindIntends(a, h, r) ==
  /\ Serves /\ binds[a] = Nothing /\ artifacts[h] # Nothing /\ r \in HomeRuns
  /\ bindings[h] # Nothing => bindings[h].run = r
  /\ IntentCount < MaxReceipts
  /\ binds' = [binds EXCEPT ![a] =
       [handoff |-> h, run |-> r, version |-> version, binding |-> NewBinding(a, h, r), answered |-> FALSE]]
  /\ call' = <<"binding", a>>
  /\ UNCHANGED <<version, messages, creates, artifacts, bindings, events, phase, crashes, failures>>

BindResumes(a) ==
  /\ Idle /\ phase \in {"serving", "recovering"}
  /\ phase = "recovering" => \A h \in Handoff : ~Unanswered(creates[h])
  /\ Unanswered(binds[a])
  /\ call' = <<"binding", a>>
  /\ UNCHANGED <<version, messages, disk, phase, crashes, failures>>

Conflicts(a) == bindings[binds[a].handoff] \notin {Nothing, binds[a].binding}

\* Mutant of WriteBinding: the collection takes the later binding.
OverwriteBinding(a) ==
  /\ call = <<"binding", a>>
  /\ bindings' = [bindings EXCEPT ![binds[a].handoff] = binds[a].binding]
  /\ call' = <<"bound", a>>
  /\ UNCHANGED <<version, messages, creates, artifacts, binds, events, phase, crashes, failures>>

\* WriteTeamBinding: one binding per Handoff, the same or none before.
WriteBinding(a) ==
  /\ call = <<"binding", a>> /\ ~Conflicts(a)
  /\ bindings' = [bindings EXCEPT ![binds[a].handoff] = binds[a].binding]
  /\ call' = <<"bound", a>>
  /\ UNCHANGED <<version, messages, creates, artifacts, binds, events, phase, crashes, failures>>

\* Mutant of BindingConflicts: the conflict is stored as an answer.
BindingAnsweredAnyway(a) ==
  /\ call = <<"binding", a>> /\ Conflicts(a)
  /\ call' = <<>>
  /\ binds' = [binds EXCEPT ![a].answered = TRUE]
  /\ UNCHANGED <<version, messages, creates, artifacts, bindings, events, phase, crashes, failures>>

\* Another binding came first: a conflict for the caller, and the end of the
\* start for an engine that replays the intent.
BindingConflicts(a) ==
  /\ call = <<"binding", a>> /\ Conflicts(a)
  /\ call' = <<>>
  /\ phase' = IF phase = "recovering" THEN "refused" ELSE phase
  /\ UNCHANGED <<version, messages, disk, crashes, failures>>

LogBound(a) ==
  /\ call = <<"bound", a>>
  /\ events' = Logged(<<"bound", binds[a].handoff, binds[a].run>>)
  /\ call' = <<"bindAnswer", a>>
  /\ UNCHANGED <<version, messages, creates, artifacts, binds, bindings, phase, crashes, failures>>

AnswerBind(a) ==
  /\ call = <<"bindAnswer", a>>
  /\ binds' = [binds EXCEPT ![a].answered = TRUE]
  /\ call' = <<>>
  /\ UNCHANGED <<version, messages, creates, artifacts, bindings, events, phase, crashes, failures>>

HandoffBindRun(a) ==
  \/ \E h \in Handoff, r \in Run : BindIntends(a, h, r)
  \/ BindResumes(a) \/ WriteBinding(a) \/ BindingConflicts(a) \/ LogBound(a) \/ AnswerBind(a)

-----------------------------------------------------------------------------
\* A write fails: the operation ends there, and so does a start.
WriteFails ==
  /\ ~Idle /\ failures < MaxFailures
  /\ failures' = failures + 1
  /\ call' = <<>>
  /\ phase' = IF phase = "recovering" THEN "refused" ELSE phase
  /\ UNCHANGED <<version, messages, disk, crashes>>

\* The process ends, by a crash or because its start was refused; the next
\* one recovers first.
Restart ==
  /\ \/ phase # "refused" /\ crashes < MaxCrashes /\ crashes' = crashes + 1
     \/ phase = "refused" /\ UNCHANGED crashes
  /\ call' = <<>> /\ phase' = "recovering"
  /\ UNCHANGED <<version, messages, disk, failures>>

\* Mutant of Recovered: the intents of bindings are not replayed.
RecoveredCreates ==
  /\ phase = "recovering" /\ Idle
  /\ \A h \in Handoff : ~Unanswered(creates[h])
  /\ phase' = "serving"
  /\ UNCHANGED <<version, messages, disk, call, crashes, failures>>

\* Recover has gone through every intent.
Recovered ==
  /\ phase = "recovering" /\ Idle
  /\ \A h \in Handoff : ~Unanswered(creates[h])
  /\ \A a \in Action : ~Unanswered(binds[a])
  /\ phase' = "serving"
  /\ UNCHANGED <<version, messages, disk, call, crashes, failures>>

Next ==
  \/ TeamMoves
  \/ \E h \in Handoff : HandoffCreate(h)
  \/ \E a \in Action : HandoffBindRun(a)
  \/ WriteFails \/ Restart \/ Recovered

\* A start goes through its intents without waiting for anybody, and an
\* engine that ended in its start is started again.
Starting ==
  \/ /\ phase = "recovering"
     /\ (\E h \in Handoff : HandoffCreate(h)) \/ (\E a \in Action : HandoffBindRun(a)) \/ Recovered
  \/ phase = "refused" /\ Restart

Spec == Init /\ [][Next]_vars
FairSpec == Spec /\ WF_vars(Starting)

-----------------------------------------------------------------------------
(***************************************************************************)
(* Properties                                                              *)
(***************************************************************************)

\* The binding a caller was told of is the one on disk, for every action and
\* after any number of failed writes, crashes and replays: a Handoff is bound
\* to one Run.
AnsweredBindingHolds ==
  \A a \in Action : binds[a] # Nothing /\ binds[a].answered => bindings[binds[a].handoff] = binds[a].binding

\* The artifact a caller was told of is on disk as it was intended, every
\* binding has its artifact, and an artifact quotes retained messages of a
\* version the Team had.
ArtifactsHold ==
  /\ \A h \in Handoff : creates[h] # Nothing /\ creates[h].answered => artifacts[h] = creates[h].artifact
  /\ \A h \in Handoff : bindings[h] # Nothing => artifacts[h] # Nothing
  /\ \A h \in Handoff : artifacts[h] # Nothing =>
       artifacts[h].messages \subseteq messages /\ creates[h] # Nothing /\ artifacts[h] = creates[h].artifact

\* Without failing writes an engine that serves and does nothing has no
\* intent left behind by an earlier process, and no start is refused.
CrashesRecover ==
  failures = 0 =>
    /\ phase # "refused"
    /\ phase = "serving" /\ Idle =>
         (\A h \in Handoff : ~Unanswered(creates[h])) /\ (\A a \in Action : ~Unanswered(binds[a]))

\* An engine that was started comes to serve, whatever was left behind.
StartupResumes == phase = "recovering" ~> phase = "serving"

\* What callers were told, for the abstract specification.
told(intent, value) == IF intent # Nothing /\ intent.answered THEN value ELSE Nothing

Registry == INSTANCE HandoffRegistry WITH
  artifact <- artifacts, binding <- bindings,
  frozen <- [h \in Handoff |-> told(creates[h], creates[h].artifact)],
  bound <- [a \in Action |-> told(binds[a], binds[a].binding)]

\* The detailed Handoffs implement the registry.
ImplementsRegistry == Registry!Spec
=============================================================================
