------------------------- MODULE TeamHandoff_proofs -------------------------
(***************************************************************************)
(* The Handoffs of a Team for any number of Handoffs, actions, Runs,       *)
(* messages, crashes and failing writes.                                   *)
(***************************************************************************)
EXTENDS TeamHandoff, TLAPS

\* An artifact on disk is the one its intent has, and its sources stay.
SourcesInv ==
  \A h \in Handoff :
    /\ creates[h] # Nothing => creates[h].artifact.messages \subseteq messages
    /\ artifacts[h] # Nothing => creates[h] # Nothing /\ artifacts[h] = creates[h].artifact
    /\ creates[h] # Nothing /\ creates[h].answered => artifacts[h] = creates[h].artifact
    /\ bindings[h] # Nothing => artifacts[h] # Nothing

\* An intent to bind is about an artifact that exists; an answered one holds.
BindsInv ==
  \A a \in Action : binds[a] # Nothing =>
    /\ artifacts[binds[a].handoff] # Nothing
    /\ binds[a].answered => bindings[binds[a].handoff] = binds[a].binding

\* What the operation in progress has written so far.
CallInv ==
  /\ \A h \in Handoff :
       /\ call = <<"artifact", h>> => creates[h] # Nothing
       /\ call = <<"created", h>> => creates[h] # Nothing /\ artifacts[h] = creates[h].artifact
       /\ call = <<"createAnswer", h>> => creates[h] # Nothing /\ artifacts[h] = creates[h].artifact
  /\ \A a \in Action :
       /\ call = <<"binding", a>> => binds[a] # Nothing
       /\ call = <<"bound", a>> => binds[a] # Nothing /\ bindings[binds[a].handoff] = binds[a].binding
       /\ call = <<"bindAnswer", a>> => binds[a] # Nothing /\ bindings[binds[a].handoff] = binds[a].binding

HInv == TypeOK /\ SourcesInv /\ BindsInv /\ CallInv

-----------------------------------------------------------------------------
\* Every initial state satisfies the invariant.
LEMMA InitHInv == Init => HInv
  BY HandoffAssumption DEF Init, HInv, TypeOK, SourcesInv, BindsInv, CallInv, Calls

\* The writes of HandoffCreate preserve it.
LEMMA CreateHInv ==
  ASSUME HInv, NEW h \in Handoff, HandoffCreate(h)
  PROVE  HInv'
<1> USE HandoffAssumption, NothingAssumption
<1>1. ASSUME NEW content \in Content, NEW selected \in SUBSET Message, CreateIntends(h, content, selected)
      PROVE  HInv'
  <2> DEFINE new == [artifact |-> [content |-> content, messages |-> selected, version |-> version], answered |-> FALSE]
  <2>0. new.artifact \in Artifacts
    BY <1>1 DEF CreateIntends, HInv, TypeOK, Artifacts
  <2>1. new \in CreateIntents /\ new # Nothing
    <3>1. new \in CreateIntents
      BY <2>0 DEF CreateIntents
    <3> QED BY <3>1
  <2>2. TypeOK'
    BY <1>1, <2>1 DEF CreateIntends, HInv, TypeOK, Calls
  <2>3. SourcesInv'
    BY <1>1, <2>1 DEF CreateIntends, HInv, TypeOK, SourcesInv
  <2>4. BindsInv'
    BY <1>1 DEF CreateIntends, HInv, BindsInv
  <2>5. CallInv'
    BY <1>1, <2>1 DEF CreateIntends, HInv, TypeOK, CallInv
  <2> QED BY <2>2, <2>3, <2>4, <2>5 DEF HInv
<1>2. ASSUME CreateResumes(h) PROVE HInv'
  BY <1>2 DEF CreateResumes, Unanswered, disk, HInv, TypeOK, Calls, SourcesInv, BindsInv, CallInv
<1>3. ASSUME WriteArtifact(h) PROVE HInv'
  <2>1. creates[h] \in CreateIntents /\ creates[h].artifact \in Artifacts
    BY <1>3 DEF WriteArtifact, HInv, TypeOK, CallInv, CreateIntents
  <2>2. TypeOK'
    BY <1>3, <2>1 DEF WriteArtifact, HInv, TypeOK, Calls
  <2>3. SourcesInv'
    BY <1>3, <2>1 DEF WriteArtifact, HInv, TypeOK, SourcesInv
  <2>4. BindsInv'
    BY <1>3, <2>1 DEF WriteArtifact, HInv, TypeOK, BindsInv
  <2>5. CallInv'
    BY <1>3, <2>1 DEF WriteArtifact, HInv, TypeOK, CallInv
  <2> QED BY <2>2, <2>3, <2>4, <2>5 DEF HInv
<1>4. ASSUME LogCreated(h) PROVE HInv'
  <2>1. <<"created", h>> \in Events
    BY DEF Events
  <2>2. events' \in Seq(Events)
    BY <1>4, <2>1 DEF LogCreated, Logged, HInv, TypeOK
  <2>3. TypeOK'
    BY <1>4, <2>2 DEF LogCreated, HInv, TypeOK, Calls
  <2>4. SourcesInv' /\ BindsInv' /\ CallInv'
    BY <1>4 DEF LogCreated, HInv, SourcesInv, BindsInv, CallInv
  <2> QED BY <2>3, <2>4 DEF HInv
<1>5. ASSUME AnswerCreate(h) PROVE HInv'
  <2>1. creates[h] \in CreateIntents /\ artifacts[h] = creates[h].artifact
    BY <1>5 DEF AnswerCreate, HInv, TypeOK, CallInv
  <2>2. [creates[h] EXCEPT !.answered = TRUE] \in CreateIntents
    BY <2>1 DEF CreateIntents
  <2>3. TypeOK'
    BY <1>5, <2>2 DEF AnswerCreate, HInv, TypeOK, Calls
  <2>4. SourcesInv'
    BY <1>5, <2>1, <2>2 DEF AnswerCreate, HInv, TypeOK, SourcesInv, CreateIntents
  <2>5. BindsInv' /\ CallInv'
    BY <1>5 DEF AnswerCreate, HInv, BindsInv, CallInv
  <2> QED BY <2>3, <2>4, <2>5 DEF HInv
<1> QED BY <1>1, <1>2, <1>3, <1>4, <1>5 DEF HandoffCreate

\* So do the writes of HandoffBindRun.
LEMMA BindHInv ==
  ASSUME HInv, NEW a \in Action, HandoffBindRun(a)
  PROVE  HInv'
<1> USE HandoffAssumption, NothingAssumption
<1>1. ASSUME NEW h \in Handoff, NEW r \in Run, BindIntends(a, h, r)
      PROVE  HInv'
  <2> DEFINE new == [handoff |-> h, run |-> r, version |-> version, binding |-> NewBinding(a, h, r), answered |-> FALSE]
  <2>1. NewBinding(a, h, r) \in Bindings
    BY <1>1 DEF BindIntends, NewBinding, HInv, TypeOK, Bindings
  <2>2. new \in BindIntents
    BY <2>1 DEF HInv, TypeOK, BindIntents
  <2>3. new # Nothing
    BY <2>2
  <2>4. TypeOK'
    BY <1>1, <2>2 DEF BindIntends, HInv, TypeOK, Calls
  <2>5. SourcesInv'
    BY <1>1 DEF BindIntends, HInv, SourcesInv
  <2>6. BindsInv'
    BY <1>1, <2>3 DEF BindIntends, HInv, TypeOK, BindsInv
  <2>7. CallInv'
    BY <1>1, <2>3 DEF BindIntends, HInv, TypeOK, CallInv
  <2> QED BY <2>4, <2>5, <2>6, <2>7 DEF HInv
<1>2. ASSUME BindResumes(a) PROVE HInv'
  BY <1>2 DEF BindResumes, Unanswered, disk, HInv, TypeOK, Calls, SourcesInv, BindsInv, CallInv
<1>3. ASSUME WriteBinding(a) PROVE HInv'
  <2>1. binds[a] \in BindIntents /\ binds[a] # Nothing
    BY <1>3 DEF WriteBinding, HInv, TypeOK, CallInv
  <2>2. binds[a].handoff \in Handoff /\ binds[a].binding \in Bindings
    BY <2>1 DEF BindIntents
  <2>3. TypeOK'
    BY <1>3, <2>2 DEF WriteBinding, HInv, TypeOK, Calls
  <2>4. SourcesInv'
    BY <1>3, <2>1, <2>2 DEF WriteBinding, HInv, TypeOK, SourcesInv, BindsInv
  <2>5. BindsInv'
    <3> SUFFICES ASSUME NEW b \in Action, binds[b] # Nothing
                 PROVE  /\ artifacts[binds[b].handoff] # Nothing
                        /\ binds[b].answered => bindings'[binds[b].handoff] = binds[b].binding
      BY <1>3 DEF WriteBinding, BindsInv
    <3>1. binds[b].handoff \in Handoff /\ binds[b].binding # Nothing
      BY DEF HInv, TypeOK, BindIntents
    <3>2. CASE binds[b].handoff = binds[a].handoff
      BY <1>3, <2>2, <3>1, <3>2 DEF WriteBinding, Conflicts, HInv, TypeOK, BindsInv
    <3>3. CASE binds[b].handoff # binds[a].handoff
      BY <1>3, <3>1, <3>3 DEF WriteBinding, HInv, TypeOK, BindsInv
    <3> QED BY <3>2, <3>3
  <2>6. CallInv'
    BY <1>3, <2>1, <2>2 DEF WriteBinding, HInv, TypeOK, CallInv
  <2> QED BY <2>3, <2>4, <2>5, <2>6 DEF HInv
<1>4. ASSUME BindingConflicts(a) PROVE HInv'
  BY <1>4 DEF BindingConflicts, disk, HInv, TypeOK, Calls, SourcesInv, BindsInv, CallInv
<1>5. ASSUME LogBound(a) PROVE HInv'
  <2>1. binds[a] \in BindIntents
    BY <1>5 DEF LogBound, HInv, TypeOK, CallInv
  <2>2. <<"bound", binds[a].handoff, binds[a].run>> \in Events
    BY <2>1 DEF Events, BindIntents
  <2>3. events' \in Seq(Events)
    BY <1>5, <2>2 DEF LogBound, Logged, HInv, TypeOK
  <2>4. TypeOK'
    BY <1>5, <2>3 DEF LogBound, HInv, TypeOK, Calls
  <2>5. SourcesInv' /\ BindsInv' /\ CallInv'
    BY <1>5 DEF LogBound, HInv, SourcesInv, BindsInv, CallInv
  <2> QED BY <2>4, <2>5 DEF HInv
<1>6. ASSUME AnswerBind(a) PROVE HInv'
  <2>1. binds[a] \in BindIntents /\ binds[a] # Nothing /\ bindings[binds[a].handoff] = binds[a].binding
    BY <1>6 DEF AnswerBind, HInv, TypeOK, CallInv
  <2> DEFINE new == [binds[a] EXCEPT !.answered = TRUE]
  <2>2. /\ new \in BindIntents
        /\ new.handoff = binds[a].handoff /\ new.binding = binds[a].binding
    BY <2>1 DEF BindIntents
  <2>3. TypeOK'
    BY <1>6, <2>2 DEF AnswerBind, HInv, TypeOK, Calls
  <2>4. SourcesInv' /\ CallInv'
    BY <1>6 DEF AnswerBind, HInv, SourcesInv, CallInv
  <2>5. BindsInv'
    <3> SUFFICES ASSUME NEW b \in Action, binds'[b] # Nothing
                 PROVE  /\ artifacts[binds'[b].handoff] # Nothing
                        /\ binds'[b].answered => bindings[binds'[b].handoff] = binds'[b].binding
      BY <1>6 DEF AnswerBind, BindsInv
    <3>1. CASE b = a
      <4>1. binds'[b] = new
        BY <1>6, <3>1 DEF AnswerBind, HInv, TypeOK
      <4> QED BY <4>1, <2>1, <2>2 DEF HInv, BindsInv
    <3>2. CASE b # a
      BY <1>6, <3>2 DEF AnswerBind, HInv, TypeOK, BindsInv
    <3> QED BY <3>1, <3>2
  <2> QED BY <2>3, <2>4, <2>5 DEF HInv
<1> QED BY <1>1, <1>2, <1>3, <1>4, <1>5, <1>6 DEF HandoffBindRun

\* And everything else that happens.
LEMMA NextHInv == HInv /\ [Next]_vars => HInv'
<1> SUFFICES ASSUME HInv, [Next]_vars PROVE HInv'
  OBVIOUS
<1> USE HandoffAssumption
<1>1. CASE TeamMoves
  BY <1>1 DEF TeamMoves, disk, HInv, TypeOK, SourcesInv, BindsInv, CallInv
<1>2. CASE WriteFails
  BY <1>2 DEF WriteFails, disk, HInv, TypeOK, Calls, SourcesInv, BindsInv, CallInv
<1>3. CASE Restart
  BY <1>3 DEF Restart, disk, HInv, TypeOK, Calls, SourcesInv, BindsInv, CallInv
<1>4. CASE Recovered
  BY <1>4 DEF Recovered, disk, HInv, TypeOK, SourcesInv, BindsInv, CallInv
<1>5. CASE UNCHANGED vars
  BY <1>5 DEF vars, HInv, TypeOK, SourcesInv, BindsInv, CallInv
<1> QED BY <1>1, <1>2, <1>3, <1>4, <1>5, CreateHInv, BindHInv DEF Next

\* The invariant holds throughout.
THEOREM HandoffInvariant == Spec => []HInv
<1>1. QED BY InitHInv, NextHInv, PTL DEF Spec

\* Handoffs keep the shape of their state, for any sizes and bounds.
THEOREM HandoffTypeCorrect == Spec => []TypeOK
<1>1. HInv => TypeOK
  BY DEF HInv
<1> QED BY <1>1, HandoffInvariant, PTL

\* A binding that was answered stays the Handoff's only binding.
THEOREM BindingCorrect == Spec => []AnsweredBindingHolds
<1>1. HInv => AnsweredBindingHolds
  BY DEF HInv, BindsInv, AnsweredBindingHolds
<1> QED BY <1>1, HandoffInvariant, PTL

\* An artifact is what its intent says, it is there before any binding, and
\* its sources are retained.
THEOREM ArtifactsCorrect == Spec => []ArtifactsHold
<1>1. HInv => ArtifactsHold
  BY DEF HInv, SourcesInv, ArtifactsHold
<1> QED BY <1>1, HandoffInvariant, PTL

-----------------------------------------------------------------------------
(***************************************************************************)
(* Crashes without failing writes.  What an engine leaves behind is the    *)
(* one intent it was working on, and nothing gets in before its replay.    *)
(***************************************************************************)

CreateCall(h) == call \in {<<"artifact", h>>, <<"created", h>>, <<"createAnswer", h>>}
BindCall(a) == call \in {<<"binding", a>>, <<"bound", a>>, <<"bindAnswer", a>>}

\* An unanswered intent to bind is the only one, and the Handoff has no other
\* binding; an engine that serves is at work on every unanswered intent.
ReplayInv ==
  /\ phase # "refused"
  /\ \A a \in Action : BindCall(a) => Unanswered(binds[a])
  /\ \A a, b \in Action : Unanswered(binds[a]) /\ Unanswered(binds[b]) => a = b
  /\ \A a \in Action : Unanswered(binds[a]) => ~Conflicts(a)
  /\ phase = "serving" =>
       /\ \A h \in Handoff : Unanswered(creates[h]) => CreateCall(h)
       /\ \A a \in Action : Unanswered(binds[a]) => BindCall(a)

\* It holds until a write fails.
CrashInv == failures = 0 => ReplayInv

\* The writes of HandoffCreate preserve it.
LEMMA CreateReplay ==
  ASSUME HInv, ReplayInv, NEW h \in Handoff, HandoffCreate(h)
  PROVE  ReplayInv'
<1> USE DEF Unanswered, Conflicts, CreateCall, BindCall
<1>1. ASSUME NEW content \in Content, NEW selected \in SUBSET Message, CreateIntends(h, content, selected)
      PROVE  ReplayInv'
  BY <1>1 DEF CreateIntends, Serves, Idle, ReplayInv, HInv, TypeOK
<1>2. CASE CreateResumes(h)
  BY <1>2 DEF CreateResumes, Idle, disk, ReplayInv
<1>3. CASE WriteArtifact(h)
  BY <1>3 DEF WriteArtifact, ReplayInv
<1>4. CASE LogCreated(h)
  BY <1>4 DEF LogCreated, ReplayInv
<1>5. CASE AnswerCreate(h)
  <2>1. creates[h] \in CreateIntents
    BY <1>5 DEF AnswerCreate, HInv, TypeOK, CallInv
  <2>2. creates'[h].answered
    BY <1>5, <2>1 DEF AnswerCreate, HInv, TypeOK, CreateIntents
  <2>3. \A g \in Handoff : g # h => creates'[g] = creates[g]
    BY <1>5 DEF AnswerCreate, HInv, TypeOK
  <2> QED BY <1>5, <2>2, <2>3 DEF AnswerCreate, ReplayInv
<1> QED BY <1>1, <1>2, <1>3, <1>4, <1>5 DEF HandoffCreate

\* So do those of HandoffBindRun: the binding that is written is the one of
\* the only unanswered intent.
LEMMA BindReplay ==
  ASSUME HInv, ReplayInv, NEW a \in Action, HandoffBindRun(a)
  PROVE  ReplayInv'
<1> USE DEF Unanswered, CreateCall, BindCall
<1>1. ASSUME NEW h \in Handoff, NEW r \in Run, BindIntends(a, h, r)
      PROVE  ReplayInv'
  <2>1. \A b \in Action : ~Unanswered(binds[b])
    BY <1>1 DEF BindIntends, Serves, Idle, ReplayInv
  <2>2. \A b \in Action : b # a => binds'[b] = binds[b]
    BY <1>1 DEF BindIntends, HInv, TypeOK
  <2>3. binds'[a].handoff = h /\ binds'[a].binding = NewBinding(a, h, r)
    BY <1>1 DEF BindIntends, HInv, TypeOK
  <2>4. bindings'[h] \in {Nothing, NewBinding(a, h, r)}
    BY <1>1 DEF BindIntends, NewBinding
  <2>5. binds'[a] # Nothing /\ ~binds'[a].answered
    BY <1>1, BindHInv, HandoffAssumption, NothingAssumption
    DEF BindIntends, HandoffBindRun, HInv, TypeOK, CallInv
  <2> QED BY <1>1, <2>1, <2>2, <2>3, <2>4, <2>5
          DEF BindIntends, Serves, Idle, ReplayInv, Conflicts
<1>2. CASE BindResumes(a)
  BY <1>2 DEF BindResumes, Idle, disk, ReplayInv, Conflicts
<1>3. CASE WriteBinding(a)
  <2>1. binds[a] \in BindIntents /\ binds[a].handoff \in Handoff
    BY <1>3 DEF WriteBinding, HInv, TypeOK, CallInv, BindIntents
  <2>2. Unanswered(binds[a])
    BY <1>3 DEF WriteBinding, ReplayInv
  <2>3. bindings'[binds[a].handoff] = binds[a].binding
    BY <1>3, <2>1 DEF WriteBinding, HInv, TypeOK
  <2> QED BY <1>3, <2>2, <2>3 DEF WriteBinding, ReplayInv, Conflicts
<1>4. CASE BindingConflicts(a)
  BY <1>4 DEF BindingConflicts, ReplayInv
<1>5. CASE LogBound(a)
  BY <1>5 DEF LogBound, ReplayInv, Conflicts
<1>6. CASE AnswerBind(a)
  <2>1. binds[a] \in BindIntents
    BY <1>6 DEF AnswerBind, HInv, TypeOK, CallInv
  <2>2. binds'[a].answered
    BY <1>6, <2>1 DEF AnswerBind, HInv, TypeOK, BindIntents
  <2>3. \A b \in Action : b # a => binds'[b] = binds[b]
    BY <1>6 DEF AnswerBind, HInv, TypeOK
  <2> QED BY <1>6, <2>2, <2>3 DEF AnswerBind, ReplayInv, Conflicts
<1> QED BY <1>1, <1>2, <1>3, <1>4, <1>5, <1>6 DEF HandoffBindRun

\* And every step that is not a failing write.
LEMMA NextCrash == HInv /\ CrashInv /\ [Next]_vars => CrashInv'
<1> SUFFICES ASSUME HInv, CrashInv, [Next]_vars, failures' = 0
             PROVE  ReplayInv'
  BY DEF CrashInv
<1>0. failures \in Nat
  BY HandoffAssumption DEF HInv, TypeOK
<1>1. CASE WriteFails
  BY <1>0, <1>1 DEF WriteFails
<1>2. CASE ~WriteFails
  <2>1. failures = 0
    BY <1>2 DEF Next, vars, TeamMoves, HandoffCreate, HandoffBindRun, Restart, Recovered, CreateIntends,
      CreateResumes, WriteArtifact, LogCreated, AnswerCreate, BindIntends, BindResumes, WriteBinding,
      BindingConflicts, LogBound, AnswerBind
  <2>2. ReplayInv
    BY <2>1 DEF CrashInv
  <2>3. CASE TeamMoves
    BY <2>2, <2>3 DEF TeamMoves, disk, ReplayInv, CreateCall, BindCall, Conflicts
  <2>4. CASE Restart
    BY <2>2, <2>4 DEF Restart, disk, ReplayInv, CreateCall, BindCall, Conflicts
  <2>5. CASE Recovered
    BY <2>2, <2>5 DEF Recovered, disk, ReplayInv, CreateCall, BindCall, Conflicts
  <2>6. CASE UNCHANGED vars
    BY <2>2, <2>6 DEF vars, ReplayInv, CreateCall, BindCall, Conflicts
  <2> QED BY <1>2, <2>2, <2>3, <2>4, <2>5, <2>6, CreateReplay, BindReplay DEF Next
<1> QED BY <1>1, <1>2

\* After crashes alone every start replays what was left behind and succeeds,
\* and an engine that serves and does nothing has no intent left.
THEOREM CrashesAreRecovered == Spec => []CrashesRecover
<1>1. Init => CrashInv
  BY DEF Init, CrashInv, ReplayInv, Unanswered, CreateCall, BindCall
<1>2. CrashInv => CrashesRecover
  BY DEF CrashInv, ReplayInv, CrashesRecover, Idle, CreateCall, BindCall
<1> QED BY <1>1, <1>2, NextCrash, HandoffInvariant, PTL DEF Spec

-----------------------------------------------------------------------------
(***************************************************************************)
(* The refinement: the writes of an artifact, of a binding and of an       *)
(* answer are steps of the registry, everything else is invisible there.   *)
(***************************************************************************)

frozenBar == [h \in Handoff |-> told(creates[h], creates[h].artifact)]
boundBar == [a \in Action |-> told(binds[a], binds[a].binding)]
barVars == <<artifacts, bindings, frozenBar, boundBar>>

\* Each step of HandoffCreate is a step of the registry or none.
LEMMA CreateRefines ==
  ASSUME HInv, NEW h \in Handoff, HandoffCreate(h)
  PROVE  Registry!Next \/ UNCHANGED barVars
<1> USE HandoffAssumption, NothingAssumption
<1>1. ASSUME NEW content \in Content, NEW selected \in SUBSET Message, CreateIntends(h, content, selected)
      PROVE  UNCHANGED barVars
  <2>1. ASSUME NEW g \in Handoff PROVE told(creates'[g], creates'[g].artifact) = told(creates[g], creates[g].artifact)
    BY <1>1 DEF CreateIntends, told, HInv, TypeOK
  <2>2. frozenBar' = frozenBar
    BY <2>1 DEF frozenBar
  <2> QED BY <1>1, <2>2 DEF CreateIntends, barVars, boundBar
<1>2. ASSUME CreateResumes(h) \/ LogCreated(h)
      PROVE  UNCHANGED barVars
  BY <1>2 DEF CreateResumes, LogCreated, disk, barVars, frozenBar, boundBar
<1>3. ASSUME WriteArtifact(h)
      PROVE  Registry!Next \/ UNCHANGED barVars
  <2>1. creates[h].artifact \in Artifacts
    BY <1>3 DEF WriteArtifact, HInv, TypeOK, CallInv, CreateIntents
  <2>2. frozenBar' = frozenBar /\ boundBar' = boundBar
    BY <1>3 DEF WriteArtifact, frozenBar, boundBar
  <2>3. CASE artifacts[h] = Nothing
    <3>1. Registry!Freeze(h)
      BY <1>3, <2>1, <2>2, <2>3 DEF WriteArtifact, Registry!Freeze, frozenBar, boundBar
    <3> QED BY <3>1 DEF Registry!Next
  <2>4. CASE artifacts[h] # Nothing
    BY <1>3, <2>2, <2>4 DEF WriteArtifact, barVars, HInv, TypeOK
  <2> QED BY <2>3, <2>4
<1>4. ASSUME AnswerCreate(h)
      PROVE  Registry!Next \/ UNCHANGED barVars
  <2>1. creates[h] \in CreateIntents /\ creates[h] # Nothing /\ artifacts[h] = creates[h].artifact
    BY <1>4 DEF AnswerCreate, HInv, TypeOK, CallInv
  <2> DEFINE new == [creates[h] EXCEPT !.answered = TRUE]
  <2>2. new \in CreateIntents /\ new.artifact = creates[h].artifact /\ new.answered
    BY <2>1 DEF CreateIntents
  <2>3. creates' = [creates EXCEPT ![h] = new] /\ artifacts[h] # Nothing
    BY <1>4, <2>1 DEF AnswerCreate, CreateIntents
  <2>4. boundBar' = boundBar /\ artifacts' = artifacts /\ bindings' = bindings
    BY <1>4 DEF AnswerCreate, boundBar
  <2>5. frozenBar' = [frozenBar EXCEPT ![h] = artifacts[h]]
    BY <2>1, <2>2, <2>3 DEF frozenBar, told, HInv, TypeOK
  <2>6. CASE creates[h].answered
    <3>1. frozenBar[h] = artifacts[h]
      BY <2>1, <2>6 DEF frozenBar, told
    <3> QED BY <2>4, <2>5, <3>1 DEF barVars, frozenBar
  <2>7. CASE ~creates[h].answered
    <3>1. frozenBar[h] = Nothing
      BY <2>7 DEF frozenBar, told
    <3>2. Registry!TellFrozen(h)
      BY <2>3, <2>4, <2>5, <3>1 DEF Registry!TellFrozen, frozenBar, boundBar
    <3> QED BY <3>2 DEF Registry!Next
  <2> QED BY <2>6, <2>7
<1> QED BY <1>1, <1>2, <1>3, <1>4 DEF HandoffCreate

\* Each step of HandoffBindRun is a step of the registry or none.
LEMMA BindRefines ==
  ASSUME HInv, NEW a \in Action, HandoffBindRun(a)
  PROVE  Registry!Next \/ UNCHANGED barVars
<1> USE HandoffAssumption, NothingAssumption
<1>1. ASSUME NEW h \in Handoff, NEW r \in Run, BindIntends(a, h, r)
      PROVE  UNCHANGED barVars
  <2>1. ASSUME NEW b \in Action PROVE told(binds'[b], binds'[b].binding) = told(binds[b], binds[b].binding)
    BY <1>1 DEF BindIntends, told, HInv, TypeOK
  <2>2. boundBar' = boundBar
    BY <2>1 DEF boundBar
  <2> QED BY <1>1, <2>2 DEF BindIntends, barVars, frozenBar
<1>2. ASSUME BindResumes(a) \/ BindingConflicts(a) \/ LogBound(a)
      PROVE  UNCHANGED barVars
  BY <1>2 DEF BindResumes, BindingConflicts, LogBound, disk, barVars, frozenBar, boundBar
<1>3. ASSUME WriteBinding(a)
      PROVE  Registry!Next \/ UNCHANGED barVars
  <2>1. binds[a] \in BindIntents /\ artifacts[binds[a].handoff] # Nothing
    BY <1>3 DEF WriteBinding, HInv, TypeOK, CallInv, BindsInv
  <2>2. binds[a].handoff \in Handoff /\ binds[a].binding \in Bindings
    BY <2>1 DEF BindIntents
  <2>3. frozenBar' = frozenBar /\ boundBar' = boundBar
    BY <1>3 DEF WriteBinding, frozenBar, boundBar
  <2>4. CASE bindings[binds[a].handoff] = Nothing
    <3>1. Registry!Bind(binds[a].handoff)
      BY <1>3, <2>1, <2>2, <2>3, <2>4 DEF WriteBinding, Registry!Bind, frozenBar, boundBar
    <3> QED BY <2>2, <3>1 DEF Registry!Next
  <2>5. CASE bindings[binds[a].handoff] # Nothing
    BY <1>3, <2>3, <2>5 DEF WriteBinding, Conflicts, barVars, HInv, TypeOK
  <2> QED BY <2>4, <2>5
<1>4. ASSUME AnswerBind(a)
      PROVE  Registry!Next \/ UNCHANGED barVars
  <2> DEFINE h == binds[a].handoff
             new == [binds[a] EXCEPT !.answered = TRUE]
  <2>1. binds[a] \in BindIntents /\ binds[a] # Nothing /\ bindings[h] = binds[a].binding
    BY <1>4 DEF AnswerBind, HInv, TypeOK, CallInv
  <2>2. new \in BindIntents /\ new.binding = binds[a].binding /\ new.answered
    BY <2>1 DEF BindIntents
  <2>3. binds' = [binds EXCEPT ![a] = new] /\ h \in Handoff /\ bindings[h] # Nothing
    BY <1>4, <2>1 DEF AnswerBind, BindIntents
  <2>4. frozenBar' = frozenBar /\ artifacts' = artifacts /\ bindings' = bindings
    BY <1>4 DEF AnswerBind, frozenBar
  <2>5. boundBar' = [boundBar EXCEPT ![a] = bindings[h]]
    BY <2>1, <2>2, <2>3 DEF boundBar, told, HInv, TypeOK
  <2>6. CASE binds[a].answered
    <3>1. boundBar[a] = bindings[h]
      BY <2>1, <2>6 DEF boundBar, told
    <3> QED BY <2>4, <2>5, <3>1 DEF barVars, boundBar
  <2>7. CASE ~binds[a].answered
    <3>1. boundBar[a] = Nothing
      BY <2>7 DEF boundBar, told
    <3>2. Registry!TellBound(a, h)
      BY <2>3, <2>4, <2>5, <3>1 DEF Registry!TellBound, frozenBar, boundBar
    <3> QED BY <2>3, <3>2 DEF Registry!Next
  <2> QED BY <2>6, <2>7
<1> QED BY <1>1, <1>2, <1>3, <1>4 DEF HandoffBindRun

\* The intents, the replays, the crashes and the failing writes together do
\* what the registry does in single steps.
THEOREM HandoffRefinement == Spec => ImplementsRegistry
<1>1. Init => Registry!Init
  BY DEF Init, Registry!Init, told
<1>2. HInv /\ [Next]_vars => [Registry!Next]_barVars
  <2> SUFFICES ASSUME HInv, [Next]_vars PROVE Registry!Next \/ UNCHANGED barVars
    BY DEF barVars
  <2>1. CASE TeamMoves \/ WriteFails \/ Restart \/ Recovered \/ UNCHANGED vars
    BY <2>1 DEF TeamMoves, WriteFails, Restart, Recovered, vars, disk, barVars, frozenBar, boundBar
  <2> QED BY <2>1, CreateRefines, BindRefines DEF Next
<1> QED BY <1>1, <1>2, HandoffInvariant, PTL DEF Spec, ImplementsRegistry, Registry!Spec, barVars, frozenBar, boundBar
=============================================================================
