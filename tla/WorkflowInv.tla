---------------------------- MODULE WorkflowInv ----------------------------
(***************************************************************************)
(* The inductive invariants of a Run.                                      *)
(*                                                                         *)
(* RunInv says what the threads may rely on while others write: the writes *)
(* that the holder of the mutex has still to do are described one by one,  *)
(* each with what makes it right to do it later, and so are the launches,  *)
(* the observations and the targets of a cancellation, which outlive the   *)
(* mutex.  SlotsOK, EndInv and RestInv are inductive together with it.     *)
(***************************************************************************)
EXTENDS WorkflowRun

-----------------------------------------------------------------------------
(***************************************************************************)
(* The snapshots.                                                          *)
(***************************************************************************)

\* What every Node snapshot is like, in its file and in a write that is due:
\* only a completed node has a conclusion, an Agent that was started has an
\* Attempt, and one that may be started has an Attempt left.
NodeOK(n, v) ==
  /\ v \in NodeSnapshot /\ v.att \in 0..MaxAttempts
  /\ v.phase # "completed" => v.concl = "none"
  /\ n \notin Agent => v.att = 0 /\ v.phase # "running"
  /\ n \in Agent /\ v.phase \in {"running", "waiting", "completed"} => v.att > 0
  /\ v.phase \in {"pending", "ready", "skipped"} => v.att < MaxAttempts

\* An Attempt as beginAttempt creates it.
Prepared == [phase |-> "running", concl |-> "none", reason |-> "none", launch |-> "prepared",
             handle |-> FALSE, consumed |-> FALSE]

\* The conclusions beside which an execution may still run.
Open(concl) == concl \in {"none", "indeterminate"}

\* The snapshots are typed, and a node that has an Attempt has its snapshot.
FilesOK ==
  /\ run \in WorkflowSnapshot /\ req \in CancelRequest
  /\ node \in [Node -> NodeSnapshot] /\ \A n \in Node : NodeOK(n, node[n])
  /\ attempt \in [Agent -> [1..MaxAttempts -> AttemptSnapshot \cup {NoAttempt}]]
  /\ \A n \in Agent : node[n].att > 0 => Current(n) \in AttemptSnapshot
  /\ exec \in [Agent -> [1..MaxAttempts -> Executions]]

-----------------------------------------------------------------------------
(***************************************************************************)
(* Who works on the Run.                                                   *)
(***************************************************************************)

\* The points at which the Backend may be starting the execution of n.
Dispatched == {"start", "handle", "handle_err", "nohandle", "empty"}

\* The states of the controller and of the handler of a cancellation.
ControlStates == [pc : ControlPoints, ctx : BOOLEAN, stopping : BOOLEAN, hb : BOOLEAN,
                  due : BOOLEAN, progressed : BOOLEAN, again : BOOLEAN, target : Node \cup {"-"}]
CancelStates == [pc : CancelPoints, who : {"-", "monitor", "caller"},
                 out : [Agent -> {"-", "wait", "yes", "no"}]]

\* The types of what the threads keep.
ThreadTypes ==
  /\ proc \in {"down", "replay", "up"} /\ ask \in BOOLEAN /\ act \in BOOLEAN /\ hbrec \in BOOLEAN
  /\ faults \in 0..MaxFaults
  /\ ctl \in ControlStates /\ can \in CancelStates
  /\ obs \in [Agent -> ObsPoints] /\ lau \in [Agent -> LaunchPoints]

\* An action, a controller and a caller's cancellation exclude each other; a
\* monitor belongs to a controller, launches belong to its point launch; and
\* where a plan is to be replayed nothing else goes on.
ControlRules ==
  /\ act => ctl.pc = "off" /\ can.who = "-"
  /\ can.who = "monitor" => ctl.pc # "off"
  /\ can.who = "caller" => ctl.pc = "off"
  /\ can.pc = "off" <=> can.who = "-"
  /\ can.pc \in {"off", "mark"} => \A n \in Agent : can.out[n] = "-"
  /\ ctl.pc # "launch" => lau = NoLaunch
  /\ Planned /\ ~act => /\ proc # "up" /\ todo = <<>> /\ ctl.pc = "off" /\ can.who = "-"
                        /\ ~ask /\ ~hbrec

\* The threads are typed and exclude each other as the lease demands.
ControlOK == ThreadTypes /\ ControlRules

-----------------------------------------------------------------------------
(***************************************************************************)
(* What is still to be written.                                            *)
(***************************************************************************)

\* A plan that may be applied now: it starts nothing, concludes no Agent and
\* leaves what succeeded alone.
PlanOK(plan) ==
  /\ plan \in Seq(NodeWrites)
  /\ \A j \in DOMAIN plan : /\ NodeOK(plan[j].n, plan[j].val)
                            /\ plan[j].val.att = node[plan[j].n].att
                            /\ plan[j].n \in Agent => Unstarted(plan[j].val)
                            /\ node[plan[j].n].concl = "succeeded" => plan[j].val = node[plan[j].n]
  /\ \A i, j \in DOMAIN plan : plan[i].n = plan[j].n => plan[i].val = plan[j].val

\* No launch of the Attempt k of n is on its way, or will be.
Unlaunched(n, k) ==
  node[n].att = k => /\ lau[n] \notin Dispatched
                     /\ lau[n] = "begin" => ctl.stopping \/ run.cancel

\* The execution has ended for good.
Over(n, k) == exec[n][k] # "live" /\ Unlaunched(n, k)

\* The phases of a node whose Attempt has been started.
BusyPhases == {"running", "waiting", "completed"}
Busy(n) == node[n].phase \in BusyPhases

\* A write of a node that keeps its Attempt: an Agent is active afterwards only
\* if it was before, or when a cancellation took it for active.
NodeWriteOK(w) ==
  /\ NodeOK(w.n, w.val) /\ w.val.att = node[w.n].att
  /\ node[w.n].concl = "succeeded" => w.val = node[w.n]
  /\ w.n \in Agent /\ w.val.phase \in {"running", "waiting"} => Active(w.n, node) \/ can.out[w.n] # "-"
  /\ w.n \in Agent /\ ~Open(w.val.concl) => Over(w.n, w.val.att)
  /\ w.n \in Agent /\ Busy(w.n) => act \/ w.val.phase \in BusyPhases

\* A write of an Attempt keeps its launch state and its handle; it concludes the
\* Attempt only when its execution is over.
AttemptWriteOK(w) ==
  LET at == attempt[w.n][w.k]
  IN  /\ at \in AttemptSnapshot /\ w.val.launch = at.launch /\ w.val.handle = at.handle
      /\ w.val.phase = "completed" => Unlaunched(w.n, w.k)
      /\ ~Open(w.val.concl) \/ (w.val.phase = "completed" /\ w.val.handle) => Over(w.n, w.k)

\* A write that creates nothing.
PlainOK(w) ==
  /\ w.file # "new"
  /\ w.file = "node" => NodeWriteOK(w)
  /\ w.file = "attempt" => AttemptWriteOK(w)
  /\ w.file \in {"run", "acted"} /\ run.cancel => w.val.cancel \/ act
  /\ w.file = "acted" => act
  /\ w.file = "intent" => act /\ PlanOK(w.val.plan)

\* The writes of a batch that launches: it concludes nothing, and nobody else
\* is at work on what it creates.
BatchOK ==
  /\ ctl.pc = "launch"
  /\ \A j \in DOMAIN todo : /\ todo[j].file \in {"node", "new", "run"}
                            /\ todo[j].file = "node" => todo[j].val.concl = "none"
                            /\ todo[j].file = "node" /\ Terminal(node[todo[j].n]) =>
                                 todo[j].val = node[todo[j].n]
  /\ \A n \in Agent : lau[n] \in {"-", "begin"} /\ can.out[n] = "-"

\* A write that creates an Attempt.
NewOK(w) == w.file = "new" /\ w.val = Prepared

\* The dependencies of n have ended, and let it start.
DepsOver(n) == \A d \in Deps[n] : /\ Terminal(node[d])
                                  /\ node[d].concl \in Failing => When[n] # NoCondition

\* The i-th write names the next Attempt of a node, which the write before it
\* creates or has created.
CreatesOK(i) ==
  LET w == todo[i]
  IN  /\ w.file = "node" /\ w.n \in Agent /\ NodeOK(w.n, w.val)
      /\ Unstarted(node[w.n]) /\ DepsOver(w.n)
      /\ w.val.att = node[w.n].att + 1 /\ w.val.phase = "running" /\ w.val.concl = "none"
      /\ lau[w.n] = "begin"
      /\ \/ i = 1 /\ attempt[w.n][w.val.att] = Prepared
         \/ i > 1 /\ todo[i - 1] = CreateAttempt(w.n, w.val.att, Prepared)

\* The i-th write that is due may be done.
WriteOK(i) == PlainOK(todo[i]) \/ (BatchOK /\ (NewOK(todo[i]) \/ CreatesOK(i)))

\* Writes of one file agree.
AgreeOK ==
  /\ \A i, j \in DOMAIN todo :
       todo[i].file = "node" /\ todo[j].file = "node" /\ todo[i].n = todo[j].n =>
         todo[i].val = todo[j].val
  /\ \A i, j \in DOMAIN todo :
       ~act /\ todo[i].file = "run" /\ todo[j].file = "run" =>
         todo[i].val.cancel = todo[j].val.cancel

\* What is to be written of a node in the plan is what the plan says.
AppliesTo(plan) ==
  \A i \in DOMAIN todo, j \in DOMAIN plan :
    todo[i].file = "node" /\ todo[i].n = plan[j].n => todo[i].val = plan[j].val

\* The plan of an action is removed at last, and until then it can be applied.
IntentOK ==
  /\ intent \in actionIntent
  /\ Planned => PlanOK(intent.plan) /\ AppliesTo(intent.plan)
  /\ \A i \in DOMAIN todo : todo[i].file = "intent" => AppliesTo(todo[i].val.plan)
  /\ (act /\ Planned) \/ (\E i \in DOMAIN todo : todo[i].file = "intent") =>
       todo # <<>> /\ todo[Len(todo)] = WriteIntent(NoIntent)

\* The writes that are due: each may be done, they agree, and so does the intent.
TodoOK ==
  /\ todo \in Seq(Writes)
  /\ \A i \in DOMAIN todo : WriteOK(i)
  /\ AgreeOK
  /\ IntentOK

-----------------------------------------------------------------------------
(***************************************************************************)
(* The launches, the observations and the targets of a cancellation.       *)
(***************************************************************************)

\* The Attempt of n may still be started: nothing has concluded it.
Startable(n) == Open(Current(n).concl) /\ Current(n).phase # "completed" /\ Open(node[n].concl)

\* The node is active, and no write that is due changes it.
Untouched(n) ==
  /\ Active(n, node)
  /\ \A i \in DOMAIN todo : todo[i].file = "node" /\ todo[i].n = n => todo[i].val = node[n]

\* The node has not succeeded, and will not by a write that is due.
Unsucceeded(n) ==
  /\ node[n].concl # "succeeded"
  /\ \A i \in DOMAIN todo : todo[i].file = "node" /\ todo[i].n = n => todo[i].val.concl # "succeeded"

\* The node is still to get the Attempt that is to be launched.
Coming(n) == \E i \in DOMAIN todo : CreatesOK(i) /\ todo[i].n = n

\* A launch that is on its way has an Attempt in the launch state it expects,
\* and until its execution is started nothing has concluded it.
LaunchOK(n) ==
  /\ lau[n] = "begin" =>
       \/ Coming(n)
       \/ /\ node[n].att > 0 /\ Current(n).launch = "prepared" /\ ~Current(n).handle
          /\ ctl.stopping \/ run.cancel \/ Startable(n)
  /\ lau[n] \in Dispatched =>
       node[n].att > 0 /\ Current(n).launch = "dispatching" /\ ~Current(n).handle /\ Startable(n)
  /\ lau[n] # "-" => run.cancel \/ Coming(n) \/ Untouched(n)
  /\ lau[n] \notin {"-", "begin"} => node[n].att > 0
  /\ lau[n] \in {"refused", "err", "none"} => ~Current(n).handle

\* What was observed of an Attempt still holds when it is applied.
ObservedOK(n) ==
  ctl.pc = "observe" /\ obs[n] # "-" =>
    /\ node[n].att > 0 /\ (run.cancel \/ Untouched(n))
    /\ obs[n] \in {"ok", "bad"} => Execution(n) # "live"
    /\ obs[n] = "lost" => Execution(n) # "live" \/ ~Current(n).handle

\* A target of a cancellation stays busy and does not succeed meanwhile; one
\* that counts as stopped is over.
TargetOK(n) ==
  can.out[n] # "-" =>
    /\ Busy(n) /\ run.cancel /\ Unsucceeded(n)
    /\ can.out[n] = "yes" => Over(n, node[n].att)

\* The same for the only target of a recovered controller.
RecoverOK ==
  LET n == ctl.target
  IN  /\ ctl.pc = "rmark" => n = "-"
      /\ ctl.pc \in {"rtarget", "rcancel"} => n \in Agent /\ Busy(n) /\ Unsucceeded(n)
      /\ ctl.pc = "rfinal" /\ n # "-" => n \in Agent /\ Busy(n) /\ Unsucceeded(n) /\ Execution(n) # "live"

\* An execution that runs was dispatched, and nothing has concluded it.
ExecOK(n, k) ==
  LET at == attempt[n][k]
  IN  exec[n][k] = "live" =>
        /\ at # NoAttempt /\ at.launch # "prepared" /\ Open(at.concl)
        /\ node[n].att = k => Open(node[n].concl)
        /\ at.handle => at.phase # "completed"

\* The conditions above for all nodes and Attempts.
LaunchesOK == \A n \in Agent : LaunchOK(n)
ObservationsOK == \A n \in Agent : ObservedOK(n)
TargetsOK == \A n \in Agent : TargetOK(n)
ExecutionsOK == \A n \in Agent, k \in 1..MaxAttempts : ExecOK(n, k)

\* The threads agree with the snapshots.
ThreadsOK == LaunchesOK /\ ObservationsOK /\ TargetsOK /\ RecoverOK /\ ExecutionsOK

\* The inductive invariant.
RunInv == FilesOK /\ ControlOK /\ TodoOK /\ ThreadsOK

\* A write that is due gives n its next Attempt.
Creating(n) == \E i \in DOMAIN todo : todo[i].file = "node" /\ todo[i].n = n /\ todo[i].val.att # node[n].att
\* The Agents that occupy a slot, or may by a write that is due.
Slots == {n \in Agent : Active(n, node) \/ can.out[n] # "-" \/ Creating(n)}
\* They fit into the effective limit.
SlotsOK == Cardinality(Slots) <= EffectiveConcurrency

-----------------------------------------------------------------------------
(***************************************************************************)
(* The end of a Run.  A recovered controller finishes a cancellation beside*)
(* its monitor, and a crash can leave one half done; what follows is about *)
(* Runs without cancellations, or without what interrupts a controller.    *)
(***************************************************************************)

\* Nobody asks for a cancellation.
Uncancelled == "cancel" \notin Requests

\* Nobody asks for a cancellation, or no controller is interrupted.
NoRecoveredCancel == Uncancelled \/ Faults \cap {"crash", "heartbeat"} = {}

\* The write changes the Run.
OfRun(w) == w.file \in {"run", "acted"}

\* The i-th write that is due is one of node n.
OfNode(i, n) == todo[i].file = "node" /\ todo[i].n = n

\* A Run that nobody cancels.
NotCancelled ==
  /\ req = "none" /\ ~ask /\ can.pc = "off" /\ ~run.cancel
  /\ \A i \in DOMAIN todo : OfRun(todo[i]) => ~todo[i].val.cancel

\* The points of a controller that takes up a cancellation.
RecoveryPoints == {"rmark", "rtarget", "rcancel", "rfinal", "rfail"}

\* No controller takes up a cancellation that another one began.
RoutesOK ==
  /\ ctl.pc \notin RecoveryPoints
  /\ ~Uncancelled => proc = "up" /\ ~hbrec /\ ~ctl.hb
  /\ Uncancelled => NotCancelled

\* Every node has ended once the writes that are due are done.
EndsAll ==
  \A n \in Node : /\ \A i \in DOMAIN todo : OfNode(i, n) => Terminal(todo[i].val)
                  /\ Terminal(node[n]) \/ \E i \in DOMAIN todo : OfNode(i, n)

\* The write that completes a Run is the last one.
CompletesOK ==
  \A i \in DOMAIN todo :
    todo[i].file = "run" /\ todo[i].val.phase = "completed" =>
      i = Len(todo) /\ ~act /\ (Uncancelled => EndsAll)

\* Only an action has something to write when the Run is completed.
CompletedOK == run.phase = "completed" /\ ~act => todo = <<>>

\* An action makes the Run run, its plan durable before it touches a node of a
\* completed Run, and removes the plan once the Run says that it was applied.
ActionOK ==
  act =>
    /\ \A i \in DOMAIN todo : OfRun(todo[i]) => todo[i].val.phase = "running"
    /\ run.phase = "running" \/ \E i \in DOMAIN todo : OfRun(todo[i])
    /\ \A i \in DOMAIN todo : i > 1 /\ todo[i].file = "intent" => todo[i - 1].file = "acted"
    /\ todo # <<>> /\ todo[1].file = "intent" =>
         run.phase = "running" \/ (todo[1].val.plan # <<>> /\ ~todo[1].val.receipt)
    /\ run.phase = "completed" => Planned \/ (todo # <<>> /\ todo[1].file = "intent")

\* What the files and the writes that are due say of the end.
EndsOK == CompletesOK /\ CompletedOK /\ ActionOK /\ (Uncancelled => RunEndsKnown)

\* The invariant of these Runs.
EndInv == RoutesOK /\ EndsOK

-----------------------------------------------------------------------------
(***************************************************************************)
(* Why a controller leaves a Run that nobody cancels.                      *)
(***************************************************************************)

\* The phases of a Run that needs no controller to go on.
RestPhases == {"waiting", "completed"}

\* A controller is interrupted by its heartbeat only.
HeartOK ==
  /\ ~ctl.stopping /\ (ctl.ctx => ctl.hb)
  /\ ctl.pc = "observe" => \A n \in Agent : obs[n] = "cancelled" => ctl.hb

\* The write does not take the Run from its controller.
KeptWrite(w) == OfRun(w) => w.val.phase \notin {"paused", "cancelling"}

\* A Run with a controller is neither paused nor being cancelled.
PhasesOK ==
  /\ run.phase # "cancelling" /\ (ctl.pc # "off" => run.phase # "paused")
  /\ \A i \in DOMAIN todo : KeptWrite(todo[i])

\* A controller that schedules and does not repeat its loop has no Agent that
\* runs.
SchedOK ==
  ctl.pc = "sched" => todo = <<>> /\ (ctl.again \/ \A n \in Agent : node[n].phase # "running")

\* The Run rests, now and once the writes that are due are done.
Rests ==
  \/ run.phase \in RestPhases /\ \A i \in DOMAIN todo : OfRun(todo[i]) => todo[i].val.phase \in RestPhases
  \/ todo # <<>> /\ OfRun(todo[Len(todo)]) /\ todo[Len(todo)].val.phase \in RestPhases

\* A controller leaves a Run that rests, or to the recovery after its
\* heartbeat.
ExitOK ==
  /\ ctl.pc = "off" /\ ~act => todo = <<>>
  /\ ctl.pc = "exit" /\ ~ctl.hb => Rests
  /\ ctl.pc = "off" /\ ~act /\ proc = "up" /\ ~hbrec => run.phase \in RestPhases

\* The invariant of the controllers of a Run that nobody cancels.
RestInv == HeartOK /\ PhasesOK /\ SchedOK /\ ExitOK
=============================================================================
