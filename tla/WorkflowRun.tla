---------------------------- MODULE WorkflowRun ----------------------------
(***************************************************************************)
(* The life of one Run in one engine process: its controller (reconcile,   *)
(* schedule, launch), the monitor that handles cancellation requests, the  *)
(* human actions, the heartbeat recovery, and crashes and restarts of the  *)
(* process.  Durable are the Run, Node and Attempt snapshots, the request  *)
(* for a cancellation and the action intent; everything else is lost by a  *)
(* crash.  The executions of the Backend live outside of the process.      *)
(*                                                                         *)
(* s.mu is held from the begin of a state mutation to its last write: the  *)
(* remaining writes are the sequence todo, one is done per step, and a     *)
(* mutation begins only when todo is empty.  The process may be killed     *)
(* between any two of them.  Backend calls are made without the mutex.     *)
(***************************************************************************)
EXTENDS Schedule

CONSTANTS MaxAttempts,   \* bound on the Attempts of a node
          Faults,        \* the faults of the environment that may happen
          MaxFaults,     \* bound on how many of them happen
          Requests,      \* what the callers may ask for
          NoAttempt      \* the file of the Attempt does not exist

FaultKinds == {"crash", "heartbeat", "observe_error", "asking", "lost",
               "start_error", "post_start_error", "cancel_unconfirmed", "gives_up"}

ASSUME RunAssumption ==
    /\ MaxAttempts \in Nat \ {0}
    /\ Faults \subseteq FaultKinds
    /\ MaxFaults \in Nat
    /\ Requests \subseteq {"cancel", "decide", "retry", "answer"}

VARIABLES run,      \* run.json
          node,     \* the Node snapshots
          attempt,  \* the Attempt snapshots
          req,      \* cancel.request.json, and whether its version is current
          intent,   \* the file of the action intent
          exec,     \* the executions of the Backend
          proc,     \* the engine process: down, replaying its journal, or up
          todo,     \* the writes left to the holder of the mutex
          ctl,      \* the controller
          obs,      \* what the controller observed of its Attempts
          lau,      \* the launches of the controller
          can,      \* the handler of a cancellation request
          ask,      \* whether a caller of Cancel waits for the response
          act,      \* an action holds the lease and is being applied
          hbrec,    \* a controller is to be recovered after a heartbeat failure
          faults    \* how many faults happened

disk == <<run, node, attempt, req, intent>>
vars == <<run, node, attempt, req, intent, exec, proc, todo, ctl, obs, lau, can,
          ask, act, hbrec, faults>>

RunPhases == {"created", "running", "waiting", "paused", "cancelling", "completed"}
LaunchStates == {"prepared", "dispatching", "handle_persisted", "finished_without_handle"}

WorkflowSnapshot == [phase : RunPhases, concl : Conclusions, reason : Reasons,
                     cancel : BOOLEAN]
AttemptSnapshot == [phase : {"running", "waiting", "completed"}, concl : Conclusions,
                    reason : Reasons, launch : LaunchStates, handle : BOOLEAN,
                    consumed : BOOLEAN]
CancelRequest == {"none", "current", "stale"}

\* A file that does not exist is told from every snapshot.
ASSUME FileAssumption == NoAttempt \notin AttemptSnapshot

\* One durable write: a snapshot, or the file of the action intent.
WriteRun(r) == [file |-> "run", val |-> r]
WriteNode(n, v) == [file |-> "node", n |-> n, val |-> v]
CreateAttempt(n, k, v) == [file |-> "new", n |-> n, k |-> k, val |-> v]
UpdateAttempt(n, k, v) == [file |-> "attempt", n |-> n, k |-> k, val |-> v]
WriteIntent(i) == [file |-> "intent", val |-> i]

NodeWrites == [file : {"node"}, n : Node, val : NodeSnapshot]

\* The plan of an action: its node writes.  The receipt is part of run.json:
\* whether the Run has recorded the action.
actionIntent == [plan : Seq(NodeWrites), receipt : BOOLEAN]
NoIntent == [plan |-> <<>>, receipt |-> FALSE]

Writes == NodeWrites
          \cup [file : {"run", "acted"}, val : WorkflowSnapshot]
          \cup [file : {"new", "attempt"}, n : Agent, k : 1..MaxAttempts,
                val : AttemptSnapshot]
          \cup [file : {"intent"}, val : actionIntent]

\* What the Backend knows of an execution: not started, running, ended with a
\* result, or gone without one.
Executions == {"none", "live", "ok", "bad", "questions", "gone"}

ControlPoints == {"off", "top", "observe", "sched", "launch", "fault", "exit",
                  "rmark", "rtarget", "rcancel", "rfail", "rfinal"}
ObsPoints == {"-", "ask", "settled", "active", "ok", "bad", "questions",
              "error", "asking", "lost", "cancelled"}
LaunchPoints == {"-", "begin", "start", "handle", "handle_err", "nohandle",
                 "empty", "refused", "ok", "err_handle", "err", "none"}
CancelPoints == {"off", "mark", "targets", "resolve"}

TypeOK ==
    /\ run \in WorkflowSnapshot
    /\ node \in [Node -> NodeSnapshot]
    /\ attempt \in [Agent -> [1..MaxAttempts -> AttemptSnapshot \cup {NoAttempt}]]
    /\ req \in CancelRequest
    /\ intent \in actionIntent
    /\ exec \in [Agent -> [1..MaxAttempts -> Executions]]
    /\ proc \in {"down", "replay", "up"}
    /\ todo \in Seq(Writes)
    /\ ctl \in [pc : ControlPoints, ctx : BOOLEAN, stopping : BOOLEAN, hb : BOOLEAN,
                due : BOOLEAN, progressed : BOOLEAN, again : BOOLEAN, target : Node \cup {"-"}]
    /\ obs \in [Agent -> ObsPoints]
    /\ lau \in [Agent -> LaunchPoints]
    /\ can \in [pc : CancelPoints, who : {"-", "monitor", "caller"},
                out : [Agent -> {"-", "wait", "yes", "no"}]]
    /\ ask \in BOOLEAN
    /\ act \in BOOLEAN
    /\ hbrec \in BOOLEAN
    /\ faults \in 0..MaxFaults

-----------------------------------------------------------------------------
NoObs == [n \in Agent |-> "-"]
NoLaunch == [n \in Agent |-> "-"]
NoCancel == [pc |-> "off", who |-> "-", out |-> [n \in Agent |-> "-"]]

\* A fresh controller that begins at point p.  Its monitor reads the request
\* file at least once, so a request that is pending now is due to be handled.
Controller(p) == [pc |-> p, ctx |-> FALSE, stopping |-> FALSE, hb |-> FALSE,
                  due |-> p # "off" /\ req # "none", progressed |-> FALSE,
                  again |-> FALSE, target |-> "-"]

Pending == [phase |-> "pending", concl |-> "none", reason |-> "none", att |-> 0,
            result |-> "none"]

Init ==
    /\ run = [phase |-> "created", concl |-> "none", reason |-> "none", cancel |-> FALSE]
    /\ node = [n \in Node |-> Pending]
    /\ attempt = [n \in Agent |-> [k \in 1..MaxAttempts |-> NoAttempt]]
    /\ req = "none"
    /\ intent = NoIntent
    /\ exec = [n \in Agent |-> [k \in 1..MaxAttempts |-> "none"]]
    /\ proc = "up"
    /\ todo = <<>>
    /\ ctl = Controller("top")
    /\ obs = NoObs
    /\ lau = NoLaunch
    /\ can = NoCancel
    /\ ask = FALSE
    /\ act = FALSE
    /\ hbrec = FALSE
    /\ faults = 0

-----------------------------------------------------------------------------
\* A fault of kind f happens.
Fault(f) == f \in Faults /\ faults < MaxFaults /\ faults' = faults + 1

\* The current Attempt of n and its execution.
Current(n) == attempt[n][node[n].att]
Execution(n) == exec[n][node[n].att]

\* The first node in topological order that has something left in f.
Left(f) == {n \in Agent : f[n] # "-"}
First(f) == InOrder(Left(f))[1]

Go(p) == ctl' = [ctl EXCEPT !.pc = p]

\* The control lease of the Run is free for another holder of this process.
LeaseFree == ctl.pc = "off" /\ ~act /\ can.who # "caller"

\* An action whose intent is durable and whose receipt is not, and that no
\* thread applies: it is to be replayed.
ReplayDue == intent.plan # <<>> /\ ~intent.receipt /\ ~act

\* mutationMu of the application service: one request of a caller at a time.
mutationMu == proc # "down" /\ ~ask /\ ~act /\ can.who # "caller" /\ ~ReplayDue

\* Every persistRun increments the state version, which makes a pending
\* request stale.
Outdate(r) == IF r = "none" THEN "none" ELSE "stale"

\* persistRun outside of a longer mutation: one atomic write.
persistRun(r) == run' = r /\ req' = Outdate(req)

\* The concatenation of a sequence of sequences.
Flatten(ss) ==
    LET upTo[i \in 0..Len(ss)] == IF i = 0 THEN <<>> ELSE upTo[i - 1] \o ss[i]
    IN  upTo[Len(ss)]

\* One sequence per node of the sequence ns.
Each(ns, Op(_)) == Flatten([i \in DOMAIN ns |-> Op(ns[i])])

\* The check of controllerMutation: the controller is active, and the Run is
\* neither cancelled nor paused nor completed.
Allowed == /\ ~ctl.stopping
           /\ ~run.cancel
           /\ run.phase \notin {"paused", "cancelling", "completed"}

\* The Run as it is persisted with the result of a node.
RunningRun == [run EXCEPT !.phase = "running", !.concl = "none", !.reason = "none"]

-----------------------------------------------------------------------------
\* The holder of the mutex does its next write.  Creating an Attempt that
\* exists fails, and with it the rest of the batch.
Write ==
    /\ todo # <<>>
    /\ LET w == Head(todo)
           exists == w.file = "new" /\ attempt[w.n][w.k] # NoAttempt
       IN  /\ todo' = IF exists THEN <<>> ELSE Tail(todo)
           /\ run' = IF w.file \in {"run", "acted"} THEN w.val ELSE run
           /\ req' = IF w.file \in {"run", "acted"} THEN Outdate(req) ELSE req
           /\ node' = IF w.file = "node" THEN [node EXCEPT ![w.n] = w.val] ELSE node
           /\ attempt' = IF w.file \in {"new", "attempt"} /\ ~exists
                         THEN [attempt EXCEPT ![w.n][w.k] = w.val] ELSE attempt
           /\ intent' = CASE w.file = "intent" -> w.val
                          [] w.file = "acted" -> [intent EXCEPT !.receipt = TRUE]
                          [] OTHER -> intent
           /\ ctl' = IF exists THEN [ctl EXCEPT !.pc = "fault"] ELSE ctl
           /\ lau' = IF exists THEN NoLaunch ELSE lau
    /\ UNCHANGED <<exec, proc, obs, can, ask, act, hbrec, faults>>

-----------------------------------------------------------------------------
\* control, top of the loop.  The snapshots are read without the mutex; what
\* another thread is writing meanwhile is a cancellation, which ends the loop.
ControlTop ==
    /\ ctl.pc = "top"
    /\ todo = <<>>
    /\ LET refs == findActiveAttempts(node)
       IN  IF ctl.ctx \/ run.phase = "completed" \/ run.cancel
           THEN Go("exit") /\ obs' = obs
           ELSE /\ ctl' = [ctl EXCEPT !.pc = IF refs = {} THEN "sched" ELSE "observe",
                                      !.progressed = FALSE, !.again = FALSE]
                /\ obs' = [n \in Agent |-> IF n \in refs THEN "ask" ELSE "-"]
    /\ UNCHANGED <<disk, exec, proc, todo, lau, can, ask, act, hbrec, faults>>

\* An Attempt whose observation is outstanding.
Observing(n) == ctl.pc = "observe" /\ obs[n] = "ask"

\* observeAttempt ends with observation o; the execution is then in state e.
Observed(n, o, e) ==
    /\ obs' = [obs EXCEPT ![n] = o]
    /\ exec' = [exec EXCEPT ![n][node[n].att] = e]
    /\ UNCHANGED <<disk, proc, todo, ctl, lau, can, ask, act, hbrec>>

\* A consumed needs_input result needs no observation.
Settled(n) == /\ Current(n).consumed
              /\ Current(n).phase = "waiting"
              /\ Current(n).reason = "agent_waiting_input"

\* The Backend is asked: there is a handle.
AsksBackend(n) == ~Settled(n) /\ Current(n).handle

\* Without the Backend: the result is settled, there is no handle, or the
\* context is cancelled.
ObserveLocal(n) ==
    /\ Observing(n)
    /\ \/ Settled(n) /\ Observed(n, "settled", Execution(n))
       \/ ~Settled(n) /\ ~Current(n).handle /\ Observed(n, "lost", Execution(n))
       \/ AsksBackend(n) /\ ctl.ctx /\ Observed(n, "cancelled", Execution(n))
    /\ UNCHANGED faults

\* The execution is still active.
ObserveActive(n) ==
    /\ Observing(n)
    /\ AsksBackend(n)
    /\ Execution(n) = "live"
    /\ Observed(n, "active", "live")
    /\ UNCHANGED faults

\* The execution has ended, with a result or without.
ObserveEnd(n) ==
    /\ Observing(n)
    /\ AsksBackend(n)
    /\ \E o \in {"ok", "bad", "questions"} :
         Execution(n) \in {"live", o} /\ Observed(n, o, o)
    /\ UNCHANGED faults

ObserveGone(n) ==
    /\ Observing(n)
    /\ AsksBackend(n)
    /\ \/ Execution(n) = "gone" /\ UNCHANGED faults
       \/ Execution(n) = "live" /\ Fault("lost")
    /\ Observed(n, "lost", "gone")

\* The observation fails, the result stays pending, or the Agent asks in its
\* terminal.
ObserveTrouble(n) ==
    /\ Observing(n)
    /\ AsksBackend(n)
    /\ \/ Fault("observe_error") /\ Observed(n, "error", Execution(n))
       \/ Fault("asking") /\ Execution(n) = "live" /\ Observed(n, "asking", "live")

-----------------------------------------------------------------------------
\* The writes of finishResult with a terminal result.
finishResult(n, o) ==
    LET end == IF o = "ok" THEN "succeeded" ELSE "failed"
    IN  << WriteNode(n, [node[n] EXCEPT !.phase = "completed", !.concl = end,
                                        !.reason = "none", !.result = o]),
           UpdateAttempt(n, node[n].att,
               [Current(n) EXCEPT !.phase = "completed", !.concl = end, !.consumed = TRUE]),
           WriteRun(RunningRun) >>

\* The writes of waitingIfChanged and waitingWithResult: nothing when nothing
\* changes, only the Run when the node already waits for this reason.
waiting(n, reason, nd, at) ==
    LET nodeAfter == [nd EXCEPT !.phase = "waiting", !.reason = reason]
        attAfter == [at EXCEPT !.phase = "waiting", !.reason = reason]
        runAfter == aggregateRunState(run, [node EXCEPT ![n] = nodeAfter])
        changed == nodeAfter # node[n] \/ attAfter # Current(n)
    IN  (IF changed
         THEN <<WriteNode(n, nodeAfter), UpdateAttempt(n, node[n].att, attAfter)>>
         ELSE <<>>)
        \o (IF changed \/ runAfter # run THEN <<WriteRun(runAfter)>> ELSE <<>>)

waitingIfChanged(n, reason) == waiting(n, reason, node[n], Current(n))

waitingWithResult(n) ==
    waiting(n, "agent_waiting_input", [node[n] EXCEPT !.result = "questions"],
            [Current(n) EXCEPT !.consumed = TRUE])

\* The writes of finishIndeterminate.
finishIndeterminate(n) ==
    << UpdateAttempt(n, node[n].att,
           [Current(n) EXCEPT !.phase = "completed", !.concl = "indeterminate"]),
       WriteNode(n, [node[n] EXCEPT !.phase = "completed", !.concl = "indeterminate",
                                    !.reason = "none"]),
       WriteRun(RunningRun) >>

\* Mutant of ObservationWrites: an execution that was lost is left alone.
ObservationWritesKeepLost(n, o) ==
    CASE o \in {"ok", "bad"} -> finishResult(n, o)
      [] o = "questions" -> waitingWithResult(n)
      [] o = "asking" -> waitingIfChanged(n, "agent_waiting_input")
      [] o = "error" -> waitingIfChanged(n, "completion_missing")
      [] o = "lost" -> <<>>

\* The mutation that an observation leads to.
ObservationWrites(n, o) ==
    CASE o \in {"ok", "bad"} -> finishResult(n, o)
      [] o = "questions" -> waitingWithResult(n)
      [] o = "asking" -> waitingIfChanged(n, "agent_waiting_input")
      [] o = "error" -> waitingIfChanged(n, "completion_missing")
      [] o = "lost" -> finishIndeterminate(n)

\* Mutant of ReconcileApply: it does not ask whether the mutation is allowed.
ReconcileApplyLate ==
    /\ ctl.pc = "observe"
    /\ todo = <<>>
    /\ \A n \in Agent : obs[n] # "ask"
    /\ Left(obs) # {}
    /\ LET n == First(obs)
       IN  /\ obs' = [obs EXCEPT ![n] = "-"]
           /\ todo' = IF obs[n] \in {"settled", "active", "cancelled"} THEN <<>>
                      ELSE ObservationWrites(n, obs[n])
           /\ ctl' = [ctl EXCEPT !.progressed = ctl.progressed \/ todo' # <<>>]
    /\ UNCHANGED <<disk, exec, proc, lau, can, ask, act, hbrec, faults>>

\* reconcileAttempts applies the observations one by one once all are made.
ReconcileApply ==
    /\ ctl.pc = "observe"
    /\ todo = <<>>
    /\ \A n \in Agent : obs[n] # "ask"
    /\ Left(obs) # {}
    /\ LET n == First(obs)
           mutates == obs[n] \notin {"settled", "active", "cancelled"}
       IN  IF obs[n] = "cancelled" \/ (mutates /\ ~Allowed)
           THEN Go("exit") /\ obs' = NoObs /\ todo' = todo
           ELSE /\ obs' = [obs EXCEPT ![n] = "-"]
                /\ todo' = IF mutates THEN ObservationWrites(n, obs[n]) ELSE <<>>
                /\ ctl' = [ctl EXCEPT !.progressed =
                             ctl.progressed \/ obs[n] = "questions" \/ todo' # <<>>]
    /\ UNCHANGED <<disk, exec, proc, lau, can, ask, act, hbrec, faults>>

\* Mutant of ReconcileEnd: the loop is not repeated for active Attempts.
ReconcileEndOnce ==
    /\ ctl.pc = "observe"
    /\ todo = <<>>
    /\ Left(obs) = {}
    /\ ctl' = [ctl EXCEPT !.pc = IF ctl.progressed THEN "top" ELSE "sched",
                          !.again = FALSE]
    /\ UNCHANGED <<disk, exec, proc, todo, obs, lau, can, ask, act, hbrec, faults>>

\* All observations are applied: the loop starts again after progress, and
\* schedules when there was none or every active Attempt waits.
ReconcileEnd ==
    /\ ctl.pc = "observe"
    /\ todo = <<>>
    /\ Left(obs) = {}
    /\ LET active == findActiveAttempts(node)
           allWaiting == active # {} /\ \A n \in active : node[n].phase = "waiting"
       IN  ctl' = [ctl EXCEPT !.pc = IF ctl.progressed /\ ~allWaiting
                                     THEN "top" ELSE "sched",
                              !.again = ~allWaiting]
    /\ UNCHANGED <<disk, exec, proc, todo, obs, lau, can, ask, act, hbrec, faults>>

-----------------------------------------------------------------------------
\* A node that is skipped for a reason, and its writes.
Skip(n, reason) == [node[n] EXCEPT !.phase = "skipped", !.reason = reason]
SkipWrites(n, reason) == <<WriteNode(n, Skip(n, reason)), WriteRun(run)>>

ApprovalWrites(n) ==
    << WriteNode(n, [node[n] EXCEPT !.phase = "waiting", !.reason = "approval_required"]),
       WriteRun(run) >>

\* The prepared Attempt is durable before the node names it.
AgentWrites(n) ==
    LET k == node[n].att + 1
    IN  << CreateAttempt(n, k, [phase |-> "running", concl |-> "none", reason |-> "none",
                                launch |-> "prepared", handle |-> FALSE,
                                consumed |-> FALSE]),
           WriteNode(n, [node[n] EXCEPT !.phase = "running", !.concl = "none",
                                        !.reason = "none", !.att = k]),
           WriteRun(RunningRun) >>

\* The batch of a decision, in the order of its lists.
BatchWrites(d) ==
    Each(d.skipUpstream, LAMBDA n : SkipWrites(n, "upstream_failed"))
    \o Each(d.skipConditions, LAMBDA n : SkipWrites(n, "condition_false"))
    \o Each(d.skipFailurePolicy, LAMBDA n : SkipWrites(n, "failure_policy"))
    \o Each(d.readyApprovals, ApprovalWrites)
    \o Each(d.readyAgents, AgentWrites)

\* The Node snapshots after the writes ws.
NodesAfter(ws) ==
    [n \in Node |->
       LET own == {i \in DOMAIN ws : ws[i].file = "node" /\ ws[i].n = n}
       IN  IF own = {} THEN node[n]
           ELSE ws[CHOOSE i \in own : \A j \in own : j <= i].val]

\* scheduleBatch: the decision is taken and persisted under the mutex; when it
\* launches nothing, the Run is aggregated.
ScheduleBatch ==
    /\ ctl.pc = "sched"
    /\ todo = <<>>
    /\ LET d == PlanSchedule(run, node)
           batch == BatchWrites(d)
           runAfter == aggregateRunState(run, NodesAfter(batch))
       IN  IF ~Allowed THEN Go("exit") /\ UNCHANGED <<todo, lau>>
           ELSE IF d.error THEN Go("fault") /\ UNCHANGED <<todo, lau>>
           ELSE IF d.readyAgents # <<>>
           THEN /\ todo' = batch
                /\ lau' = [n \in Agent |-> IF \E i \in DOMAIN d.readyAgents :
                                                d.readyAgents[i] = n
                                           THEN "begin" ELSE "-"]
                /\ Go("launch")
           ELSE /\ todo' = batch \o IF runAfter # run THEN <<WriteRun(runAfter)>> ELSE <<>>
                /\ Go(IF shouldStop(runAfter) THEN "exit"
                      ELSE IF batch # <<>> \/ ctl.again THEN "top" ELSE "exit")
                /\ lau' = lau
    /\ UNCHANGED <<disk, exec, proc, obs, can, ask, act, hbrec, faults>>

-----------------------------------------------------------------------------
\* Mutant of LaunchBegin: it does not look for a cancellation.
LaunchBeginBlind(n) ==
    /\ ctl.pc = "launch"
    /\ todo = <<>>
    /\ lau[n] = "begin"
    /\ lau' = [lau EXCEPT ![n] = "start"]
    /\ attempt' = [attempt EXCEPT ![n][node[n].att].launch = "dispatching"]
    /\ UNCHANGED <<run, node, req, intent, exec, proc, todo, ctl, obs, can, ask, act,
                   hbrec, faults>>

\* beginBackendLaunch marks the Attempt as dispatching unless the Run was
\* cancelled or the controller stopped since the Attempt was prepared.
LaunchBegin(n) ==
    /\ ctl.pc = "launch"
    /\ todo = <<>>
    /\ lau[n] = "begin"
    /\ LET refused == \/ ctl.stopping
                      \/ run.cancel
                      \/ run.phase \in {"cancelling", "completed"}
       IN  /\ lau' = [lau EXCEPT ![n] = IF refused THEN "refused" ELSE "start"]
           /\ attempt' = IF refused THEN attempt
                         ELSE [attempt EXCEPT ![n][node[n].att].launch = "dispatching"]
    /\ UNCHANGED <<run, node, req, intent, exec, proc, todo, ctl, obs, can, ask, act,
                   hbrec, faults>>

\* Start returns, without the mutex: a handle, a handle and an error, an error
\* with the outcome unknown, or neither.
LaunchStart(n) ==
    /\ ctl.pc = "launch"
    /\ lau[n] = "start"
    /\ \E o \in {"handle", "handle_err", "nohandle", "empty"}, e \in {"live", "none"} :
         /\ \/ o = "handle" /\ e = "live" /\ UNCHANGED faults
            \/ o = "handle_err" /\ e = "live" /\ Fault("post_start_error")
            \/ o \in {"nohandle", "empty"} /\ Fault("start_error")
            \/ o = "nohandle" /\ ctl.ctx /\ UNCHANGED faults
         /\ lau' = [lau EXCEPT ![n] = o]
         /\ exec' = [exec EXCEPT ![n][node[n].att] = e]
    /\ UNCHANGED <<disk, proc, todo, ctl, obs, can, ask, act, hbrec>>

\* persistExecutionHandle or markLaunchFinishedWithoutHandle; neither asks
\* whether the controller is still active.
LaunchPersist(n) ==
    /\ ctl.pc = "launch"
    /\ todo = <<>>
    /\ lau[n] \in {"handle", "handle_err", "nohandle", "empty"}
    /\ LET got == lau[n] \in {"handle", "handle_err"}
       IN  attempt' = [attempt EXCEPT ![n][node[n].att] =
                         [@ EXCEPT !.handle = got,
                                   !.launch = IF got THEN "handle_persisted"
                                              ELSE "finished_without_handle"]]
    /\ lau' = [lau EXCEPT ![n] = CASE lau[n] = "handle" -> "ok"
                                   [] lau[n] = "handle_err" -> "err_handle"
                                   [] lau[n] = "nohandle" -> "err"
                                   [] lau[n] = "empty" -> "none"]
    /\ UNCHANGED <<run, node, req, intent, exec, proc, todo, ctl, obs, can, ask, act,
                   hbrec, faults>>

\* startPendingLaunches settles the outcomes one by one once all are known.
LaunchSettle ==
    /\ ctl.pc = "launch"
    /\ todo = <<>>
    /\ \A n \in Agent : lau[n] \in {"-", "refused", "ok", "err_handle", "err", "none"}
    /\ Left(lau) # {}
    /\ LET n == First(lau)
           stops == \/ lau[n] \in {"err", "refused"} /\ ctl.ctx
                    \/ lau[n] # "ok" /\ ~Allowed
       IN  IF stops
           THEN Go("exit") /\ lau' = NoLaunch /\ todo' = todo
           ELSE /\ todo' = CASE lau[n] = "ok" -> <<>>
                             [] lau[n] = "err_handle" ->
                                  waitingIfChanged(n, "completion_missing")
                             [] OTHER -> finishIndeterminate(n)
                /\ lau' = [lau EXCEPT ![n] = "-"]
                /\ Go(IF Left(lau) = {n} THEN "top" ELSE "launch")
    /\ UNCHANGED <<disk, exec, proc, obs, can, ask, act, hbrec, faults>>

-----------------------------------------------------------------------------
\* pauseControllerOnError: the batch failed, the Run waits.
PauseOnError ==
    /\ ctl.pc = "fault"
    /\ todo = <<>>
    /\ IF ~ctl.ctx /\ Allowed
         THEN persistRun([run EXCEPT !.phase = "waiting",
                                     !.reason = "completion_missing"])
         ELSE UNCHANGED <<run, req>>
    /\ Go("exit")
    /\ UNCHANGED <<node, attempt, intent, exec, proc, todo, obs, lau, can, ask, act,
                   hbrec, faults>>

\* Every waiting Agent has delivered its questions as a consumed result, and
\* none is running.
hasSettledNeedsInput ==
    LET waits == {n \in Agent : node[n].phase = "waiting"}
    IN  /\ \A n \in Agent : node[n].phase # "running"
        /\ waits # {}
        /\ \A n \in waits : /\ node[n].reason = "agent_waiting_input"
                            /\ node[n].att > 0
                            /\ node[n].result = "questions"
                            /\ Settled(n)

\* The Run waits for a human and needs no controller.
HumanWait == /\ run.phase = "waiting"
             /\ \/ run.reason = "approval_required"
                \/ run.reason = "agent_waiting_input" /\ hasSettledNeedsInput

runNeedsController == run.phase # "completed" /\ ~HumanWait

\* The heartbeat of the lease fails: the context is cancelled.
HeartbeatFails ==
    /\ ctl.pc \notin {"off", "exit"}
    /\ ~ctl.hb
    /\ Fault("heartbeat")
    /\ ctl' = [ctl EXCEPT !.hb = TRUE, !.ctx = TRUE]
    /\ UNCHANGED <<disk, exec, proc, todo, obs, lau, can, ask, act, hbrec>>

\* The controller ends when its monitor has: the lease is released; after a
\* failed heartbeat the Run is paused first and recovered afterwards.
ControllerExit ==
    /\ ctl.pc = "exit"
    /\ todo = <<>>
    /\ can.who # "monitor"
    /\ ctl.due => ctl.stopping
    /\ IF ctl.hb /\ Allowed /\ ~HumanWait
         THEN persistRun([run EXCEPT !.phase = "paused", !.concl = "none",
                                     !.reason = "controller_detached"])
         ELSE UNCHANGED <<run, req>>
    /\ hbrec' = ctl.hb
    /\ ctl' = Controller("off")
    /\ UNCHANGED <<node, attempt, intent, exec, proc, todo, obs, lau, can, ask, act, faults>>

\* The recovered Run, and the controller that Recover and
\* tryRecoverController start for it.
RecoveredRun == IF run.phase = "paused" THEN RunningRun ELSE run
RecoveredControl == Controller(IF run.cancel THEN "rmark" ELSE "top")

\* recoverControllerAfterHeartbeat takes the lease again, unless the Run needs
\* no controller any more.
HeartbeatRecover ==
    /\ hbrec
    /\ todo = <<>>
    /\ hbrec' = FALSE
    /\ IF runNeedsController
         THEN /\ LeaseFree
              /\ persistRun(RecoveredRun)
              /\ ctl' = RecoveredControl
         ELSE UNCHANGED <<run, req, ctl>>
    /\ UNCHANGED <<node, attempt, intent, exec, proc, todo, obs, lau, can, ask, act, faults>>

\* Another holder of the lease has taken the Run over.
HeartbeatHandsOff ==
    /\ hbrec
    /\ ~LeaseFree
    /\ hbrec' = FALSE
    /\ UNCHANGED <<disk, exec, proc, todo, ctl, obs, lau, can, ask, act, faults>>

-----------------------------------------------------------------------------
\* A cancellation is requested with the current state version.  A request that
\* is pending must be of the same action, so of the same version.
CancelAsk ==
    /\ "cancel" \in Requests
    /\ mutationMu
    /\ run.phase # "completed"
    /\ req # "stale"
    /\ req' = "current"
    /\ ask' = TRUE
    /\ UNCHANGED <<run, node, attempt, intent, exec, proc, todo, ctl, obs, lau, can,
                   act, hbrec, faults>>

\* The caller finds the response, or its context ends.
CancelReturns ==
    /\ ask
    /\ \/ req = "none" /\ UNCHANGED faults
       \/ req # "none" /\ Fault("gives_up")
    /\ ask' = FALSE
    /\ UNCHANGED <<disk, exec, proc, todo, ctl, obs, lau, can, act, hbrec>>

\* The caller acquires the lease and handles the request itself.
CancelTakesLease ==
    /\ ask
    /\ LeaseFree
    /\ req # "none"
    /\ can' = [can EXCEPT !.pc = "mark", !.who = "caller"]
    /\ ask' = FALSE
    /\ UNCHANGED <<disk, exec, proc, todo, ctl, obs, lau, act, hbrec, faults>>

\* The monitor of the controller finds the request.
MonitorFinds ==
    /\ ctl.pc # "off"
    /\ ~ctl.stopping
    /\ can.pc = "off"
    /\ req # "none"
    /\ can' = [can EXCEPT !.pc = "mark", !.who = "monitor"]
    /\ UNCHANGED <<disk, exec, proc, todo, ctl, obs, lau, ask, act, hbrec, faults>>

\* The Run once its cancellation is durable.
CancellingRun == IF run.cancel /\ run.phase = "cancelling" THEN run
                 ELSE [phase |-> "cancelling", concl |-> "none", reason |-> "none",
                       cancel |-> TRUE]

\* Mutant of CancelMark: it does not look whether the Run has completed.
CancelMarkCompleted ==
    /\ can.pc = "mark"
    /\ todo = <<>>
    /\ can' = [can EXCEPT !.pc = "targets",
                  !.out = [n \in Agent |-> IF n \in findActiveAttempts(node)
                                           THEN "wait" ELSE "-"]]
    /\ persistRun(CancellingRun)
    /\ UNCHANGED <<node, attempt, intent, exec, proc, todo, ctl, obs, lau, ask, act,
                   hbrec, faults>>

\* markConcurrentCancellationIntent: a stale version is a conflict; otherwise
\* the intent is durable before the active Attempts are collected.
CancelMark ==
    /\ can.pc = "mark"
    /\ todo = <<>>
    /\ LET open == run.phase # "completed"
           targets == {n \in findActiveAttempts(node) : Current(n).concl # "cancelled"}
       IN  IF req = "stale"
           THEN can' = [can EXCEPT !.pc = "resolve"] /\ UNCHANGED <<run, req>>
           ELSE /\ can' = [can EXCEPT !.pc = "targets",
                              !.out = [n \in Agent |-> IF open /\ n \in targets
                                                       THEN "wait" ELSE "-"]]
                /\ IF open /\ CancellingRun # run
                   THEN persistRun(CancellingRun) ELSE UNCHANGED <<run, req>>
    /\ UNCHANGED <<node, attempt, intent, exec, proc, todo, ctl, obs, lau, ask, act,
                   hbrec, faults>>

\* The execution of n after a cancellation that the Backend confirmed.
Ended(n) == IF Execution(n) = "live" THEN "gone" ELSE Execution(n)

\* cancelTarget: whether n counts as stopped, and its execution.  Without a
\* handle only an Attempt that was prepared does, once the grace for a launch
\* that has not returned is over; a completed Attempt needs no Backend.
CancelTarget(n) ==
    /\ can.pc = "targets"
    /\ can.out[n] = "wait"
    /\ LET at == Current(n)
           Outcome(o, e) == /\ can' = [can EXCEPT !.out[n] = o]
                            /\ exec' = [exec EXCEPT ![n][node[n].att] = e]
       IN  \/ /\ ~at.handle
              /\ Outcome(IF at.launch = "prepared" THEN "yes" ELSE "no", Execution(n))
              /\ UNCHANGED faults
           \/ /\ at.handle /\ at.phase = "completed"
              /\ Outcome("yes", Execution(n))
              /\ UNCHANGED faults
           \/ /\ at.handle /\ at.phase # "completed"
              /\ \/ Outcome("yes", Ended(n)) /\ UNCHANGED faults
                 \/ /\ \E e \in {Execution(n), Ended(n)} : Outcome("no", e)
                    /\ Fault("cancel_unconfirmed")
    /\ UNCHANGED <<disk, proc, todo, ctl, obs, lau, ask, act, hbrec>>

CancelledNode(n) == [node[n] EXCEPT !.phase = "completed", !.concl = "cancelled",
                                    !.reason = "user_requested"]
CancelledAttempt(n) == [Current(n) EXCEPT !.phase = "completed", !.concl = "cancelled",
                                          !.reason = "user_requested"]
CancelledRun == [phase |-> "completed", concl |-> "cancelled",
                 reason |-> "user_requested", cancel |-> TRUE]
CancelFailedRun == [phase |-> "waiting", concl |-> "none", reason |-> "cancel_failed",
                    cancel |-> TRUE]

\* The node and the Attempt of one outcome.
OutcomeWrites(n) ==
    LET stuck(r) == [r EXCEPT !.phase = "waiting", !.concl = "none",
                              !.reason = "cancel_failed"]
    IN  IF can.out[n] = "yes"
        THEN <<WriteNode(n, CancelledNode(n)),
               UpdateAttempt(n, node[n].att, CancelledAttempt(n)), WriteRun(run)>>
        ELSE <<WriteNode(n, stuck(node[n])),
               UpdateAttempt(n, node[n].att, stuck(Current(n))), WriteRun(run)>>

\* The nodes that never started, when the Run is cancelled.
SkipUnstarted ==
    Each(InOrder({n \in Node : \/ Unstarted(node[n])
                               \/ n \notin Agent /\ node[n].phase = "waiting"}),
         LAMBDA n : <<WriteNode(n, Skip(n, "workflow_cancelled"))>>)

\* applyCancellationOutcomes: the Run is cancelled only when every target is.
CancelApply ==
    /\ can.pc = "targets"
    /\ todo = <<>>
    /\ \A n \in Agent : can.out[n] # "wait"
    /\ todo' = IF run.phase = "completed" THEN <<>>
               ELSE Each(InOrder(Left(can.out)), OutcomeWrites)
                    \o IF \E n \in Agent : can.out[n] = "no"
                       THEN <<WriteRun(CancelFailedRun)>>
                       ELSE SkipUnstarted \o <<WriteRun(CancelledRun)>>
    /\ can' = [can EXCEPT !.pc = "resolve"]
    /\ UNCHANGED <<disk, exec, proc, ctl, obs, lau, ask, act, hbrec, faults>>

\* Mutant of CancelResolve: the request is answered but not removed.
CancelResolveKeeps ==
    /\ can.pc = "resolve"
    /\ todo = <<>>
    /\ ctl' = IF can.who = "monitor"
              THEN [ctl EXCEPT !.stopping = TRUE, !.ctx = TRUE] ELSE ctl
    /\ can' = NoCancel
    /\ UNCHANGED <<disk, exec, proc, todo, obs, lau, ask, act, hbrec, faults>>

\* resolveCancellationRequest answers and removes the request, whatever came of
\* it; the monitor then stops its controller.
CancelResolve ==
    /\ can.pc = "resolve"
    /\ todo = <<>>
    /\ req' = "none"
    /\ ctl' = IF can.who = "monitor"
              THEN [ctl EXCEPT !.stopping = TRUE, !.ctx = TRUE] ELSE ctl
    /\ can' = NoCancel
    /\ UNCHANGED <<run, node, attempt, intent, exec, proc, todo, obs, lau, ask, act,
                   hbrec, faults>>

-----------------------------------------------------------------------------
\* handleCancellationRequest, run by a recovered controller: the intent is
\* marked and the first node with an active Attempt is the only target.
RecoverMark ==
    /\ ctl.pc = "rmark"
    /\ todo = <<>>
    /\ LET active == InOrder(findActiveAttempts(node))
       IN  IF run.phase = "completed" THEN Go("exit") /\ UNCHANGED <<run, req>>
           ELSE /\ IF CancellingRun # run
                   THEN persistRun(CancellingRun) ELSE UNCHANGED <<run, req>>
                /\ ctl' = IF active = <<>> THEN [ctl EXCEPT !.pc = "rfinal"]
                          ELSE [ctl EXCEPT !.pc = "rtarget", !.target = active[1]]
    /\ UNCHANGED <<node, attempt, intent, exec, proc, todo, obs, lau, can, ask, act,
                   hbrec, faults>>

\* waitForCancellationHandle reads the Attempt: with a handle the Backend is
\* asked, a prepared one needs nothing, any other cannot be confirmed.
RecoverTarget ==
    /\ ctl.pc = "rtarget"
    /\ LET at == Current(ctl.target)
       IN  Go(IF at.handle THEN IF at.concl = "cancelled" THEN "rfinal" ELSE "rcancel"
              ELSE IF at.launch = "prepared" THEN "rfinal" ELSE "rfail")
    /\ UNCHANGED <<disk, exec, proc, todo, obs, lau, can, ask, act, hbrec, faults>>

\* The Backend's Cancel returns; a cancelled context makes it fail.
RecoverCancel ==
    /\ ctl.pc = "rcancel"
    /\ LET n == ctl.target
       IN  /\ \/ /\ Go("rfinal")
                 /\ exec' = [exec EXCEPT ![n][node[n].att] = Ended(n)]
                 /\ UNCHANGED faults
              \/ /\ Go("rfail")
                 /\ \E e \in {Execution(n), Ended(n)} :
                      exec' = [exec EXCEPT ![n][node[n].att] = e]
                 /\ \/ ctl.ctx /\ UNCHANGED faults
                    \/ ~ctl.ctx /\ Fault("cancel_unconfirmed")
    /\ UNCHANGED <<disk, proc, todo, obs, lau, can, ask, act, hbrec>>

\* persistCancelFailure writes the Run whatever its phase has become.
RecoverFails ==
    /\ ctl.pc = "rfail"
    /\ todo = <<>>
    /\ persistRun(CancelFailedRun)
    /\ Go("exit")
    /\ UNCHANGED <<node, attempt, intent, exec, proc, todo, obs, lau, can, ask, act,
                   hbrec, faults>>

\* finalizeCancellation: the target, the unstarted nodes, the Run.
RecoverFinal ==
    /\ ctl.pc = "rfinal"
    /\ todo = <<>>
    /\ LET n == ctl.target
           target == IF n = "-" THEN <<>>
                     ELSE (IF Current(n).concl = "cancelled" THEN <<>>
                           ELSE <<UpdateAttempt(n, node[n].att, CancelledAttempt(n))>>)
                          \o <<WriteNode(n, CancelledNode(n))>>
       IN  todo' = IF run.phase = "completed" THEN <<>>
                   ELSE target \o SkipUnstarted \o <<WriteRun(CancelledRun)>>
    /\ Go("exit")
    /\ UNCHANGED <<disk, exec, proc, obs, lau, can, ask, act, hbrec, faults>>

-----------------------------------------------------------------------------
\* The nodes that depend on n, directly or not.
Descendants(n) ==
    LET upTo[i \in 0..Len(Order)] ==
          IF i = 0 THEN {n}
          ELSE IF Deps[Order[i]] \cap upTo[i - 1] # {}
               THEN upTo[i - 1] \cup {Order[i]} ELSE upTo[i - 1]
    IN  upTo[Len(Order)] \ {n}

\* planDownstreamReset: skipped descendants are pending again, whatever they
\* were skipped for.
planDownstreamReset(n) ==
    Each(InOrder({m \in Descendants(n) : node[m].phase = "skipped"}),
         LAMBDA m : <<WriteNode(m, [node[m] EXCEPT !.phase = "pending", !.reason = "none",
                                                   !.concl = "none", !.result = "none"])>>)

\* The Run after an action: it runs, and no cancellation is pending.
ActedRun == [phase |-> "running", concl |-> "none", reason |-> "none", cancel |-> FALSE]

\* The write of the Run that finalizes an action, and with it the receipt.
finalizeAction == [file |-> "acted", val |-> ActedRun]

\* Mutant of BeginAction: the plan is not made durable first.
BeginActionUnlogged(ws) ==
    /\ mutationMu
    /\ LeaseFree
    /\ todo = <<>>
    /\ intent = NoIntent
    /\ todo' = ws \o <<finalizeAction, WriteIntent(NoIntent)>>
    /\ act' = TRUE
    /\ UNCHANGED <<disk, exec, proc, ctl, obs, lau, can, ask, hbrec, faults>>

\* Resume with an action holds the lease.  Its plan becomes durable as the
\* intent, is applied and recorded in the Run, and the intent is removed.  An
\* intent of another action refuses it.
BeginAction(ws) ==
    /\ mutationMu
    /\ LeaseFree
    /\ todo = <<>>
    /\ intent = NoIntent
    /\ todo' = <<WriteIntent([plan |-> ws, receipt |-> FALSE])>> \o ws
                \o <<finalizeAction, WriteIntent(NoIntent)>>
    /\ act' = TRUE
    /\ UNCHANGED <<disk, exec, proc, ctl, obs, lau, can, ask, hbrec, faults>>

\* A waiting approval is decided.
Decide(n, decision) ==
    /\ "decide" \in Requests
    /\ n \notin Agent
    /\ node[n].phase = "waiting"
    /\ node[n].reason = "approval_required"
    /\ BeginAction(<<WriteNode(n, [node[n] EXCEPT
           !.phase = "completed", !.reason = "none", !.result = decision,
           !.concl = IF decision = "approved" THEN "succeeded" ELSE "rejected"])>>)

\* The same decision again only finalizes the Run, without an intent.
DecideAgain(n) ==
    /\ "decide" \in Requests
    /\ mutationMu
    /\ LeaseFree
    /\ todo = <<>>
    /\ n \notin Agent
    /\ node[n].result \in {"approved", "rejected"}
    /\ run.phase # "completed"
    /\ todo' = <<WriteRun(ActedRun)>>
    /\ act' = TRUE
    /\ UNCHANGED <<disk, exec, proc, ctl, obs, lau, can, ask, hbrec, faults>>

\* A retry or an answer makes the node ready for a new Attempt.
Reopen(n) ==
    /\ node[n].att \in 1..MaxAttempts - 1
    /\ BeginAction(<<WriteNode(n, [node[n] EXCEPT !.phase = "ready", !.concl = "none",
                                                  !.reason = "none", !.result = "none"])>>
                   \o planDownstreamReset(n))

Retry(n) ==
    /\ "retry" \in Requests
    /\ \/ /\ node[n].phase = "waiting"
          /\ node[n].reason \in {"agent_waiting_input", "completion_missing"}
       \/ node[n].phase = "completed" /\ node[n].concl \in {"failed", "indeterminate"}
    /\ Reopen(n)

Answer(n) ==
    /\ "answer" \in Requests
    /\ n \in Agent
    /\ node[n].phase = "waiting"
    /\ node[n].reason = "agent_waiting_input"
    /\ node[n].result = "questions"
    /\ Reopen(n)

\* The action is applied; its lease goes to a new controller.
ActionStartsController ==
    /\ act
    /\ todo = <<>>
    /\ act' = FALSE
    /\ ctl' = Controller("top")
    /\ UNCHANGED <<disk, exec, proc, todo, obs, lau, can, ask, hbrec, faults>>

-----------------------------------------------------------------------------
\* The process is killed, between any two writes.
Crash ==
    /\ proc # "down"
    /\ Fault("crash")
    /\ proc' = "down"
    /\ todo' = <<>>
    /\ ctl' = Controller("off")
    /\ obs' = NoObs
    /\ lau' = NoLaunch
    /\ can' = NoCancel
    /\ ask' = FALSE
    /\ act' = FALSE
    /\ hbrec' = FALSE
    /\ UNCHANGED <<disk, exec>>

\* The control plane starts.  Until Recover, the application service replays
\* the requests that its journal holds: the actions with an intent by
\* ReplayAction, those that were journalled only as if they were made now.
Restart ==
    /\ proc = "down"
    /\ proc' = "replay"
    /\ UNCHANGED <<disk, exec, todo, ctl, obs, lau, can, ask, act, hbrec, faults>>

\* resumeActionIntent: every node of the plan is written, again or for the
\* first time.  An action whose receipt is in the Run is not replayed.
ReplayAction ==
    /\ proc = "replay"
    /\ ReplayDue
    /\ todo = <<>>
    /\ todo' = intent.plan \o <<finalizeAction, WriteIntent(NoIntent)>>
    /\ act' = TRUE
    /\ UNCHANGED <<disk, exec, proc, ctl, obs, lau, can, ask, hbrec, faults>>

\* Mutant of Recover: a Run that waits is left alone.
RecoverRunning ==
    /\ proc = "replay"
    /\ todo = <<>>
    /\ mutationMu
    /\ proc' = "up"
    /\ IF ctl.pc = "off" /\ run.phase \in {"running", "paused"}
         THEN persistRun(RunningRun) /\ ctl' = RecoveredControl
         ELSE UNCHANGED <<run, req, ctl>>
    /\ UNCHANGED <<node, attempt, intent, exec, todo, obs, lau, can, ask, act, hbrec,
                   faults>>

\* Recover starts a controller for a Run that needs one and has none.
Recover ==
    /\ proc = "replay"
    /\ todo = <<>>
    /\ mutationMu
    /\ proc' = "up"
    /\ IF ctl.pc = "off" /\ runNeedsController
         THEN /\ ctl' = RecoveredControl
              /\ IF RecoveredRun # run
                 THEN persistRun(RecoveredRun) ELSE UNCHANGED <<run, req>>
         ELSE UNCHANGED <<run, req, ctl>>
    /\ UNCHANGED <<node, attempt, intent, exec, todo, obs, lau, can, ask, act, hbrec,
                   faults>>

-----------------------------------------------------------------------------
\* The steps that the engine takes by itself.
Engine ==
    \/ Write
    \/ ControlTop \/ ReconcileApply \/ ReconcileEnd \/ ScheduleBatch
    \/ LaunchSettle \/ PauseOnError \/ ControllerExit
    \/ HeartbeatRecover \/ HeartbeatHandsOff
    \/ MonitorFinds \/ CancelMark \/ CancelApply \/ CancelResolve
    \/ RecoverMark \/ RecoverTarget \/ RecoverCancel \/ RecoverFails \/ RecoverFinal
    \/ ActionStartsController
    \/ Restart \/ ReplayAction \/ Recover
    \/ \E n \in Agent :
         \/ ObserveLocal(n) \/ ObserveActive(n) \/ ObserveEnd(n)
         \/ ObserveGone(n) \/ ObserveTrouble(n)
         \/ LaunchBegin(n) \/ LaunchStart(n) \/ LaunchPersist(n)
         \/ CancelTarget(n)

\* What callers and the environment may do.
Outside ==
    \/ HeartbeatFails
    \/ CancelAsk
    \/ CancelReturns
    \/ CancelTakesLease
    \/ \E n \in Node : \E d \in {"approved", "rejected"} : Decide(n, d)
    \/ \E n \in Node : DecideAgain(n) \/ Retry(n) \/ Answer(n)
    \/ Crash

Next == Engine \/ Outside

Spec == Init /\ [][Next]_vars

-----------------------------------------------------------------------------
\* The goroutines of a live process run: the controller, its observers and its
\* launches, the handler of a cancellation and the polling caller.  Go's mutex
\* starves none of its waiters, hence strong fairness for those that need it;
\* and an execution that is observed again and again ends at some time.
ControlStep ==
    \/ ControlTop \/ ReconcileApply \/ ReconcileEnd \/ ScheduleBatch
    \/ LaunchSettle \/ PauseOnError \/ ControllerExit
    \/ RecoverMark \/ RecoverTarget \/ RecoverCancel \/ RecoverFails \/ RecoverFinal
    \/ HeartbeatRecover \/ HeartbeatHandsOff \/ ActionStartsController

AgentStep(n) ==
    \/ ObserveLocal(n) \/ ObserveActive(n) \/ ObserveEnd(n) \/ ObserveGone(n)
    \/ LaunchBegin(n) \/ LaunchStart(n) \/ LaunchPersist(n)

CancelStep ==
    \/ CancelMark \/ CancelApply \/ CancelResolve
    \/ \E n \in Agent : CancelTarget(n)

Fairness ==
    /\ WF_vars(Write)
    /\ SF_vars(ControlStep)
    /\ SF_vars(CancelStep)
    /\ WF_vars(MonitorFinds)
    /\ WF_vars(CancelTakesLease)
    /\ \A n \in Agent : SF_vars(AgentStep(n)) /\ SF_vars(ObserveEnd(n))

FairSpec == Spec /\ Fairness

-----------------------------------------------------------------------------
\* No thread of the engine has anything left to do for the Run.
Quiescent ==
    /\ proc = "up"
    /\ todo = <<>>
    /\ ctl.pc = "off"
    /\ can.pc = "off"
    /\ ~act
    /\ ~hbrec

\* The executions that occupy the Backend.
Live == {x \in Agent \X (1..MaxAttempts) : exec[x[1]][x[2]] = "live"}

\* An execution that still runs belongs to an Attempt that left the state
\* prepared, and neither that Attempt nor its node has been given a conclusion
\* other than indeterminate.  This is what makes it right to count a prepared
\* Attempt as cancelled while its launch is on its way (cancelTarget against
\* beginBackendLaunch), and what a crash between two writes may not break.
ConcludedIsOver ==
    \A x \in Live :
      LET n == x[1]
          k == x[2]
      IN  /\ attempt[n][k] # NoAttempt
          /\ attempt[n][k].launch # "prepared"
          /\ attempt[n][k].concl \in {"none", "indeterminate"}
          /\ node[n].att = k => node[n].concl \in {"none", "indeterminate"}

\* A plan that was made durable and is not yet recorded in the Run.
Planned == intent.plan # <<>> /\ ~intent.receipt

\* A completed Run has only ended nodes, unless the plan of an action that
\* reopens it is durable: aggregation, cancellation and the action intent agree
\* on that at every write, so also at every crash.
RunEndsKnown ==
    run.phase = "completed" /\ ~Planned => \A n \in Node : Terminal(node[n])

\* A node that succeeded is never touched again: a result that was applied is
\* not overwritten by a cancellation that was under way (finishResult against
\* applyCancellationOutcomes), nor by a replayed action.
SucceededIsFinal ==
    [][\A n \in Node : node[n].concl = "succeeded" => node'[n] = node[n]]_vars

\* A completed Run is reopened by an action of the user only, never by a
\* controller, a cancellation or a recovery that read it before it completed.
CompletedIsFinal ==
    [][run.phase = "completed" /\ run'.phase # "completed" => act]_vars

\* When no thread works on the Run any more it waits or it is completed: a Run
\* that still says it is running, paused or cancelling has a controller.
ControlledWhileRunning == Quiescent => run.phase \in {"waiting", "completed"}

\* A waiting Run at rest has a node that waits, which an action can move on.
WaitingIsActionable ==
    Quiescent /\ run.phase = "waiting" => \E n \in Node : node[n].phase = "waiting"

\* No intent outlives its action: once the action is recorded in the Run and
\* nothing works on the Run, the intent is gone and other actions are accepted.
IntentIsSpent == Quiescent => intent = NoIntent

\* The Run is cancelled only when the executions of all its nodes have ended,
\* those excepted that were declared indeterminate before.
CancelledIsHonest ==
    run.phase = "completed" /\ run.concl = "cancelled" /\ ~Planned =>
      \A n \in Agent : node[n].att > 0 /\ Execution(n) = "live"
                         => node[n].concl = "indeterminate"

\* The nodes that occupy a slot never exceed the effective limit.
LimitRespected ==
    Cardinality({n \in Agent : node[n].phase \in {"running", "waiting"} /\ node[n].att > 0})
      <= EffectiveConcurrency

\* A node gets an Attempt only when all its dependencies have ended, and if
\* one of them failed only because the node's condition allows for it.
StartsAfterDeps ==
    [][\A n \in Node : node'[n].att > node[n].att =>
         \A d \in Deps[n] : /\ Terminal(node[d])
                            /\ node[d].concl \in Failing => When[n] # NoCondition]_vars

\* A controller comes to rest: it waits for a human or completes the Run.
ControllerRests == ctl.pc # "off" ~> ctl.pc = "off"

\* Every request for a cancellation is answered, by the controller's monitor or
\* by the caller that takes over the lease.
CancelIsAnswered == req # "none" ~> req = "none"
=============================================================================
