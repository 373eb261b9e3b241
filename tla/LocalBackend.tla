---------------------------- MODULE LocalBackend ----------------------------
(***************************************************************************)
(* The life of LocalBackend (server/jobs/local/local_backend.go): Run,     *)
(* Shutdown, Stop and Wait called by anybody at any time, and the periodic *)
(* jobs of its queue.                                                      *)
(*                                                                         *)
(* A step is one critical section of startMu or periodicMu, one channel    *)
(* operation, or one access to a field without a lock.  What a job goes    *)
(* through inside the queue is the subject of LocalQueue; here the queue   *)
(* is its buffer and its done channel, and every Run has one worker.       *)
(***************************************************************************)
EXTENDS Naturals, Sequences

CONSTANTS
  RunCall,       \* calls of Run
  StopCall,      \* calls of Stop
  Observer,      \* calls of Shutdown or Wait
  ShutdownCall,  \* those that are Shutdown
  Periodic,      \* calls of AddPeriodic
  MaxTicks,      \* bound: ticks of a periodic
  Buffer,        \* capacity of q.jobs
  None           \* no Run

ASSUME BackendAssumption ==
  /\ ShutdownCall \subseteq Observer /\ StopCall \cap Observer = {}
  /\ MaxTicks \in Nat /\ Buffer \in Nat
  /\ None \notin RunCall

VARIABLES
  started,     \* b.started
  order,       \* the Runs that were let in: the fields hold what the last one made
  rpc,         \* where a Run is
  deferred,    \* the Run whose runDone channel a Run closes at its end
  closed,      \* runDone channels that are closed
  cancelled,   \* Runs whose context is cancelled
  drains,      \* Runs whose drain channel is closed (b.drained)
  qdone,        \* q.done is closed
  worker,      \* the worker of a Run
  jobs,        \* jobs in the buffer of the queue
  spc,         \* where a Stop is
  opc,         \* where a Shutdown or Wait is
  target       \* the Run a Stop cancels, or an observer waits for

lifecycle == <<started, order, rpc, deferred, closed, cancelled, drains, spc, opc, target>>

VARIABLES
  apc,         \* where an AddPeriodic is
  watcher,     \* the goroutine that cancels and forgets a periodic
  loop,        \* runInterval or runCron
  gone,        \* periodics whose context is cancelled
  periodics,   \* q.periodics
  ticks        \* ticks so far

periodicVars == <<apc, watcher, loop, gone, periodics, ticks>>
backendVars == <<lifecycle, qdone, worker, jobs, periodicVars>>

-----------------------------------------------------------------------------
Latest == IF order = <<>> THEN None ELSE order[Len(order)]
\* The Runs let in since r, r among them.
Since(r) ==
  {order[i] : i \in {i \in DOMAIN order : \E k \in DOMAIN order : order[k] = r /\ k <= i}}

BackendTypeOK ==
  /\ started \in BOOLEAN /\ qdone \in BOOLEAN
  /\ order \in Seq(RunCall)
  /\ rpc \in [RunCall -> {"idle", "refused", "open", "select", "join", "returned"}]
  /\ deferred \in [RunCall -> RunCall \cup {None}]
  /\ closed \subseteq RunCall /\ cancelled \subseteq RunCall /\ drains \subseteq RunCall
  /\ worker \in [RunCall -> {"off", "idle", "busy", "exited"}]
  /\ jobs \in 0 .. Buffer
  /\ spc \in [StopCall -> {"idle", "cancel", "ok", "error"}]
  /\ opc \in [Observer -> {"idle", "waiting", "ok", "timeout"}]
  /\ target \in [StopCall \cup Observer -> RunCall \cup {None}]
  /\ apc \in [Periodic -> {"idle", "register", "returned"}]
  /\ watcher \in [Periodic -> {"off", "watch", "forget", "exited"}]
  /\ loop \in [Periodic -> {"off", "select", "submit", "send", "exited"}]
  /\ gone \subseteq Periodic /\ periodics \subseteq Periodic
  /\ ticks \in [Periodic -> 0 .. MaxTicks]

BackendInit ==
  /\ started = FALSE /\ qdone = FALSE /\ order = <<>> /\ jobs = 0
  /\ rpc = [r \in RunCall |-> "idle"] /\ deferred = [r \in RunCall |-> None]
  /\ closed = {} /\ cancelled = {} /\ drains = {}
  /\ worker = [r \in RunCall |-> "off"]
  /\ spc = [s \in StopCall |-> "idle"] /\ opc = [o \in Observer |-> "idle"]
  /\ target = [c \in StopCall \cup Observer |-> None]
  /\ apc = [p \in Periodic |-> "idle"] /\ watcher = [p \in Periodic |-> "off"]
  /\ loop = [p \in Periodic |-> "off"] /\ gone = {} /\ periodics = {}
  /\ ticks = [p \in Periodic |-> 0]

-----------------------------------------------------------------------------
(* Run takes startMu: it is refused, or makes a context and two channels. *)
RunLock(r) ==
  /\ rpc[r] = "idle"
  /\ IF started
     THEN rpc' = [rpc EXCEPT ![r] = "refused"] /\ UNCHANGED <<started, order>>
     ELSE /\ rpc' = [rpc EXCEPT ![r] = "open"]
          /\ started' = TRUE /\ order' = Append(order, r)
  /\ UNCHANGED <<deferred, closed, cancelled, drains, qdone, worker, jobs, spc, opc, target, periodicVars>>

(* `defer close(b.runDone)` reads the field now, without startMu: it may find the *)
(* channel of a later Run.  Then the workers start.                               *)
RunDefer(r) ==
  /\ rpc[r] = "open"
  /\ rpc' = [rpc EXCEPT ![r] = "select"]
  /\ \E late \in Since(r) : deferred' = [deferred EXCEPT ![r] = late]
  /\ worker' = [worker EXCEPT ![r] = "idle"]
  /\ UNCHANGED <<started, order, closed, cancelled, drains, qdone, jobs, spc, opc, target, periodicVars>>

(* Cancelled or drained, Run closes the queue. *)
RunSignal(r) ==
  /\ rpc[r] = "select"
  /\ r \in cancelled \cup drains
  /\ rpc' = [rpc EXCEPT ![r] = "join"]
  /\ qdone' = TRUE
  /\ UNCHANGED <<started, order, deferred, closed, cancelled, drains, worker, jobs, spc, opc, target, periodicVars>>

\* Mutant: Run does not wait for its workers.
RunReturnAtOnce(r) ==
  /\ rpc[r] = "join" /\ deferred[r] \notin closed
  /\ rpc' = [rpc EXCEPT ![r] = "returned"]
  /\ closed' = closed \cup {deferred[r]}
  /\ UNCHANGED <<started, order, deferred, cancelled, drains, qdone, worker, jobs, spc, opc, target, periodicVars>>
(* The workers have exited.  To close a channel again would be a panic, which ends *)
(* the process: the Run stays where it is, and what others do until then goes on.  *)
RunReturn(r) ==
  /\ rpc[r] = "join" /\ worker[r] = "exited" /\ deferred[r] \notin closed
  /\ rpc' = [rpc EXCEPT ![r] = "returned"]
  /\ closed' = closed \cup {deferred[r]}
  /\ UNCHANGED <<started, order, deferred, cancelled, drains, qdone, worker, jobs, spc, opc, target, periodicVars>>

(* Whoever called Run may cancel its context. *)
RunCallerCancels(r) ==
  /\ rpc[r] \in {"open", "select"} /\ r \notin cancelled
  /\ cancelled' = cancelled \cup {r}
  /\ UNCHANGED <<started, order, rpc, deferred, closed, drains, qdone, worker, jobs, spc, opc, target, periodicVars>>

(* The worker selects between done, its context and the buffer. *)
TakeJob(r) ==
  /\ worker[r] = "idle" /\ jobs > 0
  /\ worker' = [worker EXCEPT ![r] = "busy"]
  /\ jobs' = jobs - 1
  /\ UNCHANGED <<lifecycle, qdone, periodicVars>>
FinishJob(r) ==
  /\ worker[r] = "busy"
  /\ worker' = [worker EXCEPT ![r] = "idle"]
  /\ UNCHANGED <<lifecycle, qdone, jobs, periodicVars>>
WorkerReturns(r) ==
  /\ worker[r] = "idle" /\ (qdone \/ r \in cancelled)
  /\ worker' = [worker EXCEPT ![r] = "exited"]
  /\ UNCHANGED <<lifecycle, qdone, jobs, periodicVars>>

-----------------------------------------------------------------------------
(* Stop is refused, or takes the cancel function of the latest Run and calls it later. *)
StopLock(s) ==
  /\ spc[s] = "idle"
  /\ IF started
     THEN /\ spc' = [spc EXCEPT ![s] = "cancel"] /\ target' = [target EXCEPT ![s] = Latest]
          /\ started' = FALSE
     ELSE spc' = [spc EXCEPT ![s] = "error"] /\ UNCHANGED <<target, started>>
  /\ UNCHANGED <<order, rpc, deferred, closed, cancelled, drains, qdone, worker, jobs, opc, periodicVars>>
StopCancel(s) ==
  /\ spc[s] = "cancel"
  /\ spc' = [spc EXCEPT ![s] = "ok"]
  /\ cancelled' = cancelled \cup {target[s]}
  /\ UNCHANGED <<started, order, rpc, deferred, closed, drains, qdone, worker, jobs, opc, target, periodicVars>>

(* Shutdown and Wait take the channel of the latest Run; Shutdown asks for a drain. *)
Observe(o) ==
  /\ opc[o] = "idle"
  /\ target' = [target EXCEPT ![o] = Latest]
  /\ opc' = [opc EXCEPT ![o] = IF order = <<>> THEN "ok" ELSE "waiting"]
  /\ drains' = IF o \in ShutdownCall /\ order # <<>> THEN drains \cup {Latest} ELSE drains
  /\ UNCHANGED <<started, order, rpc, deferred, closed, cancelled, qdone, worker, jobs, spc, periodicVars>>
ObserveDone(o) ==
  /\ opc[o] = "waiting" /\ target[o] \in closed
  /\ opc' = [opc EXCEPT ![o] = "ok"]
  /\ UNCHANGED <<started, order, rpc, deferred, closed, cancelled, drains, qdone, worker, jobs, spc, target, periodicVars>>
ObserveTimeout(o) ==
  /\ opc[o] = "waiting"
  /\ opc' = [opc EXCEPT ![o] = "timeout"]
  /\ UNCHANGED <<started, order, rpc, deferred, closed, cancelled, drains, qdone, worker, jobs, spc, target, periodicVars>>

-----------------------------------------------------------------------------
(* AddPeriodic starts the goroutine that forgets the periodic, registers it, and *)
(* starts its loop.                                                              *)
AddPeriodic(p) ==
  /\ apc[p] = "idle"
  /\ apc' = [apc EXCEPT ![p] = "register"]
  /\ watcher' = [watcher EXCEPT ![p] = "watch"]
  /\ UNCHANGED <<lifecycle, qdone, worker, jobs, loop, gone, periodics, ticks>>
Register(p) ==
  /\ apc[p] = "register"
  /\ periodics' = periodics \cup {p}
  /\ apc' = [apc EXCEPT ![p] = "returned"]
  /\ loop' = [loop EXCEPT ![p] = "select"]
  /\ UNCHANGED <<lifecycle, qdone, worker, jobs, watcher, gone, ticks>>

\* Mutant: the goroutine hears of the context of the periodic only.
WatchContext(p) ==
  /\ watcher[p] = "watch" /\ p \in gone
  /\ watcher' = [watcher EXCEPT ![p] = "forget"]
  /\ UNCHANGED <<lifecycle, qdone, worker, jobs, apc, loop, gone, periodics, ticks>>
(* The queue is done, or the context of the periodic is: cancelled either way. *)
WatchPeriodic(p) ==
  /\ watcher[p] = "watch" /\ (qdone \/ p \in gone)
  /\ watcher' = [watcher EXCEPT ![p] = "forget"]
  /\ gone' = gone \cup {p}
  /\ UNCHANGED <<lifecycle, qdone, worker, jobs, apc, loop, periodics, ticks>>
ForgetPeriodic(p) ==
  /\ watcher[p] = "forget"
  /\ watcher' = [watcher EXCEPT ![p] = "exited"]
  /\ periodics' = periodics \ {p}
  /\ UNCHANGED <<lifecycle, qdone, worker, jobs, apc, loop, gone, ticks>>

(* Whoever called AddPeriodic may cancel its context at any time. *)
PeriodicCallerCancels(p) ==
  /\ p \notin gone
  /\ gone' = gone \cup {p}
  /\ UNCHANGED <<lifecycle, qdone, worker, jobs, apc, watcher, loop, periodics, ticks>>

(* Without an entry it is refused and changes nothing. *)
RemovePeriodic(p) ==
  /\ apc[p] = "returned" /\ p \in periodics
  /\ gone' = gone \cup {p} /\ periodics' = periodics \ {p}
  /\ UNCHANGED <<lifecycle, qdone, worker, jobs, apc, watcher, loop, ticks>>

LoopExit(p) ==
  /\ loop[p] = "select" /\ p \in gone
  /\ loop' = [loop EXCEPT ![p] = "exited"]
  /\ UNCHANGED <<lifecycle, qdone, worker, jobs, apc, watcher, gone, periodics, ticks>>
Tick(p) ==
  /\ loop[p] = "select" /\ ticks[p] < MaxTicks
  /\ loop' = [loop EXCEPT ![p] = "submit"]
  /\ ticks' = [ticks EXCEPT ![p] = @ + 1]
  /\ UNCHANGED <<lifecycle, qdone, worker, jobs, apc, watcher, gone, periodics>>
(* Submit: the fast path refuses once the queue is done, and the error is dropped. *)
SubmitFast(p) ==
  /\ loop[p] = "submit"
  /\ loop' = [loop EXCEPT ![p] = IF qdone THEN "select" ELSE "send"]
  /\ UNCHANGED <<lifecycle, qdone, worker, jobs, apc, watcher, gone, periodics, ticks>>
SubmitSend(p) ==
  /\ loop[p] = "send" /\ jobs < Buffer
  /\ jobs' = jobs + 1
  /\ loop' = [loop EXCEPT ![p] = "select"]
  /\ UNCHANGED <<lifecycle, qdone, worker, apc, watcher, gone, periodics, ticks>>
SubmitGiveUp(p) ==
  /\ loop[p] = "send" /\ (qdone \/ p \in gone)
  /\ loop' = [loop EXCEPT ![p] = "select"]
  /\ UNCHANGED <<lifecycle, qdone, worker, jobs, apc, watcher, gone, periodics, ticks>>

(* Other callers submit too. *)
SubmitByOthers ==
  /\ ~qdone /\ jobs < Buffer
  /\ jobs' = jobs + 1
  /\ UNCHANGED <<lifecycle, qdone, worker, periodicVars>>

-----------------------------------------------------------------------------
RunSteps(r) == RunDefer(r) \/ RunSignal(r) \/ RunReturn(r)
LoopSteps(p) == SubmitFast(p) \/ SubmitSend(p) \/ SubmitGiveUp(p)

BackendNext ==
  \/ \E r \in RunCall :
       \/ RunLock(r) \/ RunSteps(r) \/ RunCallerCancels(r)
       \/ TakeJob(r) \/ FinishJob(r) \/ WorkerReturns(r)
  \/ \E s \in StopCall : StopLock(s) \/ StopCancel(s)
  \/ \E o \in Observer : Observe(o) \/ ObserveDone(o) \/ ObserveTimeout(o)
  \/ \E p \in Periodic :
       \/ AddPeriodic(p) \/ Register(p) \/ WatchPeriodic(p) \/ ForgetPeriodic(p) \/ PeriodicCallerCancels(p)
       \/ RemovePeriodic(p) \/ LoopExit(p) \/ Tick(p) \/ LoopSteps(p)
  \/ SubmitByOthers

BackendSpec == BackendInit /\ [][BackendNext]_backendVars

(* The goroutines of a periodic run when they can, and a select with several *)
(* branches ready takes each of them in the end.  The others may stop.        *)
BackendFairness ==
  \A p \in Periodic :
    /\ WF_backendVars(Register(p)) /\ WF_backendVars(WatchPeriodic(p)) /\ WF_backendVars(ForgetPeriodic(p))
    /\ WF_backendVars(LoopSteps(p)) /\ SF_backendVars(LoopExit(p))
FairBackendSpec == BackendSpec /\ BackendFairness

-----------------------------------------------------------------------------
(* A Run that took the channel of a later one. *)
Mixed == \E r \in RunCall : deferred[r] \notin {r, None}

(* jobs.go: "Wait blocks until Run has returned (workers exited and shutdown      *)
(* finished)", and so does Shutdown: whoever got nil has seen the Run end that was *)
(* the latest when it asked, whatever Runs and Stops came after, unless a Run took *)
(* the channel of a later one.  A nil before any Run says nothing.                 *)
EndIsSeen ==
  ~Mixed =>
    \A o \in Observer :
      opc[o] = "ok" /\ target[o] # None => rpc[target[o]] = "returned" /\ worker[target[o]] = "exited"

(* The goroutines of a periodic end once it is cancelled or the queue is done, *)
(* also when one of them is blocked in a Submit with a full buffer.            *)
PeriodicsEnd ==
  \A p \in Periodic :
    apc[p] # "idle" /\ (qdone \/ p \in gone) ~> watcher[p] = "exited" /\ loop[p] = "exited"
=============================================================================
