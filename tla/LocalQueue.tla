----------------------------- MODULE LocalQueue -----------------------------
(***************************************************************************)
(* One in-process job queue: localQueue of                                 *)
(* server/jobs/local/local_backend.go.                                     *)
(*                                                                         *)
(* Every Submit, Cancel, Delete and Watch call is a goroutine of its own   *)
(* and every worker runs execute.  A step is one critical section of one   *)
(* goroutine (registryMu, uniqueMu, one jobEntry.mu) or one channel        *)
(* operation; between two steps any other goroutine may run.               *)
(***************************************************************************)
EXTENDS Naturals, Sequences, FiniteSets

CONSTANTS
  Job,        \* one element per Submit call (a fresh uuid each)
  NoJob,      \* no job
  KeyOf,      \* dedup key of a job, NoKey when Opts.Unique is false
  NoKey,
  Parent,     \* job whose worker calls Submit for this one, or NoJob
  Worker,     \* worker goroutines of the queue
  Canceller,  \* goroutines that call Cancel, each once
  Deleter,    \* goroutines that call Delete, each once
  Watcher,    \* goroutines that call Watch, each once
  Capacity,   \* buffer of the q.jobs channel (100_000 in the code)
  Deadlines,  \* jobs submitted with a Deadline
  MayShutdown, MayStop,   \* whether the backend may be drained, stopped
  MayLeave    \* callers whose Submit context may be cancelled

ASSUME QueueAssumption ==
  /\ NoJob \notin Job
  /\ Worker # {}
  /\ Capacity \in Nat \ {0}
  /\ Parent \in [Job -> Job \cup {NoJob}]
  /\ DOMAIN KeyOf = Job
  /\ MayShutdown \in BOOLEAN /\ MayStop \in BOOLEAN
  /\ Deadlines \subseteq Job /\ MayLeave \subseteq Job

Terminal == {"succeeded", "failed", "cancelled"}
State == {"none", "queued", "running"} \cup Terminal

VARIABLES
  chan,        \* q.jobs
  done,        \* q.done is closed
  ctxDone,     \* the context of Backend.Run is cancelled
  uniqueJobs,  \* q.uniqueJobs
  registry,    \* keys of q.registry
  state,       \* entry.status.State; the entry outlives its registry row
  cancelReq,   \* jobs whose entry.cancelRequested is set
  cancelRun,   \* jobs whose entry.cancelRun is not nil
  runCancel,   \* jobs whose per-run context was cancelled
  outcome,     \* history: terminal states ever published for the job
  doomed,      \* history: jobs cancelled while they were in the channel
  sub,         \* program counter of each Submit call
  wpc, wjob, wentry,           \* execute: counter, job, "entry != nil"
  cpc, cjob, csaw,             \* Cancel: counter, job, state it saw
  dpc, djob,                   \* Delete: counter, job
  watch, watchJob, lastEvent   \* Watch: "idle", "open" or "closed", job, event

queueVars   == <<chan, done, ctxDone>>
entryVars   == <<state, outcome, watch, lastEvent>>
flagVars    == <<cancelReq, doomed, cancelRun, runCancel>>
workerVars  == <<wpc, wjob, wentry>>
cancelVars  == <<cpc, cjob, csaw>>
deleteVars  == <<dpc, djob>>
vars == <<queueVars, uniqueJobs, registry, entryVars, flagVars, sub,
          workerVars, cancelVars, deleteVars, watchJob>>

SubPc == {"idle", "open", "keyed", "dup", "dupListed", "enqueue", "unlist",
          "unkey", "accepted", "duplicate", "refused"}
Returned == {"accepted", "duplicate", "refused"}
\* A counter in Terminal: execute is about to publish that state.
WorkerPc == {"idle", "lookup", "deadline", "arm", "start", "running",
             "release", "exited"} \cup Terminal
Busy == WorkerPc \ {"idle", "exited"}

InChan(j)      == \E i \in 1..Len(chan) : chan[i] = j
OnWorker(w, j) == wpc[w] \in Busy /\ wjob[w] = j
Running(j)     == \E w \in Worker : wpc[w] = "running" /\ wjob[w] = j
RunCtxDone(j)  == ctxDone \/ j \in runCancel

TypeOK ==
  /\ chan \in Seq(Job) /\ Len(chan) <= Capacity
  /\ done \in BOOLEAN /\ ctxDone \in BOOLEAN
  /\ uniqueJobs \subseteq {KeyOf[j] : j \in Job}
  /\ registry \subseteq Job
  /\ state \in [Job -> State]
  /\ cancelReq \subseteq Job /\ doomed \subseteq Job /\ cancelRun \subseteq Job /\ runCancel \subseteq Job
  /\ outcome \in [Job -> SUBSET Terminal]
  /\ sub \in [Job -> SubPc]
  /\ wpc \in [Worker -> WorkerPc]
  /\ wjob \in [Worker -> Job \cup {NoJob}]
  /\ \A w \in Worker : wpc[w] \in Busy => wjob[w] \in Job
  /\ wentry \in [Worker -> BOOLEAN]
  /\ cpc \in [Canceller -> {"idle", "signal", "signalled", "returned"}]
  /\ cjob \in [Canceller -> Job \cup {NoJob}]
  /\ \A c \in Canceller : cpc[c] # "idle" => cjob[c] \in Job
  /\ csaw \in [Canceller -> State]
  /\ dpc \in [Deleter -> {"idle", "unlist", "returned"}]
  /\ djob \in [Deleter -> Job \cup {NoJob}]
  /\ \A d \in Deleter : dpc[d] = "unlist" => djob[d] \in Job
  /\ watch \in [Watcher -> {"idle", "open", "closed"}]
  /\ watchJob \in [Watcher -> Job \cup {NoJob}]
  /\ lastEvent \in [Watcher -> State]

Init ==
  /\ chan = <<>> /\ done = FALSE /\ ctxDone = FALSE
  /\ uniqueJobs = {} /\ registry = {}
  /\ state = [j \in Job |-> "none"] /\ outcome = [j \in Job |-> {}]
  /\ cancelReq = {} /\ doomed = {} /\ cancelRun = {} /\ runCancel = {}
  /\ sub = [j \in Job |-> "idle"]
  /\ wpc = [w \in Worker |-> "idle"] /\ wjob = [w \in Worker |-> NoJob]
  /\ wentry = [w \in Worker |-> FALSE]
  /\ cpc = [c \in Canceller |-> "idle"] /\ cjob = [c \in Canceller |-> NoJob]
  /\ csaw = [c \in Canceller |-> "none"]
  /\ dpc = [d \in Deleter |-> "idle"] /\ djob = [d \in Deleter |-> NoJob]
  /\ watch = [x \in Watcher |-> "idle"] /\ watchJob = [x \in Watcher |-> NoJob]
  /\ lastEvent = [x \in Watcher |-> "none"]

-----------------------------------------------------------------------------
(* updateStatus: publish s for job j to its entry and to the entry's        *)
(* watchers; a terminal state also closes them.  Nothing when the job's     *)
(* record is gone.                                                          *)
Attached(x, j) == watch[x] = "open" /\ watchJob[x] = j

\* Mutant: a terminal state leaves the watchers' channels open.
updateStatusLeavesOpen(j, s) ==
  \/ /\ j \in registry
     /\ state' = [state EXCEPT ![j] = s]
     /\ outcome' = [outcome EXCEPT ![j] = @ \cup ({s} \cap Terminal)]
     /\ lastEvent' = [x \in Watcher |-> IF Attached(x, j) THEN s ELSE lastEvent[x]]
     /\ UNCHANGED watch
  \/ /\ j \notin registry
     /\ UNCHANGED entryVars

updateStatus(j, s) ==
  \/ /\ j \in registry
     /\ state' = [state EXCEPT ![j] = s]
     /\ outcome' = [outcome EXCEPT ![j] = @ \cup ({s} \cap Terminal)]
     /\ lastEvent' = [x \in Watcher |-> IF Attached(x, j) THEN s ELSE lastEvent[x]]
     /\ watch' = [x \in Watcher |-> IF Attached(x, j) /\ s \in Terminal
                                    THEN "closed" ELSE watch[x]]
  \/ /\ j \notin registry
     /\ UNCHANGED entryVars

(* registerJob *)
registerJob(j) ==
  /\ registry' = registry \cup {j}
  /\ state' = [state EXCEPT ![j] = "queued"]
  /\ UNCHANGED <<outcome, watch, lastEvent>>

-----------------------------------------------------------------------------
(* Submit(j) *)
SubmitAt(j, from, to) == sub[j] = from /\ sub' = [sub EXCEPT ![j] = to]

submitFrame == <<flagVars, workerVars, cancelVars, deleteVars, watchJob, done, ctxDone>>

(* The first select: refuse when q.done is already closed. A child job is    *)
(* submitted by its parent's worker, while that worker runs the parent.      *)
SubmitStart(j) ==
  /\ Parent[j] # NoJob => Running(Parent[j])
  /\ SubmitAt(j, "idle", IF done THEN "refused" ELSE "open")
  /\ UNCHANGED <<submitFrame, chan, uniqueJobs, registry, entryVars>>

(* The section under uniqueMu: take the dedup key or find it taken. *)
SubmitKey(j) ==
  /\ KeyOf[j] # NoKey
  /\ \/ /\ KeyOf[j] \in uniqueJobs
        /\ SubmitAt(j, "open", "dup")
        /\ UNCHANGED uniqueJobs
     \/ /\ KeyOf[j] \notin uniqueJobs
        /\ SubmitAt(j, "open", "keyed")
        /\ uniqueJobs' = uniqueJobs \cup {KeyOf[j]}
  /\ UNCHANGED <<submitFrame, chan, registry, entryVars>>

(* registerJob, of an ordinary job and of a duplicate. *)
SubmitRegister(j) ==
  /\ \/ KeyOf[j] = NoKey /\ SubmitAt(j, "open", "enqueue")
     \/ SubmitAt(j, "keyed", "enqueue")
     \/ SubmitAt(j, "dup", "dupListed")
  /\ registerJob(j)
  /\ UNCHANGED <<submitFrame, chan, uniqueJobs>>

\* Mutant: the duplicate's early return releases the owner's key.
SubmitDuplicateReleases(j) ==
  /\ SubmitAt(j, "dupListed", "duplicate")
  /\ updateStatus(j, "cancelled")
  /\ uniqueJobs' = uniqueJobs \ {KeyOf[j]}
  /\ UNCHANGED <<submitFrame, chan, registry>>

SubmitDuplicate(j) ==
  /\ SubmitAt(j, "dupListed", "duplicate")
  /\ updateStatus(j, "cancelled")
  /\ UNCHANGED <<submitFrame, chan, uniqueJobs, registry>>

(* The second select. When several cases are ready Go picks any of them. *)
CallerGone(j) ==
  IF Parent[j] = NoJob THEN j \in MayLeave ELSE RunCtxDone(Parent[j])

SubmitEnqueue(j) ==
  /\ Len(chan) < Capacity
  /\ SubmitAt(j, "enqueue", "accepted")
  /\ chan' = Append(chan, j)
  /\ UNCHANGED <<submitFrame, uniqueJobs, registry, entryVars>>

SubmitAbort(j) ==
  /\ done \/ CallerGone(j)
  /\ SubmitAt(j, "enqueue", "unlist")
  /\ UNCHANGED <<submitFrame, chan, uniqueJobs, registry, entryVars>>

(* cleanupFailedSubmit: the registry row first, the dedup key after it. *)
CleanupEntry(j) ==
  /\ SubmitAt(j, "unlist", IF KeyOf[j] = NoKey THEN "refused" ELSE "unkey")
  /\ registry' = registry \ {j}
  /\ UNCHANGED <<submitFrame, chan, uniqueJobs, entryVars>>

CleanupKey(j) ==
  /\ SubmitAt(j, "unkey", "refused")
  /\ uniqueJobs' = uniqueJobs \ {KeyOf[j]}
  /\ UNCHANGED <<submitFrame, chan, registry, entryVars>>

Submit(j) ==
  \/ SubmitKey(j) \/ SubmitRegister(j) \/ SubmitDuplicate(j)
  \/ SubmitEnqueue(j) \/ SubmitAbort(j) \/ CleanupEntry(j) \/ CleanupKey(j)

-----------------------------------------------------------------------------
(* The worker loop and execute *)
WorkerAt(w, from, to) == wpc[w] = from /\ wpc' = [wpc EXCEPT ![w] = to]

workerFrame == <<sub, cancelReq, doomed, runCancel, cancelVars, deleteVars,
                 watchJob, done, ctxDone>>

WorkerTake(w) ==
  /\ chan # <<>>
  /\ WorkerAt(w, "idle", "lookup")
  /\ wjob' = [wjob EXCEPT ![w] = Head(chan)]
  /\ chan' = Tail(chan)
  /\ UNCHANGED <<workerFrame, uniqueJobs, registry, entryVars, cancelRun, wentry>>

\* Mutant: the worker loop has no case for q.done.
WorkerExitStopOnly(w) ==
  /\ ctxDone
  /\ WorkerAt(w, "idle", "exited")
  /\ UNCHANGED <<workerFrame, chan, uniqueJobs, registry, entryVars, cancelRun, wjob, wentry>>

WorkerExit(w) ==
  /\ done \/ ctxDone
  /\ WorkerAt(w, "idle", "exited")
  /\ UNCHANGED <<workerFrame, chan, uniqueJobs, registry, entryVars, cancelRun, wjob, wentry>>

(* Fetch the entry and read cancelRequested; a job without an entry skips   *)
(* the check.                                                               *)
WorkerLookup(w) ==
  /\ WorkerAt(w, "lookup", IF wjob[w] \in registry \cap cancelReq
                           THEN "cancelled" ELSE "deadline")
  /\ wentry' = [wentry EXCEPT ![w] = wjob[w] \in registry]
  /\ UNCHANGED <<workerFrame, chan, uniqueJobs, registry, entryVars, cancelRun, wjob>>

\* Mutant: a job past its deadline is skipped without a status update.
WorkerDeadlineSilent(w) ==
  /\ \/ wjob[w] \in Deadlines /\ WorkerAt(w, "deadline", "release")
     \/ WorkerAt(w, "deadline", "arm")
  /\ UNCHANGED <<workerFrame, chan, uniqueJobs, registry, entryVars, cancelRun, wjob, wentry>>

WorkerDeadline(w) ==
  /\ \/ wjob[w] \in Deadlines /\ WorkerAt(w, "deadline", "cancelled")
     \/ WorkerAt(w, "deadline", "arm")
  /\ UNCHANGED <<workerFrame, chan, uniqueJobs, registry, entryVars, cancelRun, wjob, wentry>>

\* Mutant: cancelRun is not installed before the job is seen running.
WorkerArmLate(w) ==
  /\ WorkerAt(w, "arm", "start")
  /\ UNCHANGED <<workerFrame, chan, uniqueJobs, registry, entryVars, cancelRun, wjob, wentry>>

WorkerArm(w) ==
  /\ WorkerAt(w, "arm", "start")
  /\ cancelRun' = IF wentry[w] THEN cancelRun \cup {wjob[w]} ELSE cancelRun
  /\ UNCHANGED <<workerFrame, chan, uniqueJobs, registry, entryVars, wjob, wentry>>

\* Mutant: a job that starts gives its dedup key back.
WorkerStartReleases(w) ==
  /\ WorkerAt(w, "start", "running")
  /\ updateStatus(wjob[w], "running")
  /\ uniqueJobs' = uniqueJobs \ {KeyOf[wjob[w]]}
  /\ UNCHANGED <<workerFrame, chan, registry, cancelRun, wjob, wentry>>

(* updateStatus(Running), then runner.Run begins. *)
WorkerStart(w) ==
  /\ WorkerAt(w, "start", "running")
  /\ updateStatus(wjob[w], "running")
  /\ UNCHANGED <<workerFrame, chan, uniqueJobs, registry, cancelRun, wjob, wentry>>

(* runner.Run returns, with an error or without one, after every Submit it   *)
(* made; then the section that clears cancelRun and reads cancelRequested.   *)
SubmittingChild(j) ==
  \E k \in Job : Parent[k] = j /\ sub[k] \notin {"idle"} \cup Returned

WorkerReturn(w) ==
  /\ ~SubmittingChild(wjob[w])
  /\ IF wentry[w] /\ wjob[w] \in cancelReq
     THEN WorkerAt(w, "running", "cancelled")
     ELSE \E s \in {"succeeded", "failed"} : WorkerAt(w, "running", s)
  /\ cancelRun' = IF wentry[w] THEN cancelRun \ {wjob[w]} ELSE cancelRun
  /\ UNCHANGED <<workerFrame, chan, uniqueJobs, registry, entryVars, wjob, wentry>>

(* The locals of execute go out of scope. *)
Forget(w) ==
  /\ wjob' = [wjob EXCEPT ![w] = NoJob]
  /\ wentry' = [wentry EXCEPT ![w] = FALSE]

\* Mutant: the worker loop ends when execute returns an error.
WorkerFinishDies(w) ==
  /\ wpc[w] \in Terminal
  /\ updateStatus(wjob[w], wpc[w])
  /\ \/ KeyOf[wjob[w]] = NoKey /\ Forget(w)
        /\ WorkerAt(w, wpc[w], IF wpc[w] = "failed" THEN "exited" ELSE "idle")
     \/ /\ KeyOf[wjob[w]] # NoKey /\ WorkerAt(w, wpc[w], "release")
        /\ UNCHANGED <<wjob, wentry>>
  /\ UNCHANGED <<workerFrame, chan, uniqueJobs, registry, cancelRun>>

WorkerFinish(w) ==
  /\ wpc[w] \in Terminal
  /\ updateStatus(wjob[w], wpc[w])
  /\ \/ KeyOf[wjob[w]] = NoKey /\ WorkerAt(w, wpc[w], "idle") /\ Forget(w)
     \/ /\ KeyOf[wjob[w]] # NoKey /\ WorkerAt(w, wpc[w], "release")
        /\ UNCHANGED <<wjob, wentry>>
  /\ UNCHANGED <<workerFrame, chan, uniqueJobs, registry, cancelRun>>

(* The deferred release of the dedup key. *)
WorkerRelease(w) ==
  /\ WorkerAt(w, "release", "idle") /\ Forget(w)
  /\ uniqueJobs' = uniqueJobs \ {KeyOf[wjob[w]]}
  /\ UNCHANGED <<workerFrame, chan, registry, entryVars, cancelRun>>

Execute(w) ==
  \/ WorkerLookup(w) \/ WorkerDeadline(w) \/ WorkerArm(w) \/ WorkerStart(w)
  \/ WorkerReturn(w) \/ WorkerFinish(w) \/ WorkerRelease(w)

-----------------------------------------------------------------------------
(* Cancel: snapshot under the entry's lock, then signal the run the snapshot *)
(* saw, then mark the job if the snapshot saw it queued.                     *)
CancelAt(c, from, to) == cpc[c] = from /\ cpc' = [cpc EXCEPT ![c] = to]

cancelFrame == <<queueVars, uniqueJobs, registry, sub, workerVars, deleteVars,
                 watchJob, cancelRun>>

CancelRequest(c, j) ==
  /\ j \in registry
  /\ cjob' = [cjob EXCEPT ![c] = j]
  /\ csaw' = [csaw EXCEPT ![c] = state[j]]
  /\ \/ /\ state[j] \in Terminal
        /\ CancelAt(c, "idle", "returned")
        /\ UNCHANGED <<cancelReq, doomed>>
     \/ /\ state[j] \notin Terminal
        /\ CancelAt(c, "idle", IF j \in cancelRun THEN "signal" ELSE "signalled")
        /\ cancelReq' = cancelReq \cup {j}
        /\ doomed' = IF InChan(j) THEN doomed \cup {j} ELSE doomed
  /\ UNCHANGED <<cancelFrame, entryVars, runCancel>>

CancelSignal(c) ==
  /\ CancelAt(c, "signal", "signalled")
  /\ runCancel' = runCancel \cup {cjob[c]}
  /\ UNCHANGED <<cancelFrame, entryVars, cancelReq, doomed, cjob, csaw>>

CancelMark(c) ==
  /\ CancelAt(c, "signalled", "returned")
  /\ \/ csaw[c] = "queued" /\ updateStatus(cjob[c], "cancelled")
     \/ csaw[c] # "queued" /\ UNCHANGED entryVars
  /\ UNCHANGED <<cancelFrame, cancelReq, doomed, runCancel, cjob, csaw>>

(* Delete: check under the entry's lock, remove under registryMu. *)
deleteFrame == <<queueVars, uniqueJobs, entryVars, flagVars, sub, workerVars, cancelVars, watchJob>>

DeleteCheck(d, j) ==
  /\ dpc[d] = "idle" /\ j \in registry
  /\ IF state[j] \in Terminal
     THEN dpc' = [dpc EXCEPT ![d] = "unlist"] /\ djob' = [djob EXCEPT ![d] = j]
     ELSE dpc' = [dpc EXCEPT ![d] = "returned"] /\ UNCHANGED djob
  /\ UNCHANGED <<deleteFrame, registry>>

DeleteEntry(d) ==
  /\ dpc[d] = "unlist"
  /\ dpc' = [dpc EXCEPT ![d] = "returned"]
  /\ registry' = registry \ {djob[d]}
  /\ djob' = [djob EXCEPT ![d] = NoJob]
  /\ UNCHANGED deleteFrame

(* Watch: a terminal job's channel is closed with its event at once. *)
Watch(x, j) ==
  /\ watch[x] = "idle" /\ j \in registry
  /\ watchJob' = [watchJob EXCEPT ![x] = j]
  /\ \/ /\ state[j] \in Terminal
        /\ watch' = [watch EXCEPT ![x] = "closed"]
        /\ lastEvent' = [lastEvent EXCEPT ![x] = state[j]]
     \/ /\ state[j] \notin Terminal
        /\ watch' = [watch EXCEPT ![x] = "open"]
        /\ UNCHANGED lastEvent
  /\ UNCHANGED <<queueVars, uniqueJobs, registry, state, outcome, flagVars, sub,
                 workerVars, cancelVars, deleteVars>>

-----------------------------------------------------------------------------
(* Shutdown closes q.done with the run contexts alive; Stop cancels the      *)
(* backend context and Backend.Run then closes q.done.                       *)
lifeFrame == <<chan, uniqueJobs, registry, entryVars, flagVars, sub,
               workerVars, cancelVars, deleteVars, watchJob>>

Shutdown ==
  /\ MayShutdown /\ ~done
  /\ done' = TRUE
  /\ UNCHANGED <<lifeFrame, ctxDone>>

Stop ==
  /\ MayStop /\ ~ctxDone
  /\ ctxDone' = TRUE
  /\ UNCHANGED <<lifeFrame, done>>

RunSeesStop ==
  /\ ctxDone /\ ~done
  /\ done' = TRUE
  /\ UNCHANGED <<lifeFrame, ctxDone>>

Next ==
  \/ \E j \in Job : SubmitStart(j) \/ Submit(j)
  \/ \E w \in Worker : WorkerTake(w) \/ WorkerExit(w) \/ Execute(w)
  \/ \E c \in Canceller : CancelSignal(c) \/ CancelMark(c)
  \/ \E c \in Canceller, j \in Job : CancelRequest(c, j)
  \/ \E d \in Deleter : DeleteEntry(d)
  \/ \E d \in Deleter, j \in Job : DeleteCheck(d, j)
  \/ \E x \in Watcher, j \in Job : Watch(x, j)
  \/ Shutdown \/ Stop \/ RunSeesStop

Spec == Init /\ [][Next]_vars

(* Goroutines that can run do run, and a job's Run returns. Nobody is        *)
(* obliged to call Submit, Cancel, Delete, Watch, Shutdown or Stop.          *)
Fairness ==
  /\ \A j \in Job : WF_vars(Submit(j))
  /\ \A w \in Worker : WF_vars(WorkerTake(w) \/ WorkerExit(w) \/ Execute(w))
  /\ \A c \in Canceller : WF_vars(CancelSignal(c) \/ CancelMark(c))
  /\ \A d \in Deleter : WF_vars(DeleteEntry(d))
  /\ WF_vars(RunSeesStop)

FairSpec == Spec /\ Fairness
-----------------------------------------------------------------------------
(* Properties *)

\* A unique job owns its dedup key from the section of Submit that took it
\* until the deferred release of execute or the cleanup of a failed Submit.
OwnsKey(j) ==
  /\ KeyOf[j] # NoKey
  /\ \/ sub[j] \in {"keyed", "enqueue", "unlist", "unkey"}
     \/ InChan(j)
     \/ \E w \in Worker : OnWorker(w, j)

\* Two unique jobs with the same kind and arguments are never both between
\* submission and release: not both queued, not both executed, and every owner
\* has its key in uniqueJobs, so no third job can get in.
UniqueJobsExclude ==
  /\ \A j, k \in Job : OwnsKey(j) /\ OwnsKey(k) /\ KeyOf[j] = KeyOf[k] => j = k
  /\ uniqueJobs = {KeyOf[j] : j \in {k \in Job : OwnsKey(k)}}

\* A job that was submitted and listed is never lost: until it has an outcome
\* one worker has it or it is in the channel.  While nobody has shut the queue
\* down or stopped it, every worker is there to take it from the channel; a job
\* that is in the buffer after that may be left there for good, as queued.
NoJobStranded ==
  \A j \in registry :
    sub[j] \in Returned /\ state[j] \notin Terminal =>
      \/ \E w \in Worker : OnWorker(w, j)
      \/ InChan(j) /\ (done \/ ctxDone \/ \A w \in Worker : wpc[w] # "exited")

\* A Cancel that saw the job running has interrupted that run when it returns:
\* the worker installs cancelRun before the job can be seen running.
CancelInterruptsRun ==
  \A c \in Canceller :
    cpc[c] = "returned" /\ csaw[c] = "running" /\ Running(cjob[c])
      => RunCtxDone(cjob[c])

\* A watcher that is still attached to a listed job will hear of its outcome:
\* the job is not settled. One whose channel was closed got an event first, and
\* it is the outcome of the job.
WatchersHearOutcome ==
  \A x \in Watcher :
    /\ watch[x] = "open" /\ watchJob[x] \in registry => state[watchJob[x]] \notin Terminal
    /\ watch[x] = "closed" => outcome[watchJob[x]] = {lastEvent[x]}

\* The queue implements JobContract. A job waits until a worker runs it or
\* decides not to; its fate is the first terminal state published.
Exec(j) ==
  IF Running(j) THEN "running"
  ELSE IF \/ sub[j] # "accepted"
          \/ InChan(j)
          \/ \E w \in Worker : OnWorker(w, j) /\ wpc[w] \notin Terminal \cup {"release"}
       THEN "waiting" ELSE "over"

Fate(j) ==
  IF outcome[j] # {} THEN CHOOSE s \in Terminal : s \in outcome[j]
  ELSE IF j \in registry THEN "pending"
  ELSE IF state[j] = "none" THEN "unknown" ELSE "withdrawn"

Contract == INSTANCE JobContract WITH
  fate <- [j \in Job |-> Fate(j)],
  exec <- [j \in Job |-> Exec(j)],
  holders <- {j \in Job : OwnsKey(j)}

ImplementsContract == Contract!Spec

\* Every worker runs a job that waits in Submit for room in the buffer: "Large
\* buffer so worker-spawns-children doesn't deadlock on a full channel"
\* (local_backend.go:209).  Nothing but a Cancel, a Stop or a Shutdown ends it.
AllBlocked ==
  /\ Len(chan) = Capacity
  /\ \A w \in Worker : /\ wpc[w] = "running"
                      /\ \E k \in Job : Parent[k] = wjob[w] /\ sub[k] = "enqueue"

\* Liveness under FairSpec.  Every accepted job gets its outcome, also while some
\* workers are blocked in a Submit, in all behaviours but two kinds: the queue is
\* shut down or stopped, or all workers block one another for good.
AcceptedJobSettles ==
  \/ []<>(done \/ \A j \in Job : sub[j] = "accepted" => outcome[j] # {})
  \/ <>[]AllBlocked

\* Once q.done is closed every worker leaves, so Backend.Run can return.
DrainCompletes ==
  done ~> \A w \in Worker : wpc[w] = "exited"

\* "queued cancellation must always succeed": a job cancelled while it was in
\* the channel is not run by any worker, whatever becomes of its record.
QueuedCancelSucceeds == \A j \in doomed : ~Running(j)
=============================================================================
