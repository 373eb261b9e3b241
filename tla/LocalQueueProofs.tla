-------------------------- MODULE LocalQueueProofs --------------------------
(***************************************************************************)
(* Proofs about LocalQueue for every set of jobs, keys, workers and        *)
(* clients and every capacity, and about the life of LocalBackend.          *)
(***************************************************************************)
EXTENDS LocalQueue, LocalBackend, TLAPS

(***************************************************************************)
(* Type correctness.                                                       *)
(***************************************************************************)

\* What updateStatus writes has the right type.
LEMMA UpdateStatusType ==
  ASSUME TypeOK, NEW j \in Job, NEW s \in State, updateStatus(j, s)
  PROVE  /\ state' \in [Job -> State]
         /\ outcome' \in [Job -> SUBSET Terminal]
         /\ watch' \in [Watcher -> {"idle", "open", "closed"}]
         /\ lastEvent' \in [Watcher -> State]
<1>0. /\ state \in [Job -> State] /\ outcome \in [Job -> SUBSET Terminal]
      /\ watch \in [Watcher -> {"idle", "open", "closed"}]
      /\ lastEvent \in [Watcher -> State]
  BY DEF TypeOK
<1>1. CASE j \notin registry
  BY <1>0, <1>1 DEF updateStatus, entryVars
<1>2. CASE j \in registry
  <2>1. state' = [state EXCEPT ![j] = s] /\ outcome' = [outcome EXCEPT ![j] = @ \cup ({s} \cap Terminal)]
    BY <1>2 DEF updateStatus
  <2>2. /\ lastEvent' = [x \in Watcher |-> IF Attached(x, j) THEN s ELSE lastEvent[x]]
        /\ watch' = [x \in Watcher |-> IF Attached(x, j) /\ s \in Terminal THEN "closed" ELSE watch[x]]
    BY <1>2 DEF updateStatus
  <2>3. state' \in [Job -> State] /\ outcome' \in [Job -> SUBSET Terminal]
    BY <1>0, <2>1
  <2>4. watch' \in [Watcher -> {"idle", "open", "closed"}] /\ lastEvent' \in [Watcher -> State]
    BY <1>0, <2>2
  <2> QED BY <2>3, <2>4
<1> QED BY <1>1, <1>2

LEMMA TypeOKInit == ASSUME QueueAssumption, Init PROVE TypeOK
<1>1. chan \in Seq(Job) /\ Len(chan) <= Capacity
  BY DEF QueueAssumption, Init
<1>2. /\ state \in [Job -> State] /\ outcome \in [Job -> SUBSET Terminal]
      /\ sub \in [Job -> SubPc] /\ wpc \in [Worker -> WorkerPc]
  BY DEF Init, State, SubPc, WorkerPc
<1>3. /\ wjob \in [Worker -> Job \cup {NoJob}] /\ wentry \in [Worker -> BOOLEAN]
      /\ \A w \in Worker : wpc[w] \in Busy => wjob[w] \in Job
  BY DEF Init, Busy
<1>4. /\ cpc \in [Canceller -> {"idle", "signal", "signalled", "returned"}]
      /\ cjob \in [Canceller -> Job \cup {NoJob}] /\ csaw \in [Canceller -> State]
      /\ \A c \in Canceller : cpc[c] # "idle" => cjob[c] \in Job
  BY DEF Init, State
<1>5. /\ dpc \in [Deleter -> {"idle", "unlist", "returned"}]
      /\ djob \in [Deleter -> Job \cup {NoJob}]
      /\ \A d \in Deleter : dpc[d] = "unlist" => djob[d] \in Job
  BY DEF Init
<1>6. /\ watch \in [Watcher -> {"idle", "open", "closed"}]
      /\ watchJob \in [Watcher -> Job \cup {NoJob}] /\ lastEvent \in [Watcher -> State]
  BY DEF Init, State
<1> QED
  BY <1>1, <1>2, <1>3, <1>4, <1>5, <1>6 DEF Init, TypeOK

LEMMA TypeOKSubmit ==
  ASSUME QueueAssumption, TypeOK, NEW j \in Job, SubmitStart(j) \/ Submit(j)
  PROVE  TypeOK'
<1> USE DEF SubmitAt, submitFrame, queueVars, entryVars, flagVars, workerVars,
            cancelVars, deleteVars
<1>1. CASE SubmitStart(j)
  BY <1>1 DEF SubmitStart, TypeOK, SubPc
<1>2. CASE SubmitKey(j)
  BY <1>2 DEF SubmitKey, TypeOK, SubPc
<1>3. CASE SubmitRegister(j)
  BY <1>3 DEF SubmitRegister, registerJob, TypeOK, SubPc, State
<1>4. CASE SubmitDuplicate(j)
  BY <1>4, UpdateStatusType DEF SubmitDuplicate, TypeOK, SubPc, State, Terminal
<1>5. CASE SubmitEnqueue(j)
  BY <1>5 DEF SubmitEnqueue, TypeOK, SubPc, QueueAssumption
<1>6. CASE SubmitAbort(j)
  BY <1>6 DEF SubmitAbort, TypeOK, SubPc
<1>7. CASE CleanupEntry(j)
  BY <1>7 DEF CleanupEntry, TypeOK, SubPc
<1>8. CASE CleanupKey(j)
  BY <1>8 DEF CleanupKey, TypeOK, SubPc
<1> QED
  BY <1>1, <1>2, <1>3, <1>4, <1>5, <1>6, <1>7, <1>8 DEF Submit

LEMMA TypeOKWorker ==
  ASSUME QueueAssumption, TypeOK, NEW w \in Worker,
         WorkerTake(w) \/ WorkerExit(w) \/ Execute(w)
  PROVE  TypeOK'
<1> USE DEF WorkerAt, workerFrame, queueVars, entryVars, flagVars,
            cancelVars, deleteVars, WorkerPc, Terminal, Busy
<1>0. wpc[w] \in Busy => wjob[w] \in Job
  BY DEF TypeOK
<1>1. CASE WorkerTake(w)
  BY <1>1 DEF WorkerTake, TypeOK, QueueAssumption
<1>2. CASE WorkerExit(w)
  BY <1>2 DEF WorkerExit, TypeOK
<1>3. CASE WorkerLookup(w)
  BY <1>3 DEF WorkerLookup, TypeOK
<1>4. CASE WorkerDeadline(w)
  BY <1>4, SMTT(30) DEF WorkerDeadline, TypeOK
<1>5. CASE WorkerArm(w)
  BY <1>0, <1>5 DEF WorkerArm, TypeOK
<1>6. CASE WorkerStart(w)
  BY <1>0, <1>6, UpdateStatusType DEF WorkerStart, TypeOK, State
<1>7. CASE WorkerReturn(w)
  BY <1>7 DEF WorkerReturn, TypeOK
<1>8. CASE WorkerFinish(w)
  <2>1. wjob[w] \in Job /\ wpc[w] \in State /\ updateStatus(wjob[w], wpc[w])
    BY <1>0, <1>8 DEF WorkerFinish, State
  <2>2. /\ state' \in [Job -> State]
        /\ outcome' \in [Job -> SUBSET Terminal]
        /\ watch' \in [Watcher -> {"idle", "open", "closed"}]
        /\ lastEvent' \in [Watcher -> State]
    BY <2>1, UpdateStatusType
  <2>3. CASE KeyOf[wjob[w]] = NoKey
    <3>1. /\ wpc' = [wpc EXCEPT ![w] = "idle"]
          /\ wjob' = [wjob EXCEPT ![w] = NoJob]
          /\ wentry' = [wentry EXCEPT ![w] = FALSE]
      BY <1>8, <2>3 DEF WorkerFinish, Forget
    <3>2. /\ wpc' \in [Worker -> WorkerPc]
          /\ wjob' \in [Worker -> Job \cup {NoJob}]
          /\ wentry' \in [Worker -> BOOLEAN]
      BY <3>1 DEF TypeOK
    <3>3. \A v \in Worker : wpc'[v] \in Busy => wjob'[v] \in Job
      BY <3>1 DEF TypeOK
    <3> QED
      BY <1>8, <2>2, <3>2, <3>3 DEF WorkerFinish, TypeOK
  <2>4. CASE KeyOf[wjob[w]] # NoKey
    <3>1. wpc' = [wpc EXCEPT ![w] = "release"] /\ wjob' = wjob /\ wentry' = wentry
      BY <1>8, <2>4 DEF WorkerFinish
    <3>2. wpc' \in [Worker -> WorkerPc]
      BY <3>1 DEF TypeOK
    <3>3. \A v \in Worker : wpc'[v] \in Busy => wjob'[v] \in Job
      BY <2>1, <3>1 DEF TypeOK
    <3> QED
      BY <1>8, <2>2, <3>1, <3>2, <3>3 DEF WorkerFinish, TypeOK
  <2> QED
    BY <2>3, <2>4
<1>9. CASE WorkerRelease(w)
  BY <1>9 DEF WorkerRelease, Forget, TypeOK
<1> QED
  BY <1>1, <1>2, <1>3, <1>4, <1>5, <1>6, <1>7, <1>8, <1>9 DEF Execute

LEMMA TypeOKClients ==
  ASSUME QueueAssumption, TypeOK,
         \/ \E c \in Canceller : CancelSignal(c) \/ CancelMark(c)
         \/ \E c \in Canceller, j \in Job : CancelRequest(c, j)
         \/ \E d \in Deleter : DeleteEntry(d)
         \/ \E d \in Deleter, j \in Job : DeleteCheck(d, j)
         \/ \E x \in Watcher, j \in Job : Watch(x, j)
         \/ Shutdown \/ Stop \/ RunSeesStop
  PROVE  TypeOK'
<1> USE DEF queueVars, entryVars, flagVars, workerVars, cancelVars, deleteVars
<1>1. ASSUME NEW c \in Canceller, CancelSignal(c) PROVE TypeOK'
  BY <1>1 DEF CancelSignal, CancelAt, cancelFrame, TypeOK
<1>2. ASSUME NEW c \in Canceller, CancelMark(c) PROVE TypeOK'
  BY <1>2, UpdateStatusType
     DEF CancelMark, CancelAt, cancelFrame, TypeOK, State, Terminal
<1>3. ASSUME NEW c \in Canceller, NEW j \in Job, CancelRequest(c, j) PROVE TypeOK'
  BY <1>3 DEF CancelRequest, CancelAt, cancelFrame, TypeOK
<1>4. ASSUME NEW d \in Deleter, DeleteEntry(d) PROVE TypeOK'
  BY <1>4 DEF DeleteEntry, deleteFrame, TypeOK
<1>5. ASSUME NEW d \in Deleter, NEW j \in Job, DeleteCheck(d, j) PROVE TypeOK'
  <2>1. CASE state[j] \in Terminal
    <3>1. dpc' = [dpc EXCEPT ![d] = "unlist"] /\ djob' = [djob EXCEPT ![d] = j]
      BY <1>5, <2>1 DEF DeleteCheck
    <3>2. /\ dpc' \in [Deleter -> {"idle", "unlist", "returned"}]
          /\ djob' \in [Deleter -> Job \cup {NoJob}]
          /\ \A e \in Deleter : dpc'[e] = "unlist" => djob'[e] \in Job
      BY <3>1 DEF TypeOK
    <3> QED
      BY <1>5, <3>2 DEF DeleteCheck, deleteFrame, TypeOK
  <2>2. CASE state[j] \notin Terminal
    BY <1>5, <2>2, SMTT(30) DEF DeleteCheck, deleteFrame, TypeOK
  <2> QED
    BY <2>1, <2>2
<1>6. ASSUME NEW x \in Watcher, NEW j \in Job, Watch(x, j) PROVE TypeOK'
  BY <1>6 DEF Watch, TypeOK
<1>7. CASE Shutdown
  BY <1>7 DEF Shutdown, lifeFrame, TypeOK
<1>8. CASE Stop
  BY <1>8 DEF Stop, lifeFrame, TypeOK
<1>9. CASE RunSeesStop
  BY <1>9 DEF RunSeesStop, lifeFrame, TypeOK
<1> QED
  BY <1>1, <1>2, <1>3, <1>4, <1>5, <1>6, <1>7, <1>8, <1>9

\* Every variable keeps its type, whichever goroutine takes a step.
THEOREM TypeCorrect == Spec => []TypeOK
<1>1. Init => TypeOK
  BY TypeOKInit, QueueAssumption
<1>2. TypeOK /\ [Next]_vars => TypeOK'
  <2> SUFFICES ASSUME TypeOK, [Next]_vars PROVE TypeOK'
    OBVIOUS
  <2>1. CASE \E j \in Job : SubmitStart(j) \/ Submit(j)
    BY <2>1, TypeOKSubmit, QueueAssumption
  <2>2. CASE \E w \in Worker : WorkerTake(w) \/ WorkerExit(w) \/ Execute(w)
    BY <2>2, TypeOKWorker, QueueAssumption
  <2>3. CASE UNCHANGED vars
    BY <2>3 DEF TypeOK, vars, queueVars, entryVars, flagVars, workerVars,
                cancelVars, deleteVars
  <2> QED
    BY <2>1, <2>2, <2>3, TypeOKClients, QueueAssumption DEF Next
<1> QED
  BY <1>1, <1>2, PTL DEF Spec

(***************************************************************************)
(* Mutual exclusion of unique jobs.  UniqueJobsExclude alone is not        *)
(* inductive: releasing a key is only right because a job is in one place  *)
(* at a time, which is what Placed says.                                   *)
(***************************************************************************)
Placed ==
  /\ \A i \in 1..Len(chan) : sub[chan[i]] = "accepted"
  /\ \A i, k \in 1..Len(chan) : chan[i] = chan[k] => i = k
  /\ \A w \in Worker : wpc[w] \in Busy =>
       sub[wjob[w]] = "accepted" /\ ~InChan(wjob[w])
  /\ \A v, w \in Worker :
       wpc[v] \in Busy /\ wpc[w] \in Busy /\ wjob[v] = wjob[w] => v = w
  /\ \A w \in Worker : wpc[w] = "release" => KeyOf[wjob[w]] # NoKey
  /\ \A j \in Job : sub[j] = "unkey" => KeyOf[j] # NoKey

ExclusionInv == TypeOK /\ Placed /\ UniqueJobsExclude

\* Sending adds exactly one job to the channel.
LEMMA SendInChan ==
  ASSUME TypeOK, NEW j \in Job, chan' = Append(chan, j)
  PROVE  /\ chan' \in Seq(Job) /\ Len(chan') = Len(chan) + 1
         /\ \A i \in 1..Len(chan) : chan'[i] = chan[i]
         /\ chan'[Len(chan) + 1] = j
         /\ \A k \in Job : InChan(k)' <=> InChan(k) \/ k = j
<1>1. /\ chan' \in Seq(Job) /\ Len(chan') = Len(chan) + 1
      /\ \A i \in 1..Len(chan) : chan'[i] = chan[i]
      /\ chan'[Len(chan) + 1] = j
  BY DEF TypeOK
<1>2. ASSUME NEW k \in Job PROVE InChan(k)' <=> InChan(k) \/ k = j
  <2>1. Len(chan) \in Nat
    BY DEF TypeOK
  <2>2. InChan(k)' => InChan(k) \/ k = j
    BY <1>1, <2>1 DEF InChan
  <2>3. InChan(k) => InChan(k)'
    BY <1>1, <2>1 DEF InChan
  <2>4. k = j => InChan(k)'
    BY <1>1, <2>1 DEF InChan
  <2> QED
    BY <2>2, <2>3, <2>4
<1> QED
  BY <1>1, <1>2

\* Receiving from a channel without repetitions removes exactly its head.
LEMMA ReceiveInChan ==
  ASSUME TypeOK, Placed, chan # <<>>, chan' = Tail(chan)
  PROVE  /\ Head(chan) \in Job /\ InChan(Head(chan))
         /\ chan' \in Seq(Job) /\ Len(chan') = Len(chan) - 1
         /\ \A i \in 1..Len(chan') : chan'[i] = chan[i + 1]
         /\ \A k \in Job : InChan(k)' <=> InChan(k) /\ k # Head(chan)
<1>1. Len(chan) \in Nat \ {0} /\ Head(chan) = chan[1] /\ Head(chan) \in Job
  BY DEF TypeOK
<1>2. /\ chan' \in Seq(Job) /\ Len(chan') = Len(chan) - 1
      /\ \A i \in 1..Len(chan') : chan'[i] = chan[i + 1]
  BY <1>1 DEF TypeOK
<1>3. InChan(Head(chan))
  BY <1>1 DEF InChan
<1>4. ASSUME NEW k \in Job PROVE InChan(k)' <=> InChan(k) /\ k # Head(chan)
  <2>1. ASSUME NEW i \in 1..Len(chan'), chan'[i] = k PROVE InChan(k) /\ k # Head(chan)
    <3>1. i + 1 \in 1..Len(chan) /\ chan[i + 1] = k /\ 1 \in 1..Len(chan) /\ i + 1 # 1
      BY <1>1, <1>2, <2>1
    <3> QED
      BY <1>1, <3>1 DEF InChan, Placed
  <2>2. ASSUME NEW i \in 1..Len(chan), chan[i] = k, k # Head(chan) PROVE InChan(k)'
    <3>1. i # 1 /\ i - 1 \in 1..Len(chan') /\ (i - 1) + 1 = i
      BY <1>1, <1>2, <2>2
    <3>2. chan'[i - 1] = k
      BY <1>2, <2>2, <3>1
    <3> QED
      BY <3>1, <3>2 DEF InChan
  <2> QED
    BY <2>1, <2>2 DEF InChan
<1> QED
  BY <1>1, <1>2, <1>3, <1>4

\* A step that changes neither who owns a key nor uniqueJobs preserves exclusion.
LEMMA SameOwners ==
  ASSUME UniqueJobsExclude, uniqueJobs' = uniqueJobs,
         \A k \in Job : OwnsKey(k)' <=> OwnsKey(k)
  PROVE  UniqueJobsExclude'
  BY DEF UniqueJobsExclude

\* A job before its acceptance by the channel is neither there nor on a worker.
LEMMA NotAcceptedNowhere ==
  ASSUME TypeOK, Placed, NEW j \in Job, sub[j] # "accepted"
  PROVE  ~InChan(j) /\ \A w \in Worker : ~OnWorker(w, j)
  BY DEF Placed, InChan, OnWorker

LEMMA PlacedSubmit ==
  ASSUME TypeOK, Placed, NEW j \in Job, SubmitStart(j) \/ Submit(j)
  PROVE  Placed'
<1> USE DEF SubmitAt, submitFrame, workerVars
<1>0. ~InChan(j) /\ \A w \in Worker : ~OnWorker(w, j)
  <2>1. sub[j] # "accepted"
    BY DEF SubmitStart, Submit, SubmitKey, SubmitRegister, SubmitDuplicate,
           SubmitEnqueue, SubmitAbort, CleanupEntry, CleanupKey
  <2> QED
    BY <2>1, NotAcceptedNowhere
<1>1. CASE chan' = chan
  <2>1. /\ wpc' = wpc /\ wjob' = wjob
        /\ \A k \in Job \ {j} : sub'[k] = sub[k]
        /\ sub'[j] = "unkey" => KeyOf[j] # NoKey
    BY DEF TypeOK, SubmitStart, Submit, SubmitKey, SubmitRegister, SubmitDuplicate,
           SubmitEnqueue, SubmitAbort, CleanupEntry, CleanupKey
  <2>2. \A i \in 1..Len(chan) : chan[i] \in Job /\ chan[i] # j
    BY <1>0 DEF TypeOK, InChan
  <2>3. \A w \in Worker : wpc[w] \in Busy => wjob[w] \in Job /\ wjob[w] # j
    BY <1>0 DEF TypeOK, OnWorker
  <2> QED
    BY <1>1, <2>1, <2>2, <2>3 DEF Placed, InChan
<1>2. CASE chan' # chan
  <2>1. SubmitEnqueue(j)
    BY <1>2 DEF SubmitStart, Submit, SubmitKey, SubmitRegister, SubmitDuplicate,
                SubmitAbort, CleanupEntry, CleanupKey
  <2>2. /\ wpc' = wpc /\ wjob' = wjob /\ chan' = Append(chan, j)
        /\ sub' = [sub EXCEPT ![j] = "accepted"]
    BY <2>1 DEF SubmitEnqueue
  <2>3. Len(chan) \in Nat /\ \A i \in 1..Len(chan) : chan[i] \in Job /\ chan[i] # j
    BY <1>0 DEF TypeOK, InChan
  <2>4. \A i \in 1..Len(chan') : sub'[chan'[i]] = "accepted"
    BY <2>2, <2>3, SendInChan DEF Placed, TypeOK
  <2>5. \A i, k \in 1..Len(chan') : chan'[i] = chan'[k] => i = k
    BY <2>2, <2>3, SendInChan DEF Placed
  <2>6. \A w \in Worker : wpc'[w] \in Busy =>
          sub'[wjob'[w]] = "accepted" /\ ~InChan(wjob[w])'
    BY <1>0, <2>2, SendInChan DEF Placed, TypeOK, OnWorker
  <2> QED
    BY <2>2, <2>4, <2>5, <2>6 DEF Placed, TypeOK
<1> QED
  BY <1>1, <1>2

\* What a step of execute other than the last does to a worker's place.
LEMMA ExecuteStep ==
  ASSUME TypeOK, Placed, NEW w \in Worker, Execute(w)
  PROVE  /\ wpc[w] \in Busy /\ chan' = chan /\ sub' = sub
         /\ \/ /\ wjob' = wjob /\ uniqueJobs' = uniqueJobs
               /\ \E p \in Busy : wpc' = [wpc EXCEPT ![w] = p]
               /\ wpc'[w] = "release" => KeyOf[wjob[w]] # NoKey
            \/ /\ wjob' = [wjob EXCEPT ![w] = NoJob]
               /\ wpc' = [wpc EXCEPT ![w] = "idle"]
               /\ \/ KeyOf[wjob[w]] = NoKey /\ uniqueJobs' = uniqueJobs
                  \/ /\ KeyOf[wjob[w]] # NoKey
                     /\ uniqueJobs' = uniqueJobs \ {KeyOf[wjob[w]]}
<1> USE DEF WorkerAt, workerFrame, WorkerPc, Terminal, Busy
<1>1. CASE WorkerLookup(w)
  BY <1>1 DEF WorkerLookup, TypeOK
<1>2. CASE WorkerDeadline(w)
  BY <1>2 DEF WorkerDeadline, TypeOK
<1>3. CASE WorkerArm(w)
  BY <1>3 DEF WorkerArm, TypeOK
<1>4. CASE WorkerStart(w)
  BY <1>4 DEF WorkerStart, TypeOK
<1>5. CASE WorkerReturn(w)
  BY <1>5 DEF WorkerReturn, TypeOK
<1>6. CASE WorkerFinish(w)
  BY <1>6 DEF WorkerFinish, Forget, TypeOK
<1>7. CASE WorkerRelease(w)
  BY <1>7 DEF WorkerRelease, Forget, TypeOK, Placed
<1> QED
  BY <1>1, <1>2, <1>3, <1>4, <1>5, <1>6, <1>7 DEF Execute

LEMMA PlacedWorker ==
  ASSUME TypeOK, Placed, NEW w \in Worker,
         WorkerTake(w) \/ WorkerExit(w) \/ Execute(w)
  PROVE  Placed'
<1> USE DEF Busy
<1>1. CASE WorkerTake(w)
  <2>1. /\ chan # <<>> /\ chan' = Tail(chan) /\ sub' = sub /\ wpc[w] = "idle"
        /\ wpc' = [wpc EXCEPT ![w] = "lookup"]
        /\ wjob' = [wjob EXCEPT ![w] = Head(chan)]
    BY <1>1 DEF WorkerTake, WorkerAt, workerFrame
  <2>2. Len(chan) \in Nat \ {0} /\ Head(chan) = chan[1]
    BY <2>1 DEF TypeOK
  <2>3. sub[Head(chan)] = "accepted" /\ \A i \in 1..Len(chan') : chan'[i] # Head(chan)
    <3>1. ASSUME NEW i \in 1..Len(chan') PROVE chan'[i] # Head(chan)
      <4>1. i + 1 \in 1..Len(chan) /\ 1 \in 1..Len(chan) /\ i + 1 # 1 /\ chan'[i] = chan[i + 1]
        BY <2>1, <2>2, ReceiveInChan
      <4> QED
        BY <2>2, <4>1 DEF Placed
    <3> QED
      BY <2>2, <3>1 DEF Placed
  <2>4. \A v \in Worker : wpc[v] \in Busy => wjob[v] # Head(chan)
    BY <2>1, ReceiveInChan DEF Placed
  <2>5. \A i \in 1..Len(chan') : sub'[chan'[i]] = "accepted"
    BY <2>1, <2>2, ReceiveInChan DEF Placed
  <2>6. \A i, k \in 1..Len(chan') : chan'[i] = chan'[k] => i = k
    <3> SUFFICES ASSUME NEW i \in 1..Len(chan'), NEW k \in 1..Len(chan'),
                        chan'[i] = chan'[k]
                 PROVE  i = k
      OBVIOUS
    <3>1. i + 1 \in 1..Len(chan) /\ k + 1 \in 1..Len(chan) /\ chan[i + 1] = chan[k + 1]
      BY <2>1, <2>2, ReceiveInChan
    <3> QED
      BY <2>2, <3>1 DEF Placed
  <2>7. ASSUME NEW v \in Worker, wpc'[v] \in Busy
        PROVE  sub'[wjob'[v]] = "accepted" /\ ~InChan(wjob[v])'
    <3>1. CASE v = w
      <4>1. wjob'[v] = Head(chan)
        BY <2>1, <3>1 DEF TypeOK
      <4> QED
        BY <2>1, <2>3, <4>1 DEF InChan
    <3>2. CASE v # w
      <4>1. wpc[v] \in Busy /\ wjob'[v] = wjob[v] /\ wjob[v] \in Job
        BY <2>1, <2>7, <3>2 DEF TypeOK
      <4>2. ~InChan(wjob[v]) /\ sub[wjob[v]] = "accepted"
        BY <4>1 DEF Placed
      <4>3. \A i \in 1..Len(chan') : chan'[i] # wjob[v]
        BY <2>1, <2>2, <4>2, ReceiveInChan DEF InChan
      <4> QED
        BY <2>1, <4>1, <4>2, <4>3 DEF InChan
    <3> QED
      BY <3>1, <3>2
  <2>8. \A u, v \in Worker :
          wpc'[u] \in Busy /\ wpc'[v] \in Busy /\ wjob'[u] = wjob'[v] => u = v
    BY <2>1, <2>4 DEF Placed, TypeOK
  <2>9. \A v \in Worker : wpc'[v] = "release" => KeyOf[wjob'[v]] # NoKey
    BY <2>1 DEF Placed, TypeOK
  <2>10. \A j \in Job : sub'[j] = "unkey" => KeyOf[j] # NoKey
    BY <2>1 DEF Placed
  <2> QED
    BY <2>5, <2>6, <2>7, <2>8, <2>9, <2>10 DEF Placed
<1>2. CASE WorkerExit(w)
  BY <1>2 DEF WorkerExit, WorkerAt, workerFrame, Placed, InChan, TypeOK
<1>3. CASE Execute(w)
  <2>1. CASE /\ wjob' = wjob
             /\ \E p \in Busy : wpc' = [wpc EXCEPT ![w] = p]
             /\ wpc'[w] = "release" => KeyOf[wjob[w]] # NoKey
    <3>1. /\ chan' = chan /\ sub' = sub
          /\ \A v \in Worker : wpc'[v] \in Busy => wpc[v] \in Busy /\ wjob'[v] = wjob[v]
          /\ \A v \in Worker \ {w} : wpc'[v] = wpc[v]
      BY <1>3, <2>1, ExecuteStep DEF TypeOK
    <3>2. \A v \in Worker : wpc'[v] = "release" => KeyOf[wjob'[v]] # NoKey
      BY <2>1, <3>1 DEF Placed
    <3> QED
      BY <3>1, <3>2 DEF Placed, InChan
  <2>2. CASE /\ wjob' = [wjob EXCEPT ![w] = NoJob]
             /\ wpc' = [wpc EXCEPT ![w] = "idle"]
    <3>1. /\ chan' = chan /\ sub' = sub
          /\ \A v \in Worker : wpc'[v] \in Busy => wpc[v] \in Busy /\ wjob'[v] = wjob[v]
          /\ \A v \in Worker : wpc'[v] = "release" => wpc[v] = "release" /\ wjob'[v] = wjob[v]
      BY <1>3, <2>2, ExecuteStep DEF TypeOK
    <3> QED
      BY <3>1 DEF Placed, InChan
  <2> QED
    BY <1>3, <2>1, <2>2, ExecuteStep
<1> QED
  BY <1>1, <1>2, <1>3

LEMMA ExclusionSubmit ==
  ASSUME ExclusionInv, NEW j \in Job, SubmitStart(j) \/ Submit(j)
  PROVE  UniqueJobsExclude'
<1> USE DEF SubmitAt, submitFrame, workerVars, ExclusionInv, SubPc
<1>0. ~InChan(j) /\ \A w \in Worker : ~OnWorker(w, j)
  <2>1. sub[j] # "accepted"
    BY DEF SubmitStart, Submit, SubmitKey, SubmitRegister, SubmitDuplicate,
           SubmitEnqueue, SubmitAbort, CleanupEntry, CleanupKey
  <2> QED
    BY <2>1, NotAcceptedNowhere
<1>1. ASSUME wpc' = wpc, wjob' = wjob, chan' = chan,
             NEW p \in SubPc, sub' = [sub EXCEPT ![j] = p]
      PROVE  /\ \A k \in Job \ {j} : OwnsKey(k)' <=> OwnsKey(k)
             /\ OwnsKey(j)' <=> KeyOf[j] # NoKey /\ p \in {"keyed", "enqueue", "unlist", "unkey"}
             /\ OwnsKey(j) <=>
                  KeyOf[j] # NoKey /\ sub[j] \in {"keyed", "enqueue", "unlist", "unkey"}
  BY <1>0, <1>1 DEF OwnsKey, InChan, OnWorker, TypeOK
<1>2. CASE SubmitStart(j)
  BY <1>1, <1>2, SameOwners DEF SubmitStart
<1>3. CASE SubmitKey(j)
  <2>1. CASE sub' = [sub EXCEPT ![j] = "dup"] /\ uniqueJobs' = uniqueJobs
    BY <1>1, <1>3, <2>1, SameOwners DEF SubmitKey
  <2>2. CASE /\ KeyOf[j] \notin uniqueJobs /\ sub' = [sub EXCEPT ![j] = "keyed"]
             /\ uniqueJobs' = uniqueJobs \cup {KeyOf[j]}
    <3>1. OwnsKey(j)' /\ \A k \in Job \ {j} : OwnsKey(k)' <=> OwnsKey(k)
      BY <1>1, <1>3, <2>2 DEF SubmitKey
    <3>2. \A k \in Job : OwnsKey(k) => KeyOf[k] # KeyOf[j]
      BY <2>2 DEF UniqueJobsExclude
    <3> QED
      BY <2>2, <3>1, <3>2 DEF UniqueJobsExclude
  <2> QED
    BY <1>3, <2>1, <2>2 DEF SubmitKey
<1>4. CASE SubmitRegister(j)
  <2>1. KeyOf[j] = NoKey => ~OwnsKey(j)'
    BY DEF OwnsKey
  <2> QED
    BY <1>1, <1>4, <2>1, SameOwners DEF SubmitRegister, OwnsKey
<1>5. CASE SubmitDuplicate(j)
  BY <1>1, <1>5, SameOwners DEF SubmitDuplicate
<1>6. CASE SubmitEnqueue(j)
  <2>1. /\ wpc' = wpc /\ wjob' = wjob /\ chan' = Append(chan, j) /\ uniqueJobs' = uniqueJobs
        /\ sub[j] = "enqueue" /\ sub' = [sub EXCEPT ![j] = "accepted"]
    BY <1>6 DEF SubmitEnqueue
  <2>2. \A k \in Job : InChan(k)' <=> InChan(k) \/ k = j
    BY <2>1, SendInChan
  <2>3. \A k \in Job : OwnsKey(k)' <=> OwnsKey(k)
    BY <2>1, <2>2 DEF OwnsKey, OnWorker, TypeOK
  <2> QED
    BY <2>1, <2>3, SameOwners
<1>7. CASE SubmitAbort(j)
  BY <1>1, <1>7, SameOwners DEF SubmitAbort
<1>8. CASE CleanupEntry(j)
  BY <1>1, <1>8, SameOwners DEF CleanupEntry
<1>9. CASE CleanupKey(j)
  <2>1. OwnsKey(j) /\ ~OwnsKey(j)' /\ \A k \in Job \ {j} : OwnsKey(k)' <=> OwnsKey(k)
    BY <1>1, <1>9 DEF CleanupKey, Placed
  <2> QED
    BY <1>9, <2>1 DEF CleanupKey, UniqueJobsExclude
<1> QED
  BY <1>2, <1>3, <1>4, <1>5, <1>6, <1>7, <1>8, <1>9 DEF Submit

\* What a receive from the channel does to the places of all jobs.
LEMMA TakePlaces ==
  ASSUME TypeOK, Placed, NEW w \in Worker, WorkerTake(w)
  PROVE  /\ sub' = sub /\ wpc'[w] = "lookup" /\ Head(chan) \in Job /\ InChan(Head(chan))
         /\ \A k \in Job : /\ InChan(k)' <=> InChan(k) /\ k # Head(chan)
                           /\ ~OnWorker(w, k) /\ (OnWorker(w, k)' <=> k = Head(chan))
         /\ \A k \in Job, v \in Worker \ {w} :
              (OnWorker(v, k)' <=> OnWorker(v, k)) /\ wpc'[v] = wpc[v]
<1>1. /\ chan # <<>> /\ chan' = Tail(chan) /\ sub' = sub /\ wpc[w] = "idle"
      /\ wpc' = [wpc EXCEPT ![w] = "lookup"] /\ wjob' = [wjob EXCEPT ![w] = Head(chan)]
  BY DEF WorkerTake, WorkerAt, workerFrame
<1>2. \A k \in Job : ~OnWorker(w, k) /\ (OnWorker(w, k)' <=> k = Head(chan))
  BY <1>1 DEF OnWorker, TypeOK, Busy, WorkerPc
<1>3. \A k \in Job, v \in Worker \ {w} :
        (OnWorker(v, k)' <=> OnWorker(v, k)) /\ wpc'[v] = wpc[v]
  BY <1>1 DEF OnWorker, TypeOK
<1> QED
  BY <1>1, <1>2, <1>3, ReceiveInChan DEF TypeOK

LEMMA ExclusionWorker ==
  ASSUME ExclusionInv, NEW w \in Worker,
         WorkerTake(w) \/ WorkerExit(w) \/ Execute(w)
  PROVE  UniqueJobsExclude'
<1> USE DEF ExclusionInv, Busy
<1>1. CASE WorkerTake(w)
  <2>1. /\ chan # <<>> /\ chan' = Tail(chan) /\ sub' = sub /\ uniqueJobs' = uniqueJobs
        /\ wpc[w] = "idle" /\ wpc' = [wpc EXCEPT ![w] = "lookup"]
        /\ wjob' = [wjob EXCEPT ![w] = Head(chan)]
    BY <1>1 DEF WorkerTake, WorkerAt, workerFrame
  <2>2. \A k \in Job : OwnsKey(k)' <=> OwnsKey(k)
    <3> SUFFICES ASSUME NEW k \in Job PROVE OwnsKey(k)' <=> OwnsKey(k)
      OBVIOUS
    <3>1. InChan(Head(chan)) /\ (InChan(k)' <=> InChan(k) /\ k # Head(chan))
      BY <1>1, TakePlaces
    <3>2. (\E v \in Worker : OnWorker(v, k))'
             <=> k = Head(chan) \/ \E v \in Worker : OnWorker(v, k)
      BY <1>1, TakePlaces
    <3> QED
      BY <2>1, <3>1, <3>2 DEF OwnsKey
  <2> QED
    BY <2>1, <2>2, SameOwners
<1>2. CASE WorkerExit(w)
  <2>1. \A k \in Job : OwnsKey(k)' <=> OwnsKey(k)
    BY <1>2 DEF WorkerExit, WorkerAt, workerFrame, OwnsKey, InChan, OnWorker, TypeOK
  <2> QED
    BY <1>2, <2>1, SameOwners DEF WorkerExit
<1>3. CASE Execute(w)
  <2>0. wpc[w] \in Busy /\ wjob[w] \in Job
    BY <1>3, ExecuteStep DEF TypeOK
  <2>1. CASE /\ wjob' = wjob /\ uniqueJobs' = uniqueJobs
             /\ \E p \in Busy : wpc' = [wpc EXCEPT ![w] = p]
    <3>1. \A k \in Job, v \in Worker : OnWorker(v, k)' <=> OnWorker(v, k)
      BY <2>0, <2>1 DEF OnWorker, TypeOK
    <3>2. \A k \in Job : OwnsKey(k)' <=> OwnsKey(k)
      BY <1>3, <3>1, ExecuteStep DEF OwnsKey, InChan
    <3> QED
      BY <2>1, <3>2, SameOwners
  <2>2. CASE wjob' = [wjob EXCEPT ![w] = NoJob] /\ wpc' = [wpc EXCEPT ![w] = "idle"]
    <3>1. \A k \in Job \ {wjob[w]}, v \in Worker : OnWorker(v, k)' <=> OnWorker(v, k)
      BY <2>0, <2>2 DEF OnWorker, TypeOK
    <3>2. \A k \in Job \ {wjob[w]} : OwnsKey(k)' <=> OwnsKey(k)
      BY <1>3, <3>1, ExecuteStep DEF OwnsKey, InChan
    <3>3. ASSUME NEW j \in Job, j = wjob[w], KeyOf[j] # NoKey
          PROVE  OwnsKey(j) /\ ~OwnsKey(j)'
      <4>1. sub'[j] = "accepted" /\ ~InChan(j)'
        BY <1>3, <2>0, <3>3, ExecuteStep DEF Placed, InChan
      <4>2. \A v \in Worker : ~OnWorker(v, j)'
        BY <2>0, <2>2, <3>3 DEF Placed, TypeOK, OnWorker
      <4>3. OnWorker(w, j)
        BY <2>0, <3>3 DEF OnWorker
      <4> QED
        BY <3>3, <4>1, <4>2, <4>3 DEF OwnsKey
    <3>4. CASE KeyOf[wjob[w]] = NoKey
      <4>1. uniqueJobs' = uniqueJobs
        BY <1>3, <2>2, <2>0, <3>4, ExecuteStep DEF TypeOK
      <4>2. \A k \in Job : KeyOf[k] = NoKey => ~OwnsKey(k) /\ ~OwnsKey(k)'
        BY DEF OwnsKey
      <4> QED
        BY <3>2, <3>4, <4>1, <4>2, SameOwners
    <3>5. CASE KeyOf[wjob[w]] # NoKey
      <4>1. uniqueJobs' = uniqueJobs \ {KeyOf[wjob[w]]}
        <5>1. wpc'[w] = "idle"
          BY <2>2 DEF TypeOK
        <5>2. ~\E p \in Busy : wpc' = [wpc EXCEPT ![w] = p]
          BY <5>1 DEF TypeOK
        <5> QED
          BY <1>3, <3>5, <5>2, ExecuteStep
      <4> QED
        BY <2>0, <3>2, <3>3, <3>5, <4>1 DEF UniqueJobsExclude
    <3> QED
      BY <3>4, <3>5
  <2> QED
    BY <1>3, <2>1, <2>2, ExecuteStep
<1> QED
  BY <1>1, <1>2, <1>3

\* Cancel, Delete, Watch and the backend's life cycle touch neither.
LEMMA ClientsKeepPlaces ==
  ASSUME \/ \E c \in Canceller : CancelSignal(c) \/ CancelMark(c)
         \/ \E c \in Canceller, j \in Job : CancelRequest(c, j)
         \/ \E d \in Deleter : DeleteEntry(d)
         \/ \E d \in Deleter, j \in Job : DeleteCheck(d, j)
         \/ \E x \in Watcher, j \in Job : Watch(x, j)
         \/ Shutdown \/ Stop \/ RunSeesStop
         \/ UNCHANGED vars
  PROVE  UNCHANGED <<chan, sub, wpc, wjob, uniqueJobs>>
  BY DEF CancelSignal, CancelMark, CancelRequest, cancelFrame, DeleteEntry,
         DeleteCheck, deleteFrame, Watch, Shutdown, Stop, RunSeesStop, lifeFrame,
         vars, queueVars, workerVars

LEMMA ExclusionInvInit == ASSUME QueueAssumption, Init PROVE ExclusionInv
<1>1. Placed
  BY DEF Init, Placed, Busy
<1>2. UniqueJobsExclude
  BY DEF Init, UniqueJobsExclude, OwnsKey, InChan, OnWorker, Busy
<1> QED
  BY <1>1, <1>2, TypeOKInit DEF ExclusionInv

\* The strengthened invariant is inductive.
LEMMA ExclusionInvStep ==
  ASSUME ExclusionInv, TypeOK', [Next]_vars
  PROVE  ExclusionInv'
<1> USE DEF ExclusionInv
<1>1. CASE \E j \in Job : SubmitStart(j) \/ Submit(j)
  BY <1>1, PlacedSubmit, ExclusionSubmit
<1>2. CASE \E w \in Worker : WorkerTake(w) \/ WorkerExit(w) \/ Execute(w)
  BY <1>2, PlacedWorker, ExclusionWorker
<1>3. CASE UNCHANGED <<chan, sub, wpc, wjob, uniqueJobs>>
  <2>1. Placed'
    BY <1>3 DEF Placed, InChan
  <2>2. \A k \in Job : OwnsKey(k)' <=> OwnsKey(k)
    BY <1>3 DEF OwnsKey, InChan, OnWorker
  <2> QED
    BY <1>3, <2>1, <2>2, SameOwners
<1> QED
  BY <1>1, <1>2, <1>3, ClientsKeepPlaces DEF Next

\* In every reachable state a job is in one place and owns its key from Submit to
\* release.
THEOREM ExclusionInvariant == Spec => []ExclusionInv
<1>1. Init => ExclusionInv
  BY ExclusionInvInit, QueueAssumption
<1>2. ExclusionInv /\ TypeOK' /\ [Next]_vars => ExclusionInv'
  BY ExclusionInvStep
<1> QED
  BY <1>1, <1>2, TypeCorrect, PTL DEF Spec

\* Unique jobs with one key exclude each other, for any number of jobs, keys,
\* workers and clients, with cancellation, deletion and shutdown at any moment.
THEOREM UniqueJobsAreExclusive == Spec => []UniqueJobsExclude
<1>1. ExclusionInv => UniqueJobsExclude
  BY DEF ExclusionInv
<1> QED
  BY <1>1, ExclusionInvariant, PTL

(***************************************************************************)
(* The registry.                                                           *)
(***************************************************************************)
\* Before the section of Submit that lists the job.
Early == {"idle", "open", "keyed", "dup"}
\* A worker has the job and has not decided whether to run it.
Undecided == {"lookup", "deadline", "arm", "start"}

\* What is listed: nothing before registerJob, nothing after a failed Submit's cleanup.
Listing ==
  /\ \A j \in Job : sub[j] \in Early =>
       j \notin registry /\ state[j] = "none" /\ outcome[j] = {}
  /\ \A j \in Job : sub[j] \in {"unkey", "refused"} => j \notin registry
  /\ \A j \in registry : state[j] # "none"
  /\ \A c \in Canceller : cpc[c] # "idle" => sub[cjob[c]] \notin Early

\* What updateStatus does to each job and each watcher.
LEMMA UpdateStatusEffect ==
  ASSUME TypeOK, NEW j \in Job, NEW s \in State, updateStatus(j, s)
  PROVE  /\ \A k \in Job \ {j} : state'[k] = state[k] /\ outcome'[k] = outcome[k]
         /\ j \notin registry => UNCHANGED entryVars
         /\ j \in registry =>
              /\ state'[j] = s /\ outcome'[j] = outcome[j] \cup ({s} \cap Terminal)
              /\ \A x \in Watcher :
                   IF Attached(x, j)
                   THEN lastEvent'[x] = s /\ watch'[x] = IF s \in Terminal THEN "closed" ELSE "open"
                   ELSE lastEvent'[x] = lastEvent[x] /\ watch'[x] = watch[x]
  BY DEF TypeOK, updateStatus, entryVars, Attached

\* Publishing a state of a listed job keeps the listing facts.
LEMMA ListingUpdate ==
  ASSUME TypeOK, Listing, NEW j \in Job, NEW s \in State \ {"none"}, updateStatus(j, s),
         UNCHANGED <<registry, sub, cjob>>,
         \A c \in Canceller : cpc'[c] # "idle" => cpc[c] # "idle"
  PROVE  Listing'
<1>1. \A k \in Job : sub[k] \in Early => state'[k] = state[k] /\ outcome'[k] = outcome[k]
  BY UpdateStatusEffect DEF Listing, entryVars
<1>2. \A k \in registry : state'[k] # "none"
  BY UpdateStatusEffect DEF Listing, entryVars, TypeOK
<1> QED
  BY <1>1, <1>2 DEF Listing

\* Submit lists a job once, and takes it off the registry only for good.
LEMMA ListingSubmit ==
  ASSUME TypeOK, Listing, NEW j \in Job, SubmitStart(j) \/ Submit(j)
  PROVE  Listing'
<1> USE DEF SubmitAt, submitFrame, queueVars, entryVars, flagVars, workerVars,
            cancelVars, deleteVars, Early, Listing, TypeOK
<1>1. CASE SubmitStart(j)
  BY <1>1 DEF SubmitStart
<1>2. CASE SubmitKey(j)
  BY <1>2 DEF SubmitKey
<1>3. CASE SubmitRegister(j)
  BY <1>3 DEF SubmitRegister, registerJob
<1>4. CASE SubmitDuplicate(j)
  BY <1>4, UpdateStatusEffect DEF SubmitDuplicate, State, Terminal
<1>5. CASE SubmitEnqueue(j)
  BY <1>5 DEF SubmitEnqueue
<1>6. CASE SubmitAbort(j)
  BY <1>6 DEF SubmitAbort
<1>7. CASE CleanupEntry(j)
  BY <1>7 DEF CleanupEntry
<1>8. CASE CleanupKey(j)
  BY <1>8 DEF CleanupKey
<1> QED
  BY <1>1, <1>2, <1>3, <1>4, <1>5, <1>6, <1>7, <1>8 DEF Submit

\* A worker publishes, and leaves the registry alone.
LEMMA ListingWorker ==
  ASSUME TypeOK, Listing, NEW w \in Worker, WorkerTake(w) \/ WorkerExit(w) \/ Execute(w)
  PROVE  Listing'
<1> USE DEF WorkerAt, workerFrame, entryVars, cancelVars, Listing
<1>0. wpc[w] \in Busy => wjob[w] \in Job
  BY DEF TypeOK
<1>1. CASE WorkerStart(w)
  BY <1>0, <1>1, ListingUpdate DEF WorkerStart, State, Busy, WorkerPc
<1>2. CASE WorkerFinish(w)
  BY <1>0, <1>2, ListingUpdate DEF WorkerFinish, State, Busy, WorkerPc, Terminal
<1> QED
  BY <1>1, <1>2 DEF WorkerTake, WorkerExit, Execute, WorkerLookup, WorkerDeadline,
     WorkerArm, WorkerReturn, WorkerRelease

\* Cancel and Delete reach only jobs that were listed.
LEMMA ListingClients ==
  ASSUME TypeOK, Listing,
         \/ \E c \in Canceller : CancelSignal(c) \/ CancelMark(c)
         \/ \E c \in Canceller, j \in Job : CancelRequest(c, j)
         \/ \E d \in Deleter : DeleteEntry(d)
         \/ \E d \in Deleter, j \in Job : DeleteCheck(d, j)
         \/ \E x \in Watcher, j \in Job : Watch(x, j)
         \/ Shutdown \/ Stop \/ RunSeesStop
         \/ UNCHANGED vars
  PROVE  Listing'
<1> USE DEF queueVars, entryVars, flagVars, workerVars, cancelVars, deleteVars, Listing
<1>1. ASSUME NEW c \in Canceller, CancelSignal(c) PROVE Listing'
  BY <1>1 DEF CancelSignal, CancelAt, cancelFrame, TypeOK
<1>2. ASSUME NEW c \in Canceller, CancelMark(c) PROVE Listing'
  <2>1. /\ UNCHANGED <<registry, sub, cjob>>
        /\ \A b \in Canceller : cpc'[b] # "idle" => cpc[b] # "idle"
    BY <1>2 DEF CancelMark, CancelAt, cancelFrame, TypeOK
  <2>2. cjob[c] \in Job /\ "cancelled" \in State
    BY <1>2 DEF CancelMark, CancelAt, TypeOK, State, Terminal
  <2>3. CASE updateStatus(cjob[c], "cancelled")
    BY <2>1, <2>2, <2>3, ListingUpdate
  <2>4. CASE UNCHANGED entryVars
    BY <2>1, <2>4
  <2> QED
    BY <1>2, <2>3, <2>4 DEF CancelMark
<1>3. ASSUME NEW c \in Canceller, NEW j \in Job, CancelRequest(c, j) PROVE Listing'
  BY <1>3 DEF CancelRequest, CancelAt, cancelFrame, TypeOK
<1>4. ASSUME NEW d \in Deleter, DeleteEntry(d) PROVE Listing'
  BY <1>4 DEF DeleteEntry, deleteFrame
<1>5. ASSUME NEW d \in Deleter, NEW j \in Job, DeleteCheck(d, j) PROVE Listing'
  BY <1>5 DEF DeleteCheck, deleteFrame
<1>6. ASSUME NEW x \in Watcher, NEW j \in Job, Watch(x, j) PROVE Listing'
  BY <1>6 DEF Watch
<1>7. CASE Shutdown \/ Stop \/ RunSeesStop \/ UNCHANGED vars
  BY <1>7 DEF Shutdown, Stop, RunSeesStop, lifeFrame, vars
<1> QED
  BY <1>1, <1>2, <1>3, <1>4, <1>5, <1>6, <1>7

\* The order in which execute goes through its steps.
LEMMA ExecuteOrder ==
  ASSUME TypeOK, NEW w \in Worker, Execute(w)
  PROVE  \/ wpc[w] \in Undecided
         \/ wpc[w] = "running" /\ wpc'[w] \in Terminal
         \/ wpc[w] \in Terminal /\ wpc'[w] \in {"release", "idle"}
         \/ wpc[w] = "release" /\ wpc'[w] = "idle"
<1> USE DEF WorkerAt, Terminal, Undecided
<1>1. CASE WorkerReturn(w)
  BY <1>1 DEF WorkerReturn, TypeOK
<1>2. CASE WorkerFinish(w)
  BY <1>2 DEF WorkerFinish, TypeOK
<1>3. CASE WorkerRelease(w)
  BY <1>3 DEF WorkerRelease, TypeOK
<1> QED
  BY <1>1, <1>2, <1>3 DEF Execute, WorkerLookup, WorkerDeadline, WorkerArm, WorkerStart

\* A job that left the channel never returns to it, and only its worker moves it on.
LEMMA TakenJob ==
  ASSUME TypeOK, Placed, [Next]_vars, NEW j \in Job, sub[j] = "accepted", ~InChan(j)
  PROVE  /\ sub'[j] = "accepted" /\ ~InChan(j)'
         /\ \A w \in Worker : OnWorker(w, j)' =>
              OnWorker(w, j) /\ \/ wpc'[w] = wpc[w]
                                \/ wpc[w] \in Undecided
                                \/ wpc[w] = "running" /\ wpc'[w] \in Terminal
                                \/ wpc[w] \in Terminal /\ wpc'[w] = "release"
<1>1. ASSUME NEW k \in Job, SubmitStart(k) \/ Submit(k)
      PROVE  /\ sub'[j] = "accepted" /\ ~InChan(j)'
             /\ wpc' = wpc /\ wjob' = wjob
  <2>1. k # j /\ sub'[j] = sub[j] /\ wpc' = wpc /\ wjob' = wjob
    BY <1>1 DEF SubmitStart, Submit, SubmitKey, SubmitRegister, SubmitDuplicate, SubmitEnqueue,
         SubmitAbort, CleanupEntry, CleanupKey, SubmitAt, submitFrame, workerVars, TypeOK
  <2>2. chan' = chan \/ chan' = Append(chan, k)
    BY <1>1 DEF SubmitStart, Submit, SubmitKey, SubmitRegister, SubmitDuplicate, SubmitEnqueue,
         SubmitAbort, CleanupEntry, CleanupKey
  <2>3. ~InChan(j)'
    BY <2>1, <2>2, SendInChan DEF InChan
  <2> QED
    BY <2>1, <2>3
<1>2. ASSUME NEW w \in Worker, WorkerTake(w)
      PROVE  /\ sub'[j] = "accepted" /\ ~InChan(j)'
             /\ \A v \in Worker : OnWorker(v, j)' => OnWorker(v, j) /\ wpc'[v] = wpc[v]
  <2>1. /\ chan # <<>> /\ chan' = Tail(chan) /\ sub' = sub /\ wpc[w] = "idle"
        /\ wpc' = [wpc EXCEPT ![w] = "lookup"] /\ wjob' = [wjob EXCEPT ![w] = Head(chan)]
    BY <1>2 DEF WorkerTake, WorkerAt, workerFrame
  <2>2. ~InChan(j)' /\ j # Head(chan)
    BY <2>1, ReceiveInChan
  <2> QED
    BY <2>1, <2>2 DEF OnWorker, TypeOK
<1>3. ASSUME NEW w \in Worker, WorkerExit(w)
      PROVE  /\ sub'[j] = "accepted" /\ ~InChan(j)'
             /\ \A v \in Worker : OnWorker(v, j)' => OnWorker(v, j) /\ wpc'[v] = wpc[v]
  BY <1>3 DEF WorkerExit, WorkerAt, workerFrame, InChan, OnWorker, TypeOK, Busy
<1>4. ASSUME NEW w \in Worker, Execute(w)
      PROVE  /\ sub'[j] = "accepted" /\ ~InChan(j)'
             /\ \A v \in Worker : OnWorker(v, j)' => 
                  OnWorker(v, j) /\ (v = w \/ wpc'[v] = wpc[v])
  <2>1. chan' = chan /\ sub' = sub
    BY <1>4, ExecuteStep
  <2>2. CASE wjob' = wjob /\ \E p \in Busy : wpc' = [wpc EXCEPT ![w] = p]
    BY <1>4, <2>1, <2>2, ExecuteStep DEF OnWorker, InChan, TypeOK
  <2>3. CASE wpc' = [wpc EXCEPT ![w] = "idle"] /\ wjob' = [wjob EXCEPT ![w] = NoJob]
    BY <2>1, <2>3 DEF OnWorker, InChan, TypeOK, Busy
  <2> QED
    BY <1>4, <2>2, <2>3, ExecuteStep
<1>5. CASE UNCHANGED <<chan, sub, wpc, wjob, uniqueJobs>>
  BY <1>5 DEF InChan, OnWorker
<1>6. ASSUME NEW w \in Worker, OnWorker(w, j)' PROVE wpc'[w] # "idle"
  BY <1>6 DEF OnWorker, Busy
<1> QED
  BY <1>1, <1>2, <1>3, <1>4, <1>5, <1>6, ExecuteOrder, ClientsKeepPlaces DEF Next, InChan, OnWorker

(***************************************************************************)
(* How a job's published state changes.                                    *)
(***************************************************************************)
\* A step in which the caller of Submit, a worker or a Cancel says s of job k.
Announces(k, s) ==
  \/ sub[k] = "dupListed" /\ sub'[k] = "duplicate" /\ s = "cancelled"
  \/ \E w \in Worker : wjob[w] = k /\ wpc[w] = "start" /\ wpc'[w] = "running" /\ s = "running"
  \/ \E w \in Worker : /\ wjob[w] = k /\ wpc[w] = s /\ s \in Terminal
                       /\ wpc'[w] \in {"release", "idle"} /\ Execute(w)
  \/ \E c \in Canceller : /\ cjob[c] = k /\ cpc[c] = "signalled" /\ csaw[c] = "queued"
                          /\ s = "cancelled"

\* What was announced of a listed job is what its entry says now.
Published(k) ==
  \E s \in State \ {"none", "queued"} :
    /\ Announces(k, s) /\ k \in registry
    /\ state'[k] = s /\ outcome'[k] = outcome[k] \cup ({s} \cap Terminal)

\* Nothing was published of job k.
SameWord(k) == state'[k] = state[k] /\ outcome'[k] = outcome[k]

\* The published state of a job in a step of Submit.
LEMMA WordSubmit ==
  ASSUME TypeOK, NEW j \in Job, SubmitStart(j) \/ Submit(j), NEW k \in Job
  PROVE  \/ SameWord(k) \/ Published(k)
         \/ /\ SubmitRegister(j) /\ k = j
            /\ state'[k] = "queued" /\ outcome'[k] = outcome[k]
<1>1. CASE SubmitDuplicate(j)
  <2>1. /\ sub[j] = "dupListed" /\ sub'[j] = "duplicate" /\ updateStatus(j, "cancelled")
        /\ "cancelled" \in State \ {"none", "queued"}
    BY <1>1 DEF SubmitDuplicate, SubmitAt, State, Terminal, TypeOK
  <2>2. k # j => SameWord(k)
    BY <2>1, UpdateStatusEffect DEF SameWord
  <2>3. j \notin registry => SameWord(j)
    BY <2>1, UpdateStatusEffect DEF SameWord, entryVars
  <2>4. j \in registry => Published(j)
    BY <2>1, UpdateStatusEffect DEF Published, Announces
  <2> QED
    BY <2>2, <2>3, <2>4
<1>2. CASE SubmitRegister(j)
  BY <1>2 DEF SubmitRegister, registerJob, SameWord, TypeOK
<1> QED
  BY <1>1, <1>2 DEF SubmitStart, Submit, SubmitKey, SubmitEnqueue, SubmitAbort, CleanupEntry,
     CleanupKey, SameWord, entryVars

\* The published state of a job in a step of a worker.
LEMMA WordWorker ==
  ASSUME TypeOK, NEW w \in Worker, WorkerTake(w) \/ WorkerExit(w) \/ Execute(w), NEW k \in Job
  PROVE  SameWord(k) \/ Published(k)
<1>0. wpc[w] \in Busy => wjob[w] \in Job
  BY DEF TypeOK
<1>1. ASSUME NEW s \in {"running"} \cup Terminal, wjob[w] \in Job, updateStatus(wjob[w], s),
             Announces(wjob[w], s)
      PROVE  SameWord(k) \/ Published(k)
  <2>1. s \in State \ {"none", "queued"}
    BY <1>1 DEF State, Terminal
  <2>2. k # wjob[w] => SameWord(k)
    BY <1>1, <2>1, UpdateStatusEffect DEF SameWord
  <2>3. wjob[w] \notin registry => SameWord(wjob[w])
    BY <1>1, <2>1, UpdateStatusEffect DEF SameWord, entryVars
  <2>4. wjob[w] \in registry => Published(wjob[w])
    BY <1>1, <2>1, UpdateStatusEffect DEF Published
  <2> QED
    BY <2>2, <2>3, <2>4
<1>2. CASE WorkerStart(w)
  BY <1>0, <1>1, <1>2 DEF WorkerStart, WorkerAt, Announces, TypeOK, Busy, WorkerPc
<1>3. CASE WorkerFinish(w)
  <2>1. /\ wpc[w] \in Terminal /\ wjob[w] \in Job /\ updateStatus(wjob[w], wpc[w])
        /\ wpc'[w] \in {"release", "idle"} /\ Execute(w)
    BY <1>0, <1>3 DEF WorkerFinish, WorkerAt, TypeOK, Busy, WorkerPc, Execute, Terminal
  <2> QED
    BY <1>1, <2>1 DEF Announces
<1> QED
  BY <1>2, <1>3 DEF WorkerTake, WorkerExit, Execute, WorkerLookup, WorkerDeadline,
     WorkerArm, WorkerReturn, WorkerRelease, SameWord, entryVars

\* The published state of a job in a step of Cancel, Delete, Watch or the backend.
LEMMA WordClients ==
  ASSUME TypeOK, NEW k \in Job,
         \/ \E c \in Canceller : CancelSignal(c) \/ CancelMark(c)
         \/ \E c \in Canceller, j \in Job : CancelRequest(c, j)
         \/ \E d \in Deleter : DeleteEntry(d)
         \/ \E d \in Deleter, j \in Job : DeleteCheck(d, j)
         \/ \E x \in Watcher, j \in Job : Watch(x, j)
         \/ Shutdown \/ Stop \/ RunSeesStop
         \/ UNCHANGED vars
  PROVE  SameWord(k) \/ Published(k)
<1>1. ASSUME NEW c \in Canceller, CancelMark(c) PROVE SameWord(k) \/ Published(k)
  <2>1. CASE csaw[c] = "queued" /\ updateStatus(cjob[c], "cancelled")
    <3>1. /\ cpc[c] = "signalled" /\ cjob[c] \in Job
          /\ "cancelled" \in State \ {"none", "queued"}
      BY <1>1 DEF CancelMark, CancelAt, TypeOK, State, Terminal
    <3>2. k # cjob[c] => SameWord(k)
      BY <2>1, <3>1, UpdateStatusEffect DEF SameWord
    <3>3. cjob[c] \notin registry => SameWord(cjob[c])
      BY <2>1, <3>1, UpdateStatusEffect DEF SameWord, entryVars
    <3>4. cjob[c] \in registry => Published(cjob[c])
      BY <2>1, <3>1, UpdateStatusEffect DEF Published, Announces
    <3> QED
      BY <3>2, <3>3, <3>4
  <2> QED
    BY <1>1, <2>1 DEF CancelMark, SameWord, entryVars
<1> QED
  BY <1>1 DEF CancelSignal, CancelRequest, DeleteEntry, DeleteCheck, deleteFrame, Watch, Shutdown,
     Stop, RunSeesStop, lifeFrame, vars, SameWord, entryVars

\* A job's state is set once by Submit; after that every change is announced by one
\* of those who run, cancel or reject it, and only while the job is listed.
LEMMA WordStep ==
  ASSUME TypeOK, [Next]_vars, NEW k \in Job
  PROVE  \/ SameWord(k) \/ Published(k)
         \/ SubmitRegister(k) /\ state'[k] = "queued" /\ outcome'[k] = outcome[k]
  BY WordSubmit, WordWorker, WordClients DEF Next

(***************************************************************************)
(* Cancelling a running job.                                               *)
(***************************************************************************)
\* No worker will start the job any more.
Started(j) ==
  /\ sub[j] = "accepted" /\ ~InChan(j)
  /\ \A w \in Worker : OnWorker(w, j) => wpc[w] \notin Undecided

\* A worker that has a listed job knows its entry and installed cancelRun before the run.
Installed ==
  /\ \A w \in Worker :
       wpc[w] \in Busy \ {"lookup"} /\ wjob[w] \in registry => wentry[w]
  /\ \A w \in Worker :
       wpc[w] \in {"start", "running"} /\ wentry[w] => wjob[w] \in cancelRun

\* A job seen running is started, and a Cancel that saw it so has signalled it.
SeenRunning ==
  /\ \A j \in Job : state[j] = "running" => Started(j)
  /\ \A c \in Canceller : cpc[c] # "idle" /\ csaw[c] = "running" => Started(cjob[c])
  /\ \A c \in Canceller :
       /\ cpc[c] \in {"signalled", "returned"} /\ csaw[c] = "running"
       /\ Running(cjob[c])
       => cjob[c] \in runCancel

\* A started job is never started again.
LEMMA StartedStays ==
  ASSUME TypeOK, Placed, [Next]_vars, NEW j \in Job, Started(j)
  PROVE  Started(j)'
  BY TakenJob DEF Started, Undecided, Terminal

\* Submit does not touch a job that a worker has.
LEMMA InstalledSubmit ==
  ASSUME TypeOK, Placed, Installed, NEW j \in Job, SubmitStart(j) \/ Submit(j)
  PROVE  Installed'
<1>1. /\ UNCHANGED <<wpc, wjob, wentry, cancelRun>>
      /\ registry' \subseteq registry \cup {j} /\ sub[j] # "accepted"
  BY DEF SubmitStart, Submit, SubmitKey, SubmitRegister, registerJob, SubmitDuplicate,
         SubmitEnqueue, SubmitAbort, CleanupEntry, CleanupKey, SubmitAt, submitFrame,
         workerVars, flagVars
<1>2. \A w \in Worker : wpc[w] \in Busy => wjob[w] # j
  BY <1>1 DEF Placed
<1> QED
  BY <1>1, <1>2 DEF Installed

\* cancelRun is installed before the run and removed after it.
LEMMA InstalledWorker ==
  ASSUME TypeOK, Placed, Installed, NEW w \in Worker,
         WorkerTake(w) \/ WorkerExit(w) \/ Execute(w)
  PROVE  Installed'
<1> USE DEF WorkerAt, Installed, TypeOK, Busy, WorkerPc, Terminal
<1>1. CASE WorkerTake(w)
  BY <1>1 DEF WorkerTake
<1>2. CASE WorkerExit(w)
  BY <1>2 DEF WorkerExit
<1>3. CASE WorkerLookup(w)
  BY <1>3, ZenonT(30) DEF WorkerLookup
<1>4. CASE WorkerDeadline(w)
  BY <1>4 DEF WorkerDeadline
<1>5. CASE WorkerArm(w)
  BY <1>5 DEF WorkerArm
<1>6. CASE WorkerStart(w)
  BY <1>6 DEF WorkerStart
<1>7. CASE WorkerReturn(w)
  <2>1. \A v \in Worker \ {w} : wpc[v] \in Busy => wjob[v] # wjob[w]
    BY <1>7 DEF WorkerReturn, Placed
  <2>2. /\ wpc[w] = "running" /\ wpc'[w] \in Terminal
        /\ \A v \in Worker \ {w} : wpc'[v] = wpc[v]
        /\ UNCHANGED <<wjob, wentry, registry>> /\ cancelRun \ {wjob[w]} \subseteq cancelRun'
    BY <1>7 DEF WorkerReturn
  <2> QED
    BY <2>1, <2>2
<1>8. CASE WorkerFinish(w)
  BY <1>8 DEF WorkerFinish, Forget
<1>9. CASE WorkerRelease(w)
  BY <1>9 DEF WorkerRelease, Forget
<1> QED
  BY <1>1, <1>2, <1>3, <1>4, <1>5, <1>6, <1>7, <1>8, <1>9 DEF Execute

\* Cancel, Delete and Watch leave cancelRun in place.
LEMMA InstalledClients ==
  ASSUME Installed,
         \/ \E c \in Canceller : CancelSignal(c) \/ CancelMark(c)
         \/ \E c \in Canceller, j \in Job : CancelRequest(c, j)
         \/ \E d \in Deleter : DeleteEntry(d)
         \/ \E d \in Deleter, j \in Job : DeleteCheck(d, j)
         \/ \E x \in Watcher, j \in Job : Watch(x, j)
         \/ Shutdown \/ Stop \/ RunSeesStop
         \/ UNCHANGED vars
  PROVE  Installed'
<1>1. UNCHANGED <<wpc, wjob, wentry, cancelRun>> /\ registry' \subseteq registry
  BY DEF CancelSignal, CancelMark, CancelRequest, cancelFrame, DeleteEntry, DeleteCheck,
         deleteFrame, Watch, Shutdown, Stop, RunSeesStop, lifeFrame, vars, workerVars, flagVars
<1> QED
  BY <1>1 DEF Installed

\* A listed job that runs can be interrupted.
LEMMA RunningInstalled ==
  ASSUME TypeOK, Installed, NEW j \in registry, Running(j)
  PROVE  j \in cancelRun
  BY DEF Installed, Running, Busy, WorkerPc

\* A started job runs after a step only if it ran before.
LEMMA StartedRuns ==
  ASSUME TypeOK, Placed, [Next]_vars, NEW j \in Job, Started(j), Running(j)'
  PROVE  Running(j)
<1>1. PICK w \in Worker : wpc'[w] = "running" /\ wjob'[w] = j
  BY DEF Running
<1>2. OnWorker(w, j)'
  BY <1>1 DEF OnWorker, Busy, WorkerPc
<1> QED
  BY <1>1, <1>2, TakenJob DEF Started, Running, OnWorker, Terminal

\* What one step does to a goroutine in Cancel.
LEMMA CancellerStep ==
  ASSUME TypeOK, [Next]_vars, NEW c \in Canceller
  PROVE  /\ runCancel \subseteq runCancel'
         /\ cpc[c] # "idle" =>
              /\ cpc'[c] # "idle" /\ cjob'[c] = cjob[c] /\ csaw'[c] = csaw[c]
              /\ cpc'[c] \in {"signalled", "returned"} =>
                   cpc[c] \in {"signalled", "returned"} \/ cjob[c] \in runCancel'
         /\ cpc[c] = "idle" /\ cpc'[c] # "idle" =>
              \E j \in registry :
                /\ cjob'[c] = j /\ csaw'[c] = state[j]
                /\ state[j] \notin Terminal =>
                     /\ j \in cancelReq'
                     /\ cpc'[c] \in {"signalled", "returned"} => j \notin cancelRun
                /\ wpc' = wpc /\ wjob' = wjob /\ state' = state /\ outcome' = outcome
<1> USE DEF cancelVars, flagVars, workerVars, entryVars
<1>1. CASE UNCHANGED <<cancelVars, cancelReq, runCancel>>
  BY <1>1
<1>2. CASE \E b \in Canceller : CancelSignal(b) \/ CancelMark(b)
  BY <1>2 DEF CancelSignal, CancelMark, CancelAt, cancelFrame, TypeOK
<1>3. CASE \E b \in Canceller, j \in Job : CancelRequest(b, j)
  BY <1>3 DEF CancelRequest, CancelAt, cancelFrame, TypeOK
<1> QED
  BY <1>1, <1>2, <1>3 DEF Next, vars, SubmitStart, Submit, SubmitKey, SubmitRegister,
    SubmitDuplicate, SubmitEnqueue, SubmitAbort, CleanupEntry, CleanupKey, submitFrame,
    WorkerTake, WorkerExit, Execute, WorkerLookup, WorkerDeadline, WorkerArm, WorkerStart,
    WorkerReturn, WorkerFinish, WorkerRelease, workerFrame, DeleteEntry, DeleteCheck,
    deleteFrame, Watch, Shutdown, Stop, RunSeesStop, lifeFrame

\* A cancellation request is never taken back.
LEMMA CancelReqGrows == ASSUME [Next]_vars PROVE cancelReq \subseteq cancelReq'
  BY DEF Next, vars, flagVars, SubmitStart, Submit, SubmitKey, SubmitRegister,
    SubmitDuplicate, SubmitEnqueue, SubmitAbort, CleanupEntry, CleanupKey, submitFrame,
    WorkerTake, WorkerExit, Execute, WorkerLookup, WorkerDeadline, WorkerArm, WorkerStart,
    WorkerReturn, WorkerFinish, WorkerRelease, workerFrame, CancelSignal, CancelMark,
    CancelRequest, DeleteEntry, DeleteCheck, deleteFrame, Watch, Shutdown, Stop, RunSeesStop,
    lifeFrame

\* A Cancel that saw a run interrupts it before it returns.
LEMMA SeenRunningStep ==
  ASSUME TypeOK, Placed, Installed, SeenRunning, [Next]_vars
  PROVE  SeenRunning'
<1>1. ASSUME NEW j \in Job, state'[j] = "running" PROVE Started(j)'
  <2>1. CASE state[j] = "running"
    BY <2>1, StartedStays DEF SeenRunning
  <2>2. CASE state[j] # "running"
    <3>1. Published(j)
      BY <1>1, <2>2, WordStep DEF SameWord
    <3>2. PICK w \in Worker : wjob[w] = j /\ wpc[w] = "start" /\ wpc'[w] = "running"
      BY <1>1, <3>1 DEF Published, Announces, Terminal
    <3>3. /\ sub[j] = "accepted" /\ ~InChan(j)
          /\ \A v \in Worker : OnWorker(v, j) => v = w
      BY <3>2 DEF Placed, Busy, WorkerPc, OnWorker
    <3> QED
      BY <3>2, <3>3, TakenJob DEF Started, Undecided
  <2> QED
    BY <2>1, <2>2
<1>2. ASSUME NEW c \in Canceller, cpc'[c] # "idle", csaw'[c] = "running"
      PROVE  Started(cjob[c])'
  <2>1. CASE cpc[c] # "idle"
    BY <1>2, <2>1, CancellerStep, StartedStays DEF SeenRunning, TypeOK
  <2>2. CASE cpc[c] = "idle"
    <3>1. PICK j \in Job : cjob'[c] = j /\ state[j] = "running"
      BY <1>2, <2>2, CancellerStep DEF TypeOK
    <3> QED
      BY <3>1, StartedStays DEF SeenRunning, Started, OnWorker, InChan
  <2> QED
    BY <2>1, <2>2
<1>3. ASSUME NEW c \in Canceller, cpc'[c] \in {"signalled", "returned"},
             csaw'[c] = "running", Running(cjob[c])'
      PROVE  cjob'[c] \in runCancel'
  <2>1. CASE cpc[c] # "idle"
    <3>1. cjob[c] \in Job /\ cjob'[c] = cjob[c] /\ Started(cjob[c])
      BY <1>3, <2>1, CancellerStep DEF SeenRunning, TypeOK
    <3>2. Running(cjob[c])
      BY <1>3, <3>1, StartedRuns
    <3> QED
      BY <1>3, <2>1, <3>1, <3>2, CancellerStep DEF SeenRunning
  <2>2. CASE cpc[c] = "idle"
    <3>1. PICK j \in registry : /\ cjob'[c] = j /\ state[j] = "running" /\ j \notin cancelRun
                                /\ wpc' = wpc /\ wjob' = wjob
      BY <1>3, <2>2, CancellerStep DEF Terminal
    <3>2. Running(j)
      BY <1>3, <3>1 DEF Running
    <3> QED
      BY <3>1, <3>2, RunningInstalled
  <2> QED
    BY <2>1, <2>2
<1> QED
  BY <1>1, <1>2, <1>3 DEF SeenRunning

(***************************************************************************)
(* One outcome per job.                                                    *)
(***************************************************************************)
\* Nobody but a Cancel will say anything of the job any more.
Over(j) ==
  \/ sub[j] = "duplicate"
  \/ /\ sub[j] = "accepted" /\ ~InChan(j)
     /\ \A w \in Worker : OnWorker(w, j) => wpc[w] = "release"

\* "cancelled" was published, or a Cancel that saw the job queued is going to.
Condemned(j) ==
  \/ "cancelled" \in outcome[j]
  \/ \E c \in Canceller : cpc[c] # "idle" /\ csaw[c] = "queued" /\ cjob[c] = j

\* Outcomes agree: whoever still has something to say of a listed job will say what
\* was said before.
Verdicts ==
  /\ \A j \in registry : Over(j) => state[j] \in Terminal
  /\ \A j \in registry, w \in Worker :
       OnWorker(w, j) /\ state[j] = "queued" => wpc[w] \in Undecided \cup {"cancelled"}
  /\ \A j \in Job : state[j] \in Terminal => outcome[j] = {state[j]}
  /\ \A j \in Job : \A s, t \in outcome[j] : s = t
  /\ \A j \in registry : outcome[j] # {} /\ "cancelled" \notin outcome[j] => Over(j)
  /\ \A j \in registry : Condemned(j) =>
       /\ outcome[j] \subseteq {"cancelled"}
       /\ j \in cancelReq \/ Over(j)
       /\ \A w \in Worker : OnWorker(w, j) => wpc[w] \notin {"succeeded", "failed"}

\* Nothing more happens to a job that is over.
LEMMA OverStays ==
  ASSUME TypeOK, Placed, [Next]_vars, NEW j \in Job, Over(j)
  PROVE  Over(j)'
<1>1. CASE sub[j] = "accepted"
  <2>1. ~InChan(j) /\ \A w \in Worker : OnWorker(w, j) => wpc[w] = "release"
    BY <1>1 DEF Over
  <2> QED
    BY <1>1, <2>1, TakenJob DEF Over, Undecided, Terminal
<1>2. CASE sub[j] = "duplicate"
  <2>1. sub'[j] = "duplicate"
    BY <1>2 DEF Next, vars, SubmitStart, Submit, SubmitKey, SubmitRegister, SubmitDuplicate,
      SubmitEnqueue, SubmitAbort, CleanupEntry, CleanupKey, SubmitAt, WorkerTake, WorkerExit,
      Execute, WorkerLookup, WorkerDeadline, WorkerArm, WorkerStart, WorkerReturn,
      WorkerFinish, WorkerRelease, workerFrame, CancelSignal, CancelMark, CancelRequest,
      cancelFrame, DeleteEntry, DeleteCheck, deleteFrame, Watch, Shutdown, Stop, RunSeesStop,
      lifeFrame, TypeOK
  <2> QED
    BY <2>1 DEF Over
<1> QED
  BY <1>1, <1>2 DEF Over

\* The last word but a Cancel's: by Submit on a duplicate, or by the job's worker.
LEMMA BecomesOver ==
  ASSUME TypeOK, Placed, [Next]_vars, NEW j \in Job, ~Over(j), Over(j)'
  PROVE  SubmitDuplicate(j) \/ \E w \in Worker : WorkerFinish(w) /\ wjob[w] = j
<1>1. ASSUME NEW k \in Job, SubmitStart(k) \/ Submit(k) PROVE SubmitDuplicate(j)
  <2>1. wpc' = wpc /\ wjob' = wjob /\ \A i \in Job \ {k} : sub'[i] = sub[i]
    BY <1>1 DEF SubmitStart, Submit, SubmitKey, SubmitRegister, SubmitDuplicate, SubmitEnqueue,
       SubmitAbort, CleanupEntry, CleanupKey, SubmitAt, submitFrame, workerVars, TypeOK
  <2>2. CASE SubmitEnqueue(k)
    <3>1. \A i \in Job : InChan(i)' <=> InChan(i) \/ i = k
      BY <2>2, SendInChan DEF SubmitEnqueue
    <3>2. sub'[k] = "accepted" /\ sub[k] = "enqueue"
      BY <2>2 DEF SubmitEnqueue, SubmitAt, TypeOK
    <3> QED
      BY <2>1, <3>1, <3>2 DEF Over, OnWorker
  <2>3. CASE ~SubmitEnqueue(k) /\ ~SubmitDuplicate(k)
    <3>1. chan' = chan /\ sub'[k] \notin {"accepted", "duplicate"}
      BY <1>1, <2>3 DEF SubmitStart, Submit, SubmitKey, SubmitRegister, SubmitAbort,
         CleanupEntry, CleanupKey, SubmitAt, TypeOK
    <3> QED
      BY <2>1, <3>1 DEF Over, OnWorker, InChan
  <2>4. CASE SubmitDuplicate(k)
    <3>1. chan' = chan
      BY <2>4 DEF SubmitDuplicate
    <3> QED
      BY <2>1, <2>4, <3>1 DEF Over, OnWorker, InChan
  <2> QED
    BY <2>2, <2>3, <2>4
<1>2. ASSUME NEW w \in Worker, WorkerTake(w) PROVE FALSE
  <2>1. /\ chan # <<>> /\ chan' = Tail(chan) /\ sub' = sub /\ wpc[w] = "idle"
        /\ wpc' = [wpc EXCEPT ![w] = "lookup"] /\ wjob' = [wjob EXCEPT ![w] = Head(chan)]
    BY <1>2 DEF WorkerTake, WorkerAt, workerFrame
  <2>2. InChan(j)' <=> InChan(j) /\ j # Head(chan)
    BY <2>1, ReceiveInChan
  <2>3. j = Head(chan) => OnWorker(w, j)' /\ wpc'[w] = "lookup"
    BY <2>1 DEF OnWorker, TypeOK, Busy, WorkerPc
  <2>4. \A v \in Worker : OnWorker(v, j) => OnWorker(v, j)' /\ wpc'[v] = wpc[v]
    BY <2>1 DEF OnWorker, TypeOK, Busy
  <2> QED
    BY <2>1, <2>2, <2>3, <2>4 DEF Over
<1>3. ASSUME NEW w \in Worker, WorkerExit(w) PROVE FALSE
  <2>1. \A v \in Worker : OnWorker(v, j) => OnWorker(v, j)' /\ wpc'[v] = wpc[v]
    BY <1>3 DEF WorkerExit, WorkerAt, workerFrame, OnWorker, TypeOK, Busy
  <2> QED
    BY <1>3, <2>1 DEF WorkerExit, workerFrame, Over, InChan
<1>4. ASSUME NEW w \in Worker, Execute(w) PROVE WorkerFinish(w) /\ wjob[w] = j
  <2>1. /\ chan' = chan /\ sub' = sub /\ wpc[w] \in Busy
        /\ \A v \in Worker \ {w} : wpc'[v] = wpc[v] /\ wjob'[v] = wjob[v]
    BY <1>4, ExecuteStep DEF TypeOK
  <2>2. OnWorker(w, j) /\ wpc[w] # "release"
    BY <2>1 DEF Over, InChan, OnWorker
  <2>3. CASE ~WorkerFinish(w)
    <3>1. wjob' = wjob /\ wpc'[w] \in Busy \ {"release"}
      BY <1>4, <2>2, <2>3 DEF Execute, WorkerLookup, WorkerDeadline, WorkerArm, WorkerStart,
         WorkerReturn, WorkerRelease, WorkerAt, TypeOK, Busy, WorkerPc, Terminal
    <3> QED
      BY <2>1, <2>2, <3>1 DEF Over, OnWorker, Placed
  <2> QED
    BY <2>2, <2>3 DEF OnWorker
<1>5. ASSUME UNCHANGED <<chan, sub, wpc, wjob>> PROVE FALSE
  BY <1>5 DEF Over, InChan, OnWorker
<1> QED
  BY <1>1, <1>2, <1>3, <1>4, <1>5, ClientsKeepPlaces DEF Next

\* A job enters the registry once, before anyone else knows of it.
LEMMA ListedStep ==
  ASSUME TypeOK, Placed, [Next]_vars, NEW j \in Job, j \in registry'
  PROVE  \/ j \in registry /\ ~SubmitRegister(j)
         \/ /\ SubmitRegister(j) /\ sub[j] \in Early
            /\ sub'[j] \in {"enqueue", "dupListed"} /\ ~Over(j)'
            /\ \A w \in Worker : ~OnWorker(w, j)'
<1>1. CASE SubmitRegister(j)
  <2>1. sub[j] \in Early /\ sub'[j] \in {"enqueue", "dupListed"} /\ wpc' = wpc /\ wjob' = wjob
    BY <1>1 DEF SubmitRegister, SubmitAt, submitFrame, workerVars, TypeOK, Early
  <2>2. \A w \in Worker : ~OnWorker(w, j)
    BY <2>1, NotAcceptedNowhere DEF Early
  <2> QED
    BY <1>1, <2>1, <2>2 DEF Over, OnWorker
<1>2. CASE ~SubmitRegister(j)
  BY <1>2 DEF Next, vars, SubmitStart, Submit, SubmitKey, SubmitRegister, registerJob, SubmitAt,
    SubmitDuplicate, SubmitEnqueue, SubmitAbort, CleanupEntry, CleanupKey,
    WorkerTake, WorkerExit, Execute, WorkerLookup, WorkerDeadline, WorkerArm, WorkerStart,
    WorkerReturn, WorkerFinish, WorkerRelease, CancelSignal, CancelMark,
    CancelRequest, cancelFrame, DeleteEntry, DeleteCheck, deleteFrame, Watch, Shutdown, Stop,
    RunSeesStop, lifeFrame
<1> QED
  BY <1>1, <1>2

\* Whoever announces an outcome agrees with those who did so before.
LEMMA Agreement ==
  ASSUME TypeOK, Placed, Verdicts, [Next]_vars, NEW j \in registry, NEW s \in Terminal,
         Announces(j, s)
  PROVE  outcome[j] \subseteq {s}
<1>0. j \in Job /\ s # "running" /\ outcome[j] \subseteq Terminal
  BY DEF TypeOK, Terminal
<1>1. CASE sub[j] = "dupListed" /\ s = "cancelled"
  <2>1. ~Over(j)
    BY <1>1 DEF Over
  <2>2. outcome[j] = {} \/ Condemned(j)
    BY <2>1 DEF Verdicts, Condemned
  <2> QED
    BY <1>1, <2>2 DEF Verdicts
<1>2. ASSUME NEW w \in Worker, wjob[w] = j, wpc[w] = s PROVE outcome[j] \subseteq {s}
  <2>1. OnWorker(w, j) /\ sub[j] = "accepted" /\ s # "release"
    BY <1>2 DEF OnWorker, Busy, WorkerPc, Placed, Terminal
  <2>2. ~Over(j)
    BY <1>2, <2>1 DEF Over
  <2>3. outcome[j] = {} \/ Condemned(j)
    BY <2>2 DEF Verdicts, Condemned
  <2>4. Condemned(j) => s = "cancelled" /\ outcome[j] \subseteq {"cancelled"}
    BY <1>2, <2>1 DEF Verdicts, Terminal
  <2> QED
    BY <2>3, <2>4
<1>3. ASSUME NEW c \in Canceller, cjob[c] = j, cpc[c] = "signalled", csaw[c] = "queued",
             s = "cancelled"
      PROVE  outcome[j] \subseteq {s}
  <2>1. Condemned(j)
    BY <1>3 DEF Condemned
  <2> QED
    BY <1>3, <2>1 DEF Verdicts
<1> QED
  BY <1>0, <1>1, <1>2, <1>3 DEF Announces

\* Outcomes are kept, and a job has at most one.
LEMMA OneOutcome ==
  ASSUME TypeOK, Placed, Listing, Verdicts, [Next]_vars, NEW j \in Job
  PROVE  /\ outcome[j] \subseteq outcome'[j]
         /\ state'[j] \in Terminal => outcome'[j] = {state'[j]}
         /\ \A s, t \in outcome'[j] : s = t
<1>1. CASE SameWord(j)
  BY <1>1 DEF SameWord, Verdicts
<1>2. CASE SubmitRegister(j) /\ state'[j] = "queued" /\ outcome'[j] = outcome[j]
  BY <1>2 DEF Verdicts, Terminal
<1>3. CASE Published(j)
  <2>1. PICK s \in State \ {"none", "queued"} :
          /\ Announces(j, s) /\ j \in registry
          /\ state'[j] = s /\ outcome'[j] = outcome[j] \cup ({s} \cap Terminal)
    BY <1>3 DEF Published
  <2>2. CASE s \in Terminal
    BY <2>1, <2>2, Agreement
  <2>3. CASE s \notin Terminal
    BY <2>1, <2>3 DEF Verdicts
  <2> QED
    BY <2>2, <2>3
<1> QED
  BY <1>1, <1>2, <1>3, WordStep

\* A listed job that is over has its outcome.
LEMMA OverIsTerminal ==
  ASSUME TypeOK, Placed, Verdicts, [Next]_vars, NEW j \in Job, j \in registry', Over(j)'
  PROVE  state'[j] \in Terminal
<1>1. j \in registry
  BY ListedStep
<1>2. CASE Over(j)
  <2>1. ASSUME NEW s \in State \ {"none", "queued"}, Announces(j, s) PROVE s \in Terminal
    BY <1>2, <2>1 DEF Announces, Over, State, Terminal, Placed, OnWorker, Busy, WorkerPc
  <2> QED
    BY <1>1, <1>2, <2>1, WordStep DEF SameWord, Published, Verdicts, SubmitRegister, SubmitAt, Over
<1>3. CASE ~Over(j)
  <2>1. CASE SubmitDuplicate(j)
    BY <1>1, <2>1, UpdateStatusEffect DEF SubmitDuplicate, State, Terminal
  <2>2. ASSUME NEW w \in Worker, WorkerFinish(w), wjob[w] = j PROVE state'[j] \in Terminal
    BY <1>1, <2>2, UpdateStatusEffect DEF WorkerFinish, State, Terminal
  <2> QED
    BY <1>3, <2>1, <2>2, BecomesOver
<1> QED
  BY <1>2, <1>3

\* A worker's counter and job change only by a step of that worker.
LEMMA WorkerMoves ==
  ASSUME TypeOK, Placed, [Next]_vars, NEW w \in Worker
  PROVE  \/ wpc'[w] = wpc[w] /\ wjob'[w] = wjob[w]
         \/ WorkerTake(w) \/ WorkerExit(w) \/ Execute(w)
<1>1. ASSUME NEW j \in Job, SubmitStart(j) \/ Submit(j) PROVE UNCHANGED <<wpc, wjob>>
  BY <1>1 DEF SubmitStart, Submit, SubmitKey, SubmitRegister, SubmitDuplicate, SubmitEnqueue,
     SubmitAbort, CleanupEntry, CleanupKey, submitFrame, workerVars
<1>2. ASSUME NEW v \in Worker \ {w}, WorkerTake(v) \/ WorkerExit(v) \/ Execute(v)
      PROVE  wpc'[w] = wpc[w] /\ wjob'[w] = wjob[w]
  BY <1>2, ExecuteStep DEF WorkerTake, WorkerExit, WorkerAt, TypeOK
<1> QED
  BY <1>1, <1>2, ClientsKeepPlaces DEF Next

\* A listed job seen queued has not been run, and will not succeed or fail before it is.
LEMMA QueuedStep ==
  ASSUME TypeOK, Placed, Verdicts, [Next]_vars, NEW j \in Job, j \in registry',
         NEW w \in Worker, OnWorker(w, j)', state'[j] = "queued"
  PROVE  wpc'[w] \in Undecided \cup {"cancelled"}
<1>1. j \in registry /\ ~SubmitRegister(j)
  BY ListedStep
<1>2. state[j] = "queued"
  BY <1>1, WordStep DEF SameWord, Published
<1>3. CASE wpc'[w] = wpc[w] /\ wjob'[w] = wjob[w]
  BY <1>1, <1>2, <1>3 DEF Verdicts, OnWorker
<1>4. CASE WorkerTake(w) \/ WorkerExit(w)
  BY <1>4 DEF WorkerTake, WorkerExit, WorkerAt, TypeOK, Undecided, OnWorker, Busy
<1>5. CASE Execute(w)
  <2>1. OnWorker(w, j)
    BY <1>5, ExecuteStep DEF OnWorker, TypeOK, Busy
  <2>2. wpc[w] \in Undecided \cup {"cancelled"}
    BY <1>1, <1>2, <2>1 DEF Verdicts
  <2>3. ~WorkerStart(w) /\ ~WorkerFinish(w)
    BY <1>1, <2>1, UpdateStatusEffect
       DEF WorkerStart, WorkerFinish, OnWorker, State, Terminal
  <2> QED
    BY <1>5, <2>2, <2>3 DEF Execute, WorkerLookup, WorkerDeadline, WorkerArm, WorkerReturn,
       WorkerRelease, WorkerAt, TypeOK, Undecided, Terminal
<1> QED
  BY <1>3, <1>4, <1>5, WorkerMoves

\* The worker that published the outcome is done with the job.
LEMMA FinishedIsOver ==
  ASSUME TypeOK, Placed, [Next]_vars, NEW j \in Job, NEW w \in Worker, wjob[w] = j,
         wpc[w] \in Terminal, wpc'[w] \in {"release", "idle"}
  PROVE  Over(j)'
<1>1. OnWorker(w, j) /\ sub[j] = "accepted" /\ ~InChan(j)
  BY DEF OnWorker, Busy, WorkerPc, Placed, Terminal
<1>2. \A v \in Worker : OnWorker(v, j) => v = w
  BY <1>1 DEF Placed, OnWorker
<1>3. /\ sub'[j] = "accepted" /\ ~InChan(j)'
      /\ \A v \in Worker : OnWorker(v, j)' => v = w
  BY <1>1, <1>2, TakenJob
<1>4. OnWorker(w, j)' => wpc'[w] = "release"
  BY DEF OnWorker, Busy
<1> QED
  BY <1>3, <1>4 DEF Over

\* Success and failure are the last word of the job's worker.
LEMMA UncancelledIsOver ==
  ASSUME TypeOK, Placed, Listing, Verdicts, [Next]_vars, NEW j \in Job, j \in registry',
         outcome'[j] # {}, "cancelled" \notin outcome'[j]
  PROVE  Over(j)'
<1>1. CASE outcome'[j] = outcome[j]
  <2>1. j \in registry
    BY <1>1, ListedStep DEF Listing
  <2> QED
    BY <1>1, <2>1, OverStays DEF Verdicts
<1>2. CASE outcome'[j] # outcome[j]
  <2>1. PICK s \in State \ {"none", "queued"} :
          Announces(j, s) /\ outcome'[j] = outcome[j] \cup ({s} \cap Terminal)
    BY <1>2, WordStep DEF SameWord, Published
  <2>2. s \in Terminal \ {"cancelled"}
    BY <1>2, <2>1
  <2>3. \E w \in Worker : wjob[w] = j /\ wpc[w] \in Terminal /\ wpc'[w] \in {"release", "idle"}
    BY <2>1, <2>2 DEF Announces, Terminal
  <2> QED
    BY <2>3, FinishedIsOver
<1> QED
  BY <1>1, <1>2

\* Only a listed job is condemned.
LEMMA CondemnedListed ==
  ASSUME TypeOK, Placed, Listing, [Next]_vars, NEW j \in Job, j \in registry', Condemned(j)'
  PROVE  j \in registry
<1>1. CASE SubmitRegister(j)
  <2>1. sub[j] \in Early /\ outcome'[j] = {}
    BY <1>1 DEF SubmitRegister, SubmitAt, registerJob, Early, Listing
  <2>2. PICK c \in Canceller : cpc'[c] # "idle" /\ csaw'[c] = "queued" /\ cjob'[c] = j
    BY <2>1 DEF Condemned
  <2> QED
    BY <2>1, <2>2, CancellerStep DEF Listing
<1> QED
  BY <1>1, ListedStep

\* Once a Cancel is to say "cancelled", or did, no worker says otherwise.
LEMMA StillCondemned ==
  ASSUME TypeOK, Placed, Listing, Installed, Verdicts, [Next]_vars,
         NEW j \in Job, j \in registry, Condemned(j)
  PROVE  /\ outcome'[j] \subseteq {"cancelled"}
         /\ j \in cancelReq' \/ Over(j)'
         /\ \A w \in Worker : OnWorker(w, j)' => wpc'[w] \notin {"succeeded", "failed"}
<1>0. /\ outcome[j] \subseteq {"cancelled"} /\ (j \in cancelReq \/ Over(j))
      /\ \A w \in Worker : OnWorker(w, j) => wpc[w] \notin {"succeeded", "failed"}
  BY DEF Verdicts
<1>1. outcome'[j] \subseteq {"cancelled"}
  <2>1. CASE outcome'[j] = outcome[j]
    BY <1>0, <2>1
  <2>2. CASE outcome'[j] # outcome[j]
    <3>1. PICK s \in State \ {"none", "queued"} :
            Announces(j, s) /\ outcome'[j] = outcome[j] \cup ({s} \cap Terminal)
      BY <2>2, WordStep DEF SameWord, Published
    <3>2. s \in Terminal
      BY <2>2, <3>1
    <3>3. \A w \in Worker : wjob[w] = j /\ wpc[w] = s => OnWorker(w, j)
      BY <3>2 DEF OnWorker, Busy, WorkerPc, Terminal
    <3> QED
      BY <1>0, <3>1, <3>2, <3>3 DEF Announces, Terminal
  <2> QED
    BY <2>1, <2>2
<1>2. j \in cancelReq' \/ Over(j)'
  <2>1. cancelReq \subseteq cancelReq'
    BY CancelReqGrows
  <2> QED
    BY <1>0, <2>1, OverStays
<1>3. ASSUME NEW w \in Worker, OnWorker(w, j)' PROVE wpc'[w] \notin {"succeeded", "failed"}
  <2>1. CASE wpc'[w] = wpc[w] /\ wjob'[w] = wjob[w]
    BY <1>0, <1>3, <2>1 DEF OnWorker
  <2>2. CASE WorkerTake(w) \/ WorkerExit(w)
    BY <2>2 DEF WorkerTake, WorkerExit, WorkerAt, TypeOK
  <2>3. CASE Execute(w)
    <3>1. OnWorker(w, j)
      BY <1>3, <2>3, ExecuteStep DEF OnWorker, TypeOK, Busy
    <3>2. CASE WorkerReturn(w)
      <4>1. wpc[w] = "running" /\ wentry[w] /\ ~Over(j)
        BY <3>1, <3>2 DEF WorkerReturn, WorkerAt, Installed, OnWorker, Over, Placed
      <4> QED
        BY <1>0, <3>1, <3>2, <4>1 DEF WorkerReturn, WorkerAt, OnWorker, TypeOK
    <3> QED
      BY <2>3, <3>2 DEF Execute, WorkerLookup, WorkerDeadline, WorkerArm, WorkerStart,
         WorkerFinish, WorkerRelease, WorkerAt, TypeOK
  <2> QED
    BY <2>1, <2>2, <2>3, WorkerMoves
<1> QED
  BY <1>1, <1>2, <1>3

\* A job is condemned by its own rejection, its worker, or a Cancel that saw it queued.
LEMMA NewlyCondemned ==
  ASSUME TypeOK, Placed, Placed', Listing, Verdicts, [Next]_vars,
         NEW j \in Job, j \in registry, ~Condemned(j), Condemned(j)'
  PROVE  /\ outcome'[j] \subseteq {"cancelled"}
         /\ j \in cancelReq' \/ Over(j)'
         /\ \A w \in Worker : OnWorker(w, j)' => wpc'[w] \notin {"succeeded", "failed"}
<1>1. CASE "cancelled" \in outcome'[j]
  <2>1. "cancelled" \notin outcome[j]
    BY DEF Condemned
  <2>2. Announces(j, "cancelled")
    BY <1>1, <2>1, WordStep DEF SameWord, Published
  <2>3. ~\E c \in Canceller : cjob[c] = j /\ cpc[c] = "signalled" /\ csaw[c] = "queued"
    BY DEF Condemned
  <2>4. \/ sub'[j] = "duplicate"
        \/ \E w \in Worker : /\ wjob[w] = j /\ wpc[w] \in Terminal
                             /\ wpc'[w] \in {"release", "idle"}
    BY <2>2, <2>3 DEF Announces, Terminal
  <2>5. Over(j)'
    BY <2>4, FinishedIsOver DEF Over
  <2>6. outcome'[j] \subseteq {"cancelled"}
    BY <1>1, OneOutcome
  <2>7. \A w \in Worker : OnWorker(w, j)' => wpc'[w] = "release"
    BY <2>5 DEF Over, Placed, OnWorker
  <2> QED
    BY <2>5, <2>6, <2>7
<1>2. CASE "cancelled" \notin outcome'[j]
  <2>1. PICK c \in Canceller : cpc'[c] # "idle" /\ csaw'[c] = "queued" /\ cjob'[c] = j
    BY <1>2 DEF Condemned
  <2>2. cpc[c] = "idle"
    BY <2>1, CancellerStep DEF Condemned
  <2>3. /\ state[j] = "queued" /\ j \in cancelReq' /\ outcome' = outcome
        /\ wpc' = wpc /\ wjob' = wjob
    BY <2>1, <2>2, CancellerStep DEF Terminal
  <2>4. outcome[j] = {}
    BY <1>2, <2>3 DEF Verdicts, Terminal
  <2> QED
    BY <2>3, <2>4 DEF Verdicts, OnWorker, Undecided
<1> QED
  BY <1>1, <1>2

\* The facts about outcomes are inductive.
LEMMA VerdictsStep ==
  ASSUME TypeOK, Placed, Placed', Listing, Installed, Verdicts, TypeOK', [Next]_vars
  PROVE  Verdicts'
<1>0. registry' \subseteq Job
  BY DEF TypeOK
<1>1. \A j \in registry' : Over(j)' => state'[j] \in Terminal
  BY <1>0, OverIsTerminal
<1>2. \A j \in registry', w \in Worker :
        OnWorker(w, j)' /\ state'[j] = "queued" => wpc'[w] \in Undecided \cup {"cancelled"}
  BY <1>0, QueuedStep
<1>3. \A j \in registry' : outcome'[j] # {} /\ "cancelled" \notin outcome'[j] => Over(j)'
  BY <1>0, UncancelledIsOver
<1>4. \A j \in registry' : Condemned(j)' =>
        /\ outcome'[j] \subseteq {"cancelled"}
        /\ j \in cancelReq' \/ Over(j)'
        /\ \A w \in Worker : OnWorker(w, j)' => wpc'[w] \notin {"succeeded", "failed"}
  BY <1>0, CondemnedListed, StillCondemned, NewlyCondemned
<1> QED
  BY <1>1, <1>2, <1>3, <1>4, OneOutcome DEF Verdicts

(***************************************************************************)
(* Watchers and Delete.                                                    *)
(***************************************************************************)
\* Watchers hear the job's outcome; Delete holds only jobs with one.
Heard ==
  /\ \A x \in Watcher : watch[x] # "idle" => watchJob[x] \in Job
  /\ WatchersHearOutcome
  /\ \A d \in Deleter : dpc[d] = "unlist" => outcome[djob[d]] # {}

\* What one step does to the channel of a Watch call on j.
HearsOf(x, j) ==
  /\ watchJob'[x] = j
  /\ \/ watch'[x] = "open" /\ (state'[j] \in Terminal => state'[j] = state[j])
     \/ watch'[x] = "closed" /\ state'[j] \in Terminal /\ lastEvent'[x] = state'[j]

\* Publishing closes the watchers of the job with its outcome and no others.
LEMMA UpdateHeard ==
  ASSUME TypeOK, NEW i \in Job, NEW s \in State, updateStatus(i, s), watchJob' = watchJob,
         NEW x \in Watcher, NEW j \in Job, watchJob[x] = j
  PROVE  /\ watch[x] = "open" => HearsOf(x, j)
         /\ watch[x] # "open" => watch'[x] = watch[x] /\ lastEvent'[x] = lastEvent[x]
<1>1. CASE i \notin registry
  BY <1>1, UpdateStatusEffect DEF HearsOf, entryVars
<1>2. CASE i \in registry /\ i # j
  BY <1>2, UpdateStatusEffect DEF HearsOf, Attached
<1>3. CASE i \in registry /\ i = j
  <2>1. watch[x] = "open" <=> Attached(x, i)
    BY <1>3 DEF Attached
  <2> QED
    BY <1>3, <2>1, UpdateStatusEffect DEF HearsOf, Attached
<1> QED
  BY <1>1, <1>2, <1>3

\* What any step does to a watcher's channel.
LEMMA WatcherStep ==
  ASSUME TypeOK, [Next]_vars, NEW x \in Watcher, NEW j \in Job, watchJob[x] = j
  PROVE  /\ watch[x] = "open" => HearsOf(x, j)
         /\ watch[x] = "closed" =>
              watch'[x] = "closed" /\ watchJob'[x] = j /\ lastEvent'[x] = lastEvent[x]
<1>0. \A w \in Worker : wpc[w] \in Busy => wjob[w] \in Job
  BY DEF TypeOK
<1>1. CASE UNCHANGED entryVars /\ UNCHANGED watchJob
  BY <1>1 DEF entryVars, HearsOf
<1>2. CASE \E i \in Job : SubmitRegister(i)
  BY <1>2 DEF SubmitRegister, registerJob, submitFrame, HearsOf, TypeOK, Terminal
<1>3. CASE \E i \in Job, s \in State : updateStatus(i, s) /\ watchJob' = watchJob
  BY <1>3, UpdateHeard
<1>4. CASE \E y \in Watcher, i \in Job : Watch(y, i)
  BY <1>4 DEF Watch, HearsOf, TypeOK
<1>5. CASE \E i \in Job : SubmitDuplicate(i)
  BY <1>3, <1>5 DEF SubmitDuplicate, submitFrame, State, Terminal
<1>6. CASE \E w \in Worker : WorkerStart(w) \/ WorkerFinish(w)
  BY <1>0, <1>3, <1>6 DEF WorkerStart, WorkerFinish, WorkerAt, workerFrame, State, Terminal, Busy,
     WorkerPc
<1>7. CASE \E c \in Canceller : CancelMark(c)
  BY <1>1, <1>3, <1>7 DEF CancelMark, CancelAt, cancelFrame, State, Terminal, TypeOK
<1>8. CASE [Next]_vars /\ ~UNCHANGED <<entryVars, watchJob>>
  BY <1>2, <1>4, <1>5, <1>6, <1>7, <1>8 DEF Next, vars, SubmitStart, Submit, SubmitKey,
    SubmitEnqueue, SubmitAbort, CleanupEntry, CleanupKey, submitFrame,
    WorkerTake, WorkerExit, Execute, WorkerLookup, WorkerDeadline, WorkerArm,
    WorkerReturn, WorkerRelease, workerFrame, CancelSignal, CancelRequest, cancelFrame,
    DeleteEntry, DeleteCheck, deleteFrame, Shutdown, Stop, RunSeesStop, lifeFrame
<1> QED
  BY <1>1, <1>8

\* Only Watch opens a channel.
LEMMA FirstHeard ==
  ASSUME TypeOK, [Next]_vars, NEW x \in Watcher, watch[x] = "idle", watch'[x] # "idle"
  PROVE  \E j \in Job : Watch(x, j)
<1>1. \A i \in Job, s \in State : updateStatus(i, s) => watch'[x] = "idle"
  BY UpdateStatusEffect DEF Attached, entryVars
<1>2. \A w \in Worker : wpc[w] \in Busy => wjob[w] \in Job
  BY DEF TypeOK
<1>3. ~\E i \in Job : SubmitDuplicate(i)
  BY <1>1 DEF SubmitDuplicate, State, Terminal
<1>4. ~\E w \in Worker : WorkerStart(w) \/ WorkerFinish(w)
  BY <1>1, <1>2 DEF WorkerStart, WorkerFinish, WorkerAt, State, Terminal, Busy, WorkerPc
<1>5. ~\E c \in Canceller : CancelMark(c)
  BY <1>1 DEF CancelMark, CancelAt, entryVars, State, Terminal, TypeOK
<1>6. \A y \in Watcher, j \in Job : Watch(y, j) => y = x
  BY DEF Watch, TypeOK
<1> QED
  BY <1>3, <1>4, <1>5, <1>6 DEF Next, vars, SubmitStart, Submit, SubmitKey, SubmitRegister,
    registerJob, SubmitEnqueue, SubmitAbort, CleanupEntry, CleanupKey,
    WorkerTake, WorkerExit, Execute, WorkerLookup, WorkerDeadline, WorkerArm,
    WorkerReturn, WorkerRelease, CancelSignal, CancelRequest, entryVars,
    DeleteEntry, DeleteCheck, deleteFrame, Shutdown, Stop, RunSeesStop, lifeFrame

\* Delete removes only a job it saw in a terminal state.
LEMMA DeleterStep ==
  ASSUME TypeOK, [Next]_vars, NEW d \in Deleter, dpc'[d] = "unlist"
  PROVE  \/ dpc[d] = "unlist" /\ djob'[d] = djob[d]
         \/ \E j \in registry : djob'[d] = j /\ state[j] \in Terminal
<1>1. CASE \E e \in Deleter, j \in Job : DeleteCheck(e, j)
  BY <1>1 DEF DeleteCheck, TypeOK
<1>2. CASE \E e \in Deleter : DeleteEntry(e)
  BY <1>2 DEF DeleteEntry, TypeOK
<1>3. CASE UNCHANGED deleteVars
  BY <1>3 DEF deleteVars
<1> QED
  BY <1>1, <1>2, <1>3 DEF Next, vars, SubmitStart, Submit, SubmitKey, SubmitRegister,
    SubmitDuplicate, SubmitEnqueue, SubmitAbort, CleanupEntry, CleanupKey, submitFrame,
    WorkerTake, WorkerExit, Execute, WorkerLookup, WorkerDeadline, WorkerArm, WorkerStart,
    WorkerReturn, WorkerFinish, WorkerRelease, workerFrame, CancelSignal, CancelMark,
    CancelRequest, cancelFrame, Watch, Shutdown, Stop, RunSeesStop, lifeFrame

\* The facts about watchers and Delete are inductive.
LEMMA HeardStep ==
  ASSUME TypeOK, Placed, Listing, Verdicts, Heard, [Next]_vars
  PROVE  Heard'
<1>1. ASSUME NEW x \in Watcher, watch'[x] # "idle"
      PROVE  /\ watchJob'[x] \in Job
             /\ watch'[x] = "open" /\ watchJob'[x] \in registry' =>
                  state'[watchJob'[x]] \notin Terminal
             /\ watch'[x] = "closed" => outcome'[watchJob'[x]] = {lastEvent'[x]}
  <2>1. CASE watch[x] = "idle"
    <3>1. PICK j \in Job : Watch(x, j)
      BY <1>1, <2>1, FirstHeard
    <3>2. /\ watchJob'[x] = j /\ j \in registry /\ outcome'[j] = outcome[j]
          /\ state'[j] = state[j]
          /\ watch'[x] = "open" => state[j] \notin Terminal
          /\ watch'[x] = "closed" => state[j] \in Terminal /\ lastEvent'[x] = state[j]
      BY <3>1 DEF Watch, TypeOK
    <3> QED
      BY <3>2 DEF Verdicts
  <2>2. CASE watch[x] = "open"
    <3>1. PICK j \in Job : watchJob[x] = j
      BY <2>2 DEF Heard
    <3>2. HearsOf(x, j)
      BY <2>2, <3>1, WatcherStep
    <3>3. j \in registry => state[j] \notin Terminal
      BY <2>2, <3>1 DEF Heard, WatchersHearOutcome
    <3>4. j \in registry' /\ j \notin registry => state'[j] \notin Terminal
      BY ListedStep DEF SubmitRegister, registerJob, TypeOK, Terminal
    <3> QED
      BY <3>2, <3>3, <3>4, OneOutcome DEF HearsOf
  <2>3. CASE watch[x] = "closed"
    <3>1. PICK j \in Job : watchJob[x] = j
      BY <2>3 DEF Heard
    <3>2. watch'[x] = "closed" /\ watchJob'[x] = j /\ lastEvent'[x] = lastEvent[x]
      BY <2>3, <3>1, WatcherStep
    <3>3. outcome[j] = {lastEvent[x]}
      BY <2>3, <3>1 DEF Heard, WatchersHearOutcome
    <3> QED
      BY <3>2, <3>3, OneOutcome
  <2> QED
    BY <2>1, <2>2, <2>3 DEF TypeOK
<1>2. ASSUME NEW d \in Deleter, dpc'[d] = "unlist" PROVE outcome'[djob'[d]] # {}
  <2>1. CASE dpc[d] = "unlist" /\ djob'[d] = djob[d]
    <3>1. outcome[djob[d]] # {} /\ djob[d] \in Job
      BY <2>1 DEF Heard, TypeOK
    <3> QED
      BY <2>1, <3>1, OneOutcome
  <2>2. ASSUME NEW j \in registry, djob'[d] = j, state[j] \in Terminal
        PROVE  outcome'[djob'[d]] # {}
    <3>1. j \in Job
      BY <2>2 DEF TypeOK
    <3>2. outcome[j] = {state[j]}
      BY <2>2, <3>1 DEF Verdicts
    <3> QED
      BY <2>2, <3>1, <3>2, OneOutcome
  <2> QED
    BY <1>2, <2>1, <2>2, DeleterStep
<1>3. WatchersHearOutcome'
  BY <1>1 DEF WatchersHearOutcome
<1> QED
  BY <1>1, <1>2, <1>3 DEF Heard

(***************************************************************************)
(* The invariant of the queue, and what follows from it.                   *)
(***************************************************************************)
QueueInv == ExclusionInv /\ Listing /\ Installed /\ SeenRunning /\ Verdicts /\ Heard

\* The invariant holds before any call.
LEMMA QueueInvInit == ASSUME QueueAssumption, Init PROVE QueueInv
<1>1. Listing /\ Installed
  BY DEF Init, Listing, Installed, Busy
<1>2. SeenRunning
  BY DEF Init, SeenRunning
<1>3. \A j \in Job : ~Over(j)
  BY DEF Init, Over
<1>4. Verdicts
  BY <1>3 DEF Init, Verdicts, Terminal, Condemned
<1>5. Heard
  BY DEF Init, Heard, WatchersHearOutcome
<1> QED
  BY <1>1, <1>2, <1>4, <1>5, ExclusionInvInit DEF QueueInv

\* The invariant is inductive.
LEMMA QueueInvStep ==
  ASSUME QueueInv, ExclusionInv', [Next]_vars
  PROVE  QueueInv'
<1> USE DEF QueueInv, ExclusionInv
<1>1. Listing'
  BY ListingSubmit, ListingWorker, ListingClients DEF Next
<1>2. Installed'
  BY InstalledSubmit, InstalledWorker, InstalledClients DEF Next
<1> QED
  BY <1>1, <1>2, SeenRunningStep, VerdictsStep, HeardStep

\* The inductive invariant of the queue: places and keys, the registry, the runs that
\* can be interrupted, one outcome per job, and what watchers and Delete hold.
THEOREM QueueInvariant == Spec => []QueueInv
<1>1. Init => QueueInv
  BY QueueInvInit, QueueAssumption
<1>2. QueueInv /\ ExclusionInv' /\ [Next]_vars => QueueInv'
  BY QueueInvStep
<1> QED
  BY <1>1, <1>2, ExclusionInvariant, PTL DEF Spec

\* A worker leaves its loop only when the queue is shut down or stopped, which is for good.
WorkersStay == \A w \in Worker : wpc[w] = "exited" => done \/ ctxDone

LEMMA WorkersStayStep ==
  ASSUME TypeOK, Placed, WorkersStay, [Next]_vars
  PROVE  WorkersStay'
<1>1. (done => done') /\ (ctxDone => ctxDone')
  BY DEF Next, vars, queueVars, SubmitStart, Submit, SubmitKey, SubmitRegister, SubmitDuplicate,
     SubmitEnqueue, SubmitAbort, CleanupEntry, CleanupKey, submitFrame, WorkerTake, WorkerExit,
     Execute, WorkerLookup, WorkerDeadline, WorkerArm, WorkerStart, WorkerReturn,
     WorkerFinish, WorkerRelease, workerFrame, CancelSignal, CancelMark, CancelRequest,
     cancelFrame, DeleteEntry, DeleteCheck, deleteFrame, Watch, Shutdown, Stop, RunSeesStop
<1>2. ASSUME NEW v \in Worker, wpc'[v] = "exited" PROVE wpc[v] = "exited" \/ WorkerExit(v)
  <2>1. ASSUME NEW j \in Job, SubmitStart(j) \/ Submit(j) PROVE wpc' = wpc
    BY <2>1 DEF SubmitStart, Submit, SubmitKey, SubmitRegister, SubmitDuplicate, SubmitEnqueue,
       SubmitAbort, CleanupEntry, CleanupKey, submitFrame, workerVars
  <2>2. ASSUME NEW w \in Worker, WorkerTake(w) PROVE wpc[v] = "exited"
    BY <1>2, <2>2 DEF WorkerTake, WorkerAt, TypeOK
  <2>3. ASSUME NEW w \in Worker, WorkerExit(w) PROVE wpc[v] = "exited" \/ v = w
    BY <1>2, <2>3 DEF WorkerExit, WorkerAt, TypeOK
  <2>4. ASSUME NEW w \in Worker, Execute(w) PROVE wpc[v] = "exited"
    BY <1>2, <2>4, ExecuteStep DEF TypeOK, Busy
  <2> QED BY <1>2, <2>1, <2>2, <2>3, <2>4, ClientsKeepPlaces DEF Next
<1>3. \A v \in Worker : WorkerExit(v) => done \/ ctxDone
  BY DEF WorkerExit
<1> QED BY <1>1, <1>2, <1>3 DEF WorkersStay

\* An accepted job whose record exists has its outcome, is on a worker, or is in the buffer,
\* and then nobody has shut the queue down or stopped it, or all workers are there to take it.
\* What becomes of a job in the buffer after a shutdown is not claimed: it may stay for good.
THEOREM NothingStranded == Spec => []NoJobStranded
<1>1. Init => WorkersStay
  BY DEF Init, WorkersStay
<1>2. QueueInv /\ WorkersStay /\ [Next]_vars => WorkersStay'
  BY WorkersStayStep DEF QueueInv, ExclusionInv
<1>3. QueueInv /\ WorkersStay => NoJobStranded
  BY DEF QueueInv, Listing, Verdicts, Over, NoJobStranded, WorkersStay, Returned, ExclusionInv, TypeOK
<1> HIDE DEF QueueInv
<1> QED
  BY <1>1, <1>2, <1>3, QueueInvariant, PTL DEF Spec

\* A Cancel that saw a job running has interrupted that run when it returns.
THEOREM CancelReachesRun == Spec => []CancelInterruptsRun
<1>1. QueueInv => CancelInterruptsRun
  BY DEF QueueInv, SeenRunning, CancelInterruptsRun, RunCtxDone
<1> QED
  BY <1>1, QueueInvariant, PTL

\* A watcher of a listed, unsettled job is still attached, and one whose channel was
\* closed got the job's only outcome.
THEOREM WatchersHear == Spec => []WatchersHearOutcome
<1>1. QueueInv => WatchersHearOutcome
  BY DEF QueueInv, Heard
<1> QED
  BY <1>1, QueueInvariant, PTL

(***************************************************************************)
(* Implementation of JobContract.                                          *)
(***************************************************************************)
fateBar    == [j \in Job |-> Fate(j)]
execBar    == [j \in Job |-> Exec(j)]
holdersBar == {j \in Job : OwnsKey(j)}

\* The contract sees no change of job k.
SameFor(k) == Fate(k)' = Fate(k) /\ Exec(k)' = Exec(k) /\ (OwnsKey(k)' <=> OwnsKey(k))

\* What one step of the contract may do to one job.
FateMove(j) ==
  \/ Fate(j) = "unknown" /\ Fate(j)' = "pending"
  \/ Fate(j) = "pending" /\ Fate(j)' \in Terminal
  \/ Fate(j) = "pending" /\ Fate(j)' = "withdrawn" /\ Exec(j) = "waiting"

ExecMove(j) ==
  \/ Exec(j) = "waiting" /\ Exec(j)' = "running" /\ (KeyOf[j] # NoKey => OwnsKey(j))
  \/ Exec(j) # "over" /\ Exec(j)' = "over"

KeyMove(j) ==
  \/ KeyOf[j] # NoKey /\ OwnsKey(j)' /\ \A k \in Job : OwnsKey(k) => KeyOf[k] # KeyOf[j]
  \/ OwnsKey(j) /\ ~OwnsKey(j)' /\ Exec(j) # "running"

ContractMove(j) ==
  \/ SameFor(j)
  \/ FateMove(j) /\ Exec(j)' = Exec(j) /\ (OwnsKey(j)' <=> OwnsKey(j))
  \/ ExecMove(j) /\ Fate(j)' = Fate(j) /\ (OwnsKey(j)' <=> OwnsKey(j))
  \/ KeyMove(j) /\ Fate(j)' = Fate(j) /\ Exec(j)' = Exec(j)

\* A step that moves one job as the contract allows is a step of the contract.
LEMMA ContractStep ==
  ASSUME NEW j \in Job, ContractMove(j), \A k \in Job \ {j} : SameFor(k)
  PROVE  [Contract!Next]_<<fateBar, execBar, holdersBar>>
<1>1. /\ fateBar' = [fateBar EXCEPT ![j] = Fate(j)']
      /\ execBar' = [execBar EXCEPT ![j] = Exec(j)']
      /\ OwnsKey(j)' => holdersBar' = holdersBar \cup {j}
      /\ ~OwnsKey(j)' => holdersBar' = holdersBar \ {j}
      /\ fateBar[j] = Fate(j) /\ execBar[j] = Exec(j) /\ (j \in holdersBar <=> OwnsKey(j))
  BY DEF SameFor, fateBar, execBar, holdersBar
<1>2. Fate(j)' = Fate(j) => fateBar' = fateBar
  BY <1>1 DEF fateBar
<1>3. Exec(j)' = Exec(j) => execBar' = execBar
  BY <1>1 DEF execBar
<1>4. (OwnsKey(j)' <=> OwnsKey(j)) => holdersBar' = holdersBar
  BY <1>1
<1>5. CASE SameFor(j)
  BY <1>2, <1>3, <1>4, <1>5 DEF SameFor
<1>6. CASE FateMove(j) /\ Exec(j)' = Exec(j) /\ (OwnsKey(j)' <=> OwnsKey(j))
  BY <1>1, <1>3, <1>4, <1>6
     DEF FateMove, Contract!Next, Contract!List, Contract!Settle, Contract!Withdraw,
         Contract!Outcome, Terminal, fateBar, execBar, holdersBar
<1>7. CASE ExecMove(j) /\ Fate(j)' = Fate(j) /\ (OwnsKey(j)' <=> OwnsKey(j))
  BY <1>1, <1>2, <1>4, <1>7
     DEF ExecMove, Contract!Next, Contract!Begin, Contract!End, fateBar, execBar, holdersBar
<1>8. CASE KeyMove(j) /\ Fate(j)' = Fate(j) /\ Exec(j)' = Exec(j)
  BY <1>1, <1>2, <1>3, <1>8
     DEF KeyMove, Contract!Next, Contract!Grab, Contract!Drop, fateBar, execBar, holdersBar
<1> QED
  BY <1>5, <1>6, <1>7, <1>8 DEF ContractMove

\* A step that neither publishes an outcome nor lists or withdraws a job keeps its fate.
LEMMA SameFate ==
  ASSUME NEW k \in Job, outcome'[k] = outcome[k],
         \/ outcome[k] # {}
         \/ (k \in registry' <=> k \in registry) /\ (state'[k] = "none" <=> state[k] = "none")
  PROVE  Fate(k)' = Fate(k)
  BY DEF Fate

\* A step that leaves a job where it is leaves its execution as it was.
LEMMA SamePlace ==
  ASSUME NEW k \in Job, sub'[k] = "accepted" <=> sub[k] = "accepted", InChan(k)' <=> InChan(k),
         \A w \in Worker : /\ OnWorker(w, k)' <=> OnWorker(w, k)
                           /\ OnWorker(w, k) => wpc'[w] = wpc[w]
  PROVE  Exec(k)' = Exec(k)
<1>1. Running(k) <=> \E w \in Worker : OnWorker(w, k) /\ wpc[w] = "running"
  BY DEF Running, OnWorker, Busy, WorkerPc
<1>2. Running(k)' <=> \E w \in Worker : OnWorker(w, k)' /\ wpc'[w] = "running"
  BY DEF Running, OnWorker, Busy, WorkerPc
<1>3. Running(k)' <=> Running(k)
  BY <1>1, <1>2
<1>4. (\E w \in Worker : OnWorker(w, k)' /\ wpc'[w] \notin Terminal \cup {"release"})
        <=> \E w \in Worker : OnWorker(w, k) /\ wpc[w] \notin Terminal \cup {"release"}
  OBVIOUS
<1> QED
  BY <1>3, <1>4 DEF Exec

\* The fate of a job whose state is published, or not, in a step.
LEMMA FatePublished ==
  ASSUME TypeOK, Placed, Listing, Verdicts, [Next]_vars, NEW j \in Job, ~SubmitRegister(j),
         j \in registry' <=> j \in registry
  PROVE  Fate(j)' = Fate(j) \/ (Fate(j) = "pending" /\ Fate(j)' \in Terminal)
<1>1. CASE outcome'[j] # outcome[j]
  <2>1. PICK s \in Terminal : /\ Announces(j, s) /\ j \in registry
                              /\ outcome'[j] = outcome[j] \cup {s}
    <3>1. ~SameWord(j)
      BY <1>1 DEF SameWord
    <3>2. Published(j)
      BY <3>1, WordStep
    <3>3. PICK s \in State \ {"none", "queued"} :
            Announces(j, s) /\ j \in registry /\ outcome'[j] = outcome[j] \cup ({s} \cap Terminal)
      BY <3>2, Zenon DEF Published
    <3>4. s \in Terminal
      BY <1>1, <3>3
    <3>5. {s} \cap Terminal = {s}
      BY <3>4
    <3> QED BY <3>3, <3>4, <3>5
  <2>2. outcome[j] = {}
    BY <1>1, <2>1, Agreement
  <2>3. \E t \in Terminal : t \in outcome'[j]
    BY <2>1
  <2> QED
    BY <2>1, <2>2, <2>3 DEF Fate
<1>2. CASE outcome'[j] = outcome[j]
  <2>1. state'[j] = "none" <=> state[j] = "none"
    BY WordStep DEF SameWord, Published, Listing
  <2> QED
    BY <1>2, <2>1, SameFate
<1> QED
  BY <1>1, <1>2

\* Each step of Submit lists, settles, withdraws or releases its own job, or stutters.
LEMMA ContractSubmit ==
  ASSUME QueueInv, [Next]_vars, NEW j \in Job, SubmitStart(j) \/ Submit(j)
  PROVE  ContractMove(j) /\ \A k \in Job \ {j} : SameFor(k)
<1> USE DEF QueueInv, ExclusionInv
<1>0. /\ wpc' = wpc /\ wjob' = wjob /\ \A k \in Job \ {j} : sub'[k] = sub[k]
      /\ \A k \in Job \ {j} : k \in registry' <=> k \in registry
      /\ chan' = chan \/ (SubmitEnqueue(j) /\ chan' = Append(chan, j))
      /\ sub[j] # "accepted" /\ ~InChan(j) /\ \A w \in Worker : ~OnWorker(w, j)
  <2>1. sub[j] # "accepted"
    BY DEF SubmitStart, Submit, SubmitKey, SubmitRegister, SubmitDuplicate,
           SubmitEnqueue, SubmitAbort, CleanupEntry, CleanupKey, SubmitAt
  <2> QED
    BY <2>1, NotAcceptedNowhere DEF SubmitStart, Submit, SubmitKey, SubmitRegister,
       SubmitDuplicate, SubmitEnqueue, SubmitAbort, CleanupEntry, CleanupKey, SubmitAt,
       submitFrame, workerVars, registerJob, TypeOK
<1>1. ASSUME NEW k \in Job \ {j} PROVE SameFor(k)
  <2>1. InChan(k)' <=> InChan(k)
    BY <1>0, SendInChan DEF InChan
  <2>2. \A w \in Worker : OnWorker(w, k)' <=> OnWorker(w, k)
    BY <1>0 DEF OnWorker
  <2>3. Exec(k)' = Exec(k)
    BY <1>0, <2>1, <2>2, SamePlace
  <2>4. OwnsKey(k)' <=> OwnsKey(k)
    BY <1>0, <2>1, <2>2 DEF OwnsKey
  <2>5. SameWord(k)
    BY UpdateStatusEffect
       DEF SubmitStart, Submit, SubmitKey, SubmitRegister, SubmitDuplicate, registerJob,
           SubmitEnqueue, SubmitAbort, CleanupEntry, CleanupKey, entryVars, SameWord, TypeOK,
           State, Terminal
  <2>6. Fate(k)' = Fate(k)
    BY <1>0, <2>5, SameFate DEF SameWord
  <2> QED
    BY <2>3, <2>4, <2>6 DEF SameFor
<1>2. Exec(j) = "waiting" /\ Exec(j)' = "waiting"
  <2>1. ~Running(j)
    BY <1>0 DEF Running, OnWorker, Busy, WorkerPc
  <2>2. ~Running(j)'
    BY <1>0, <2>1 DEF Running
  <2>3. sub'[j] # "accepted" \/ InChan(j)'
    <3>1. CASE SubmitEnqueue(j)
      BY <3>1, SendInChan DEF SubmitEnqueue
    <3>2. CASE ~SubmitEnqueue(j)
      BY <3>2 DEF SubmitStart, Submit, SubmitKey, SubmitRegister, SubmitDuplicate,
         SubmitAbort, CleanupEntry, CleanupKey, SubmitAt, TypeOK
    <3> QED
      BY <3>1, <3>2
  <2> QED
    BY <1>0, <2>1, <2>2, <2>3 DEF Exec
<1>3. /\ OwnsKey(j) <=> KeyOf[j] # NoKey /\ sub[j] \in {"keyed", "enqueue", "unlist", "unkey"}
      /\ SubmitEnqueue(j) => OwnsKey(j)' = (KeyOf[j] # NoKey)
      /\ ~SubmitEnqueue(j) =>
           (OwnsKey(j)' <=>
              KeyOf[j] # NoKey /\ sub'[j] \in {"keyed", "enqueue", "unlist", "unkey"})
  <2>1. CASE SubmitEnqueue(j)
    <3>1. InChan(j)'
      BY <2>1, SendInChan DEF SubmitEnqueue
    <3> QED
      BY <1>0, <2>1, <3>1 DEF OwnsKey
  <2>2. CASE ~SubmitEnqueue(j)
    <3>1. ~InChan(j)' /\ \A w \in Worker : ~OnWorker(w, j)'
      BY <1>0, <2>2 DEF InChan, OnWorker
    <3> QED
      BY <1>0, <2>2, <3>1 DEF OwnsKey
  <2> QED
    BY <2>1, <2>2
<1>4. ContractMove(j)
  <2> USE DEF SubmitAt, TypeOK
  <2>1. CASE SubmitStart(j) \/ SubmitAbort(j) \/ SubmitEnqueue(j)
    <3>1. Fate(j)' = Fate(j)
      BY <2>1, SameFate DEF SubmitStart, SubmitAbort, SubmitEnqueue, entryVars
    <3>2. OwnsKey(j)' <=> OwnsKey(j)
      BY <1>3, <2>1 DEF SubmitStart, SubmitAbort, SubmitEnqueue
    <3> QED
      BY <1>2, <3>1, <3>2 DEF ContractMove, SameFor
  <2>2. CASE SubmitKey(j)
    <3>1. Fate(j)' = Fate(j)
      BY <2>2, SameFate DEF SubmitKey, entryVars
    <3>2. CASE sub'[j] = "dup"
      BY <1>2, <1>3, <2>2, <3>1, <3>2 DEF SubmitKey, SubmitEnqueue, ContractMove, SameFor
    <3>3. CASE sub'[j] = "keyed" /\ KeyOf[j] \notin uniqueJobs
      <4>1. \A k \in Job : OwnsKey(k) => KeyOf[k] # KeyOf[j]
        BY <3>3 DEF UniqueJobsExclude
      <4>2. KeyOf[j] # NoKey /\ OwnsKey(j)'
        BY <1>3, <2>2, <3>3 DEF SubmitKey, SubmitEnqueue
      <4> QED
        BY <1>2, <3>1, <4>1, <4>2 DEF ContractMove, KeyMove
    <3> QED
      BY <2>2, <3>2, <3>3 DEF SubmitKey
  <2>3. CASE SubmitRegister(j)
    <3>1. j \notin registry /\ state[j] = "none" /\ outcome[j] = {}
      BY <2>3 DEF SubmitRegister, Listing, Early
    <3>2. j \in registry' /\ outcome'[j] = {}
      BY <2>3, <3>1 DEF SubmitRegister, registerJob
    <3>3. FateMove(j)
      BY <3>1, <3>2 DEF FateMove, Fate
    <3>4. OwnsKey(j)' <=> OwnsKey(j)
      BY <1>3, <2>3 DEF SubmitRegister, SubmitEnqueue
    <3> QED
      BY <1>2, <3>3, <3>4 DEF ContractMove
  <2>4. CASE SubmitDuplicate(j)
    <3>1. Fate(j)' = Fate(j) \/ (Fate(j) = "pending" /\ Fate(j)' \in Terminal)
      BY <2>4, FatePublished DEF SubmitDuplicate, SubmitRegister
    <3>2. OwnsKey(j)' <=> OwnsKey(j)
      BY <1>3, <2>4 DEF SubmitDuplicate, SubmitEnqueue
    <3> QED
      BY <1>2, <3>1, <3>2 DEF ContractMove, FateMove, SameFor
  <2>5. CASE CleanupEntry(j)
    <3>1. outcome' = outcome /\ state' = state /\ j \notin registry'
      BY <2>5 DEF CleanupEntry, entryVars
    <3>2. OwnsKey(j)' <=> OwnsKey(j)
      BY <1>3, <2>5 DEF CleanupEntry, SubmitEnqueue
    <3>3. Fate(j)' = Fate(j) \/ FateMove(j)
      <4>1. CASE outcome[j] # {} \/ j \notin registry
        BY <3>1, <4>1, SameFate
      <4>2. CASE outcome[j] = {} /\ j \in registry
        BY <1>2, <3>1, <4>2 DEF Fate, FateMove, Listing
      <4> QED
        BY <4>1, <4>2
    <3> QED
      BY <1>2, <3>2, <3>3 DEF ContractMove, SameFor
  <2>6. CASE CleanupKey(j)
    <3>1. Fate(j)' = Fate(j)
      BY <2>6, SameFate DEF CleanupKey, entryVars
    <3>2. OwnsKey(j) /\ ~OwnsKey(j)'
      BY <1>3, <2>6 DEF CleanupKey, SubmitEnqueue, Placed
    <3> QED
      BY <1>2, <3>1, <3>2 DEF ContractMove, KeyMove
  <2> QED
    BY <2>1, <2>2, <2>3, <2>4, <2>5, <2>6 DEF Submit
<1> QED
  BY <1>1, <1>4

\* Cancel settles a job; the other clients do nothing the contract speaks of.
LEMMA ContractClients ==
  ASSUME QueueInv, [Next]_vars,
         \/ \E c \in Canceller : CancelSignal(c) \/ CancelMark(c)
         \/ \E c \in Canceller, j \in Job : CancelRequest(c, j)
         \/ \E d \in Deleter : DeleteEntry(d)
         \/ \E d \in Deleter, j \in Job : DeleteCheck(d, j)
         \/ \E x \in Watcher, j \in Job : Watch(x, j)
         \/ Shutdown \/ Stop \/ RunSeesStop
         \/ UNCHANGED vars
  PROVE  \/ \A k \in Job : SameFor(k)
         \/ \E j \in Job : ContractMove(j) /\ \A k \in Job \ {j} : SameFor(k)
<1> USE DEF QueueInv, ExclusionInv
<1>1. ASSUME NEW k \in Job
      PROVE  /\ Exec(k)' = Exec(k) /\ (OwnsKey(k)' <=> OwnsKey(k)) /\ ~SubmitRegister(k)
  <2>1. UNCHANGED <<chan, sub, wpc, wjob>>
    BY ClientsKeepPlaces
  <2>2. (InChan(k)' <=> InChan(k)) /\ \A w \in Worker : OnWorker(w, k)' <=> OnWorker(w, k)
    BY <2>1 DEF InChan, OnWorker
  <2> QED
    BY <2>1, <2>2, SamePlace DEF OwnsKey, SubmitRegister, SubmitAt, TypeOK
<1>2. ASSUME NEW c \in Canceller, CancelMark(c)
      PROVE  \E j \in Job : ContractMove(j) /\ \A k \in Job \ {j} : SameFor(k)
  <2>1. PICK j \in Job : cjob[c] = j
    BY <1>2 DEF CancelMark, CancelAt, TypeOK
  <2>2. registry' = registry /\ \A k \in Job \ {j} : SameWord(k)
    BY <1>2, <2>1, UpdateStatusEffect
       DEF CancelMark, cancelFrame, SameWord, entryVars, State, Terminal
  <2>3. \A k \in Job \ {j} : SameFor(k)
    BY <1>1, <2>2, SameFate DEF SameFor, SameWord
  <2>4. Fate(j)' = Fate(j) \/ (Fate(j) = "pending" /\ Fate(j)' \in Terminal)
    BY <1>1, <2>2, FatePublished
  <2> QED
    BY <1>1, <2>3, <2>4 DEF ContractMove, FateMove, SameFor
<1>3. ASSUME NEW d \in Deleter, DeleteEntry(d), NEW k \in Job PROVE SameFor(k)
  <2>1. outcome' = outcome /\ state' = state /\ registry' = registry \ {djob[d]}
    BY <1>3 DEF DeleteEntry, deleteFrame, entryVars
  <2>2. k = djob[d] => outcome[k] # {}
    BY <1>3 DEF DeleteEntry, Heard
  <2> QED
    BY <1>1, <2>1, <2>2, SameFate DEF SameFor
<1>4. ASSUME UNCHANGED <<registry, state, outcome>>, NEW k \in Job PROVE SameFor(k)
  BY <1>1, <1>4, SameFate DEF SameFor
<1>5. \/ \E c \in Canceller : CancelMark(c)
      \/ \E d \in Deleter : DeleteEntry(d)
      \/ UNCHANGED <<registry, state, outcome>>
  BY DEF CancelSignal, CancelRequest, cancelFrame, DeleteCheck, deleteFrame, Watch, Shutdown,
     Stop, RunSeesStop, lifeFrame, vars, entryVars
<1> QED
  BY <1>2, <1>3, <1>4, <1>5

\* A receive from the channel is invisible to the contract.
LEMMA ContractTake ==
  ASSUME QueueInv, NEW w \in Worker, WorkerTake(w), NEW k \in Job
  PROVE  SameFor(k)
<1> USE DEF QueueInv, ExclusionInv
<1>1. Fate(k)' = Fate(k)
  BY SameFate DEF WorkerTake, entryVars
<1>2. CASE k # Head(chan)
  <2>1. /\ InChan(k)' <=> InChan(k)
        /\ \A v \in Worker : (OnWorker(v, k)' <=> OnWorker(v, k)) 
                               /\ (OnWorker(v, k) => wpc'[v] = wpc[v])
    BY <1>2, TakePlaces
  <2>2. sub' = sub
    BY TakePlaces
  <2> QED
    BY <1>1, <2>1, <2>2, SamePlace DEF SameFor, OwnsKey
<1>3. CASE k = Head(chan)
  <2>1. /\ sub[k] = "accepted" /\ InChan(k) /\ \A v \in Worker : ~OnWorker(v, k)
    BY <1>3, TakePlaces DEF Placed, InChan, OnWorker
  <2>2. /\ sub'[k] = "accepted" /\ OnWorker(w, k)' /\ wpc'[w] = "lookup"
        /\ \A v \in Worker \ {w} : ~OnWorker(v, k)'
    BY <1>3, <2>1, TakePlaces
  <2>3. Exec(k) = "waiting"
    BY <2>1 DEF Exec, Running, OnWorker, Busy, WorkerPc
  <2>4. Exec(k)' = "waiting"
    <3>1. ~Running(k)'
      BY <2>2 DEF Running, OnWorker, Busy, WorkerPc
    <3> QED
      BY <2>2, <3>1 DEF Exec, Terminal
  <2>5. OwnsKey(k)' <=> OwnsKey(k)
    BY <2>1, <2>2 DEF OwnsKey
  <2> QED
    BY <1>1, <2>3, <2>4, <2>5 DEF SameFor
<1> QED
  BY <1>2, <1>3

\* What the contract sees of a job on a worker at pc.
ExecAt(pc) ==
  IF pc = "running" THEN "running"
  ELSE IF pc \in Terminal \cup {"release"} THEN "over" ELSE "waiting"

\* Each step of execute begins, ends, settles or releases its job, or stutters.
LEMMA ContractExecute ==
  ASSUME QueueInv, QueueInv', [Next]_vars, NEW w \in Worker, Execute(w)
  PROVE  \E j \in Job : ContractMove(j) /\ \A k \in Job \ {j} : SameFor(k)
<1> USE DEF QueueInv, ExclusionInv
<1>0. wpc[w] \in Busy /\ chan' = chan /\ sub' = sub
  BY ExecuteStep
<1>1. PICK j \in Job : wjob[w] = j
  BY <1>0 DEF TypeOK
<1>2. /\ registry' = registry /\ \A k \in Job : ~SubmitRegister(k)
      /\ \A v \in Worker \ {w} : wpc'[v] = wpc[v] /\ wjob'[v] = wjob[v]
  BY <1>0 DEF Execute, WorkerLookup, WorkerDeadline, WorkerArm, WorkerStart, WorkerReturn,
     WorkerFinish, WorkerRelease, WorkerAt, Forget, TypeOK, SubmitRegister, SubmitAt
<1>3. ASSUME NEW k \in Job \ {j} PROVE SameFor(k)
  <2>1. InChan(k)' <=> InChan(k)
    BY <1>0 DEF InChan
  <2>2. ~OnWorker(w, k) /\ ~OnWorker(w, k)'
    BY <1>1, ExecuteStep DEF OnWorker, TypeOK, Busy
  <2>3. \A v \in Worker : /\ OnWorker(v, k)' <=> OnWorker(v, k)
                          /\ OnWorker(v, k) => wpc'[v] = wpc[v]
    BY <1>2, <2>2 DEF OnWorker
  <2>4. SameWord(k)
    BY <1>0, <1>1, UpdateStatusEffect DEF Execute, WorkerLookup, WorkerDeadline, WorkerArm,
       WorkerStart, WorkerReturn, WorkerFinish, WorkerRelease, SameWord, entryVars, State,
       Terminal
  <2>5. Fate(k)' = Fate(k)
    BY <1>2, <2>4, SameFate DEF SameWord
  <2> QED
    BY <1>0, <2>1, <2>3, <2>5, SamePlace DEF SameFor, OwnsKey
<1>4. /\ sub[j] = "accepted" /\ ~InChan(j) /\ OnWorker(w, j)
      /\ \A v \in Worker \ {w} : ~OnWorker(v, j)
  BY <1>0, <1>1 DEF Placed, OnWorker
<1>5. /\ sub'[j] = "accepted" /\ ~InChan(j)' /\ \A v \in Worker \ {w} : ~OnWorker(v, j)'
  BY <1>0, <1>2, <1>4 DEF InChan, OnWorker
<1>6. Exec(j) = ExecAt(wpc[w]) /\ (OwnsKey(j) <=> KeyOf[j] # NoKey)
  <2>1. Running(j) <=> wpc[w] = "running"
    BY <1>4 DEF Running, OnWorker, Busy, WorkerPc
  <2> QED
    BY <1>4, <2>1 DEF Exec, ExecAt, OwnsKey
<1>7. /\ OnWorker(w, j)' => Exec(j)' = ExecAt(wpc'[w]) /\ (OwnsKey(j)' <=> KeyOf[j] # NoKey)
      /\ ~OnWorker(w, j)' => Exec(j)' = "over" /\ ~OwnsKey(j)'
  <2>1. Running(j)' <=> OnWorker(w, j)' /\ wpc'[w] = "running"
    BY <1>5 DEF Running, OnWorker, Busy, WorkerPc
  <2> QED
    BY <1>5, <2>1 DEF Exec, ExecAt, OwnsKey
<1>8. CASE WorkerLookup(w) \/ WorkerDeadline(w) \/ WorkerArm(w) \/ WorkerReturn(w)
  <2>1. Fate(j)' = Fate(j)
    BY <1>8, SameFate DEF WorkerLookup, WorkerDeadline, WorkerArm, WorkerReturn, entryVars
  <2>2. /\ OnWorker(w, j)'
        /\ \/ wpc[w] \in Undecided /\ wpc'[w] \in Undecided \cup {"cancelled"}
           \/ wpc[w] = "running" /\ wpc'[w] \in Terminal
    BY <1>1, <1>8 DEF WorkerLookup, WorkerDeadline, WorkerArm, WorkerReturn, WorkerAt, OnWorker,
       TypeOK, Undecided, Busy, WorkerPc, Terminal
  <2>3. Exec(j)' = Exec(j) \/ (Exec(j) # "over" /\ Exec(j)' = "over")
    <3>1. \A p \in Undecided : ExecAt(p) = "waiting"
      BY DEF ExecAt, Undecided, Terminal
    <3>2. ExecAt("running") = "running" /\ \A p \in Terminal : ExecAt(p) = "over"
      BY DEF ExecAt, Terminal
    <3>3. "cancelled" \in Terminal
      BY DEF Terminal
    <3> QED
      BY <1>6, <1>7, <2>2, <3>1, <3>2, <3>3
  <2>4. OwnsKey(j)' <=> OwnsKey(j)
    BY <1>6, <1>7, <2>2
  <2>5. ContractMove(j)
    BY <2>1, <2>3, <2>4 DEF ContractMove, ExecMove, SameFor
  <2> QED
    BY <1>3, <2>5
<1>9. CASE WorkerStart(w)
  <2>1. updateStatus(j, "running") /\ "running" \in State /\ "running" \notin Terminal
    BY <1>1, <1>9 DEF WorkerStart, State, Terminal
  <2>2. /\ outcome'[j] = outcome[j]
        /\ state'[j] = "none" <=> state[j] = "none"
    <3>1. CASE j \in registry
      <4>1. state'[j] = "running" /\ outcome'[j] = outcome[j] \cup ({"running"} \cap Terminal)
        BY <2>1, <3>1, UpdateStatusEffect
      <4> QED
        BY <2>1, <3>1, <4>1 DEF Listing
    <3>2. CASE j \notin registry
      BY <2>1, <3>2, UpdateStatusEffect DEF entryVars
    <3> QED
      BY <3>1, <3>2
  <2>3. Fate(j)' = Fate(j)
    BY <1>2, <2>2, SameFate
  <2>4. wpc[w] = "start" /\ wpc'[w] = "running" /\ OnWorker(w, j)'
    BY <1>1, <1>9 DEF WorkerStart, WorkerAt, OnWorker, TypeOK, Busy, WorkerPc
  <2>5. Exec(j) = "waiting" /\ Exec(j)' = "running"
    BY <1>6, <1>7, <2>4 DEF ExecAt, Terminal
  <2> QED
    BY <1>3, <1>6, <1>7, <2>3, <2>4, <2>5 DEF ContractMove, ExecMove
<1>10. CASE WorkerFinish(w)
  <2>1. Fate(j)' = Fate(j) \/ (Fate(j) = "pending" /\ Fate(j)' \in Terminal)
    BY <1>2, FatePublished
  <2>2. /\ wpc[w] \in Terminal
        /\ \/ wpc'[w] = "idle" /\ KeyOf[j] = NoKey
           \/ wpc'[w] = "release" /\ KeyOf[j] # NoKey /\ wjob'[w] = j
    BY <1>1, <1>10 DEF WorkerFinish, WorkerAt, TypeOK
  <2>3. Exec(j) = "over" /\ Exec(j)' = "over" /\ (OwnsKey(j)' <=> OwnsKey(j))
    <3>1. wpc'[w] = "idle" => ~OnWorker(w, j)'
      BY DEF OnWorker, Busy
    <3>2. wpc'[w] = "release" /\ wjob'[w] = j => OnWorker(w, j)'
      BY DEF OnWorker, Busy, WorkerPc
    <3>3. ExecAt(wpc[w]) = "over" /\ (wpc'[w] = "release" => ExecAt(wpc'[w]) = "over")
      BY <2>2 DEF ExecAt, Terminal
    <3> QED
      BY <1>6, <1>7, <2>2, <3>1, <3>2, <3>3
  <2> QED
    BY <1>3, <2>1, <2>3 DEF ContractMove, FateMove, SameFor
<1>11. CASE WorkerRelease(w)
  <2>1. Fate(j)' = Fate(j)
    BY <1>11, SameFate DEF WorkerRelease, entryVars
  <2>2. wpc[w] = "release" /\ wpc'[w] = "idle" /\ KeyOf[j] # NoKey
    BY <1>1, <1>11 DEF WorkerRelease, WorkerAt, TypeOK, Placed
  <2>3. ~OnWorker(w, j)'
    BY <2>2 DEF OnWorker, Busy
  <2>4. Exec(j) = "over"
    BY <1>6, <2>2 DEF ExecAt
  <2> QED
    BY <1>3, <1>6, <1>7, <2>1, <2>2, <2>3, <2>4 DEF ContractMove, KeyMove
<1> QED
  BY <1>8, <1>9, <1>10, <1>11 DEF Execute

\* A worker's exit is invisible to the contract.
LEMMA ContractExit ==
  ASSUME TypeOK, NEW w \in Worker, WorkerExit(w), NEW k \in Job
  PROVE  SameFor(k)
<1>1. Fate(k)' = Fate(k)
  BY SameFate DEF WorkerExit, entryVars
<1>2. /\ sub' = sub /\ chan' = chan
      /\ \A v \in Worker : /\ OnWorker(v, k)' <=> OnWorker(v, k)
                           /\ OnWorker(v, k) => wpc'[v] = wpc[v]
  BY DEF WorkerExit, WorkerAt, workerFrame, OnWorker, TypeOK, Busy
<1>3. InChan(k)' <=> InChan(k)
  BY <1>2 DEF InChan
<1> QED
  BY <1>1, <1>2, <1>3, SamePlace DEF SameFor, OwnsKey

\* The queue starts where the contract starts.
LEMMA ContractInit == ASSUME QueueAssumption, Init PROVE Contract!Init
<1>1. \A j \in Job : Fate(j) = "unknown" /\ Exec(j) = "waiting" /\ ~OwnsKey(j)
  BY DEF Init, Fate, Exec, OwnsKey, InChan, OnWorker, Running, Busy
<1> QED
  BY <1>1 DEF Contract!Init

\* The queue implements the job contract: every step of a goroutine is a step of the
\* contract or changes nothing the contract speaks of.
THEOREM QueueImplementsContract == Spec => ImplementsContract
<1>1. Init => Contract!Init
  BY ContractInit, QueueAssumption
<1>2. QueueInv /\ QueueInv' /\ [Next]_vars
        => [Contract!Next]_<<fateBar, execBar, holdersBar>>
  <2> SUFFICES ASSUME QueueInv, QueueInv', [Next]_vars
               PROVE  [Contract!Next]_<<fateBar, execBar, holdersBar>>
    OBVIOUS
  <2>1. ASSUME NEW j \in Job, SubmitStart(j) \/ Submit(j)
        PROVE  [Contract!Next]_<<fateBar, execBar, holdersBar>>
    BY <2>1, ContractSubmit, ContractStep
  <2>2. ASSUME NEW w \in Worker, Execute(w)
        PROVE  [Contract!Next]_<<fateBar, execBar, holdersBar>>
    BY <2>2, ContractExecute, ContractStep
  <2>3. ASSUME \A k \in Job : SameFor(k)
        PROVE  UNCHANGED <<fateBar, execBar, holdersBar>>
    BY <2>3 DEF SameFor, fateBar, execBar, holdersBar
  <2>4. ASSUME NEW w \in Worker, WorkerTake(w) \/ WorkerExit(w)
        PROVE  UNCHANGED <<fateBar, execBar, holdersBar>>
    BY <2>3, <2>4, ContractTake, ContractExit DEF QueueInv, ExclusionInv
  <2> QED
    BY <2>1, <2>2, <2>3, <2>4, ContractClients, ContractStep DEF Next
<1>3. <<fateBar, execBar, holdersBar>> = <<[j \in Job |-> Fate(j)], [j \in Job |-> Exec(j)],
                                           {j \in Job : OwnsKey(j)}>>
  BY DEF fateBar, execBar, holdersBar
<1> QED
  BY <1>1, <1>2, QueueInvariant, PTL
     DEF Spec, ImplementsContract, Contract!Spec, fateBar, execBar, holdersBar

-----------------------------------------------------------------------------
(* The life of the backend around the queue, for any calls and periodics and   *)
(* every size of the buffer.                                                   *)
(* Types of what a Run and the calls about it use, and of the rest. *)
LifeOK ==
  /\ started \in BOOLEAN
  /\ order \in Seq(RunCall)
  /\ rpc \in [RunCall -> {"idle", "refused", "open", "select", "join", "returned"}]
  /\ deferred \in [RunCall -> RunCall \cup {None}]
  /\ closed \subseteq RunCall /\ cancelled \subseteq RunCall /\ drains \subseteq RunCall
  /\ spc \in [StopCall -> {"idle", "cancel", "ok", "error"}]
  /\ opc \in [Observer -> {"idle", "waiting", "ok", "timeout"}]
  /\ target \in [StopCall \cup Observer -> RunCall \cup {None}]
QueueOK ==
  /\ qdone \in BOOLEAN /\ jobs \in 0 .. Buffer
  /\ worker \in [RunCall -> {"off", "idle", "busy", "exited"}]
PeriodicOK ==
  /\ apc \in [Periodic -> {"idle", "register", "returned"}]
  /\ watcher \in [Periodic -> {"off", "watch", "forget", "exited"}]
  /\ loop \in [Periodic -> {"off", "select", "submit", "send", "exited"}]
  /\ gone \subseteq Periodic /\ periodics \subseteq Periodic
  /\ ticks \in [Periodic -> 0 .. MaxTicks]

(* What a call has hold of when it comes to use it. *)
HoldsARun ==
  /\ started => order # <<>>
  /\ \A s \in StopCall : spc[s] = "cancel" => target[s] \in RunCall
  /\ \A r \in RunCall : rpc[r] \in {"select", "join", "returned"} => deferred[r] \in RunCall
TypeInv == LifeOK /\ QueueOK /\ PeriodicOK /\ HoldsARun

LEMMA LatestType ==
  ASSUME order \in Seq(RunCall)
  PROVE  /\ Latest \in RunCall \cup {None}
         /\ order # <<>> => Latest \in RunCall
         /\ order = <<>> => Latest = None
  BY DEF Latest

LEMMA SinceType ==
  ASSUME order \in Seq(RunCall), NEW r \in RunCall
  PROVE  Since(r) \subseteq RunCall
  BY DEF Since

LEMMA TypeInit == BackendInit => TypeInv
  <1> SUFFICES ASSUME BackendInit PROVE TypeInv
    OBVIOUS
  <1>1. order \in Seq(RunCall)
    BY DEF BackendInit
  <1>2. LifeOK
    BY <1>1, Zenon DEF BackendInit, LifeOK
  <1>3. jobs \in 0 .. Buffer /\ 0 \in 0 .. MaxTicks
    BY BackendAssumption DEF BackendInit
  <1>4. QueueOK /\ PeriodicOK
    BY <1>3 DEF BackendInit, QueueOK, PeriodicOK
  <1>5. HoldsARun
    BY DEF BackendInit, HoldsARun
  <1> QED BY <1>2, <1>4, <1>5 DEF TypeInv

LEMMA TypeStep == TypeInv /\ [BackendNext]_backendVars => TypeInv'
  <1> SUFFICES ASSUME TypeInv, [BackendNext]_backendVars PROVE TypeInv'
    OBVIOUS
  <1>life. ASSUME UNCHANGED lifecycle PROVE LifeOK' /\ HoldsARun'
    BY <1>life DEF TypeInv, LifeOK, HoldsARun, lifecycle
  <1>queue. ASSUME UNCHANGED <<qdone, worker, jobs>> PROVE QueueOK'
    BY <1>queue DEF TypeInv, QueueOK
  <1>periodic. ASSUME UNCHANGED periodicVars PROVE PeriodicOK'
    BY <1>periodic DEF TypeInv, PeriodicOK, periodicVars
  <1>1. ASSUME NEW r \in RunCall, RunLock(r) PROVE TypeInv'
    <2>1. order' \in Seq(RunCall) /\ (started' => order' # <<>>)
      BY <1>1 DEF RunLock, TypeInv, LifeOK, HoldsARun
    <2>2. /\ started' \in BOOLEAN
          /\ \E next \in {"refused", "open"} : rpc' = [rpc EXCEPT ![r] = next]
          /\ UNCHANGED <<deferred, closed, cancelled, drains, spc, opc, target>>
      BY <1>1 DEF RunLock, TypeInv, LifeOK
    <2>3. LifeOK' /\ HoldsARun'
      BY <2>1, <2>2 DEF TypeInv, LifeOK, HoldsARun
    <2> QED BY <1>1, <2>3, <1>queue, <1>periodic DEF RunLock, TypeInv
  <1>2. ASSUME NEW r \in RunCall, RunDefer(r) PROVE TypeInv'
    <2>1. PICK late \in RunCall : deferred' = [deferred EXCEPT ![r] = late]
      BY <1>2, SinceType DEF RunDefer, TypeInv, LifeOK
    <2>2. LifeOK' /\ HoldsARun'
      BY <1>2, <2>1 DEF RunDefer, TypeInv, LifeOK, HoldsARun
    <2>3. QueueOK'
      BY <1>2 DEF RunDefer, TypeInv, QueueOK
    <2> QED BY <1>2, <2>2, <2>3, <1>periodic DEF RunDefer, TypeInv
  <1>3. ASSUME NEW r \in RunCall, RunSignal(r) PROVE TypeInv'
    <2>1. LifeOK' /\ HoldsARun'
      BY <1>3 DEF RunSignal, TypeInv, LifeOK, HoldsARun
    <2>2. QueueOK'
      BY <1>3 DEF RunSignal, TypeInv, QueueOK
    <2> QED BY <1>3, <2>1, <2>2, <1>periodic DEF RunSignal, TypeInv
  <1>4. ASSUME NEW r \in RunCall, RunReturn(r) PROVE TypeInv'
    <2>1. LifeOK' /\ HoldsARun'
      BY <1>4 DEF RunReturn, TypeInv, LifeOK, HoldsARun
    <2> QED BY <1>4, <2>1, <1>queue, <1>periodic DEF RunReturn, TypeInv
  <1>5. ASSUME NEW r \in RunCall, RunCallerCancels(r) PROVE TypeInv'
    <2>1. LifeOK' /\ HoldsARun'
      BY <1>5 DEF RunCallerCancels, TypeInv, LifeOK, HoldsARun
    <2> QED BY <1>5, <2>1, <1>queue, <1>periodic DEF RunCallerCancels, TypeInv
  <1>6. ASSUME NEW r \in RunCall, TakeJob(r) \/ FinishJob(r) \/ WorkerReturns(r)
        PROVE TypeInv'
    <2>1. QueueOK'
      BY <1>6, BackendAssumption DEF TakeJob, FinishJob, WorkerReturns, TypeInv, QueueOK
    <2> QED BY <1>6, <2>1, <1>life, <1>periodic DEF TakeJob, FinishJob, WorkerReturns, TypeInv
  <1>7. ASSUME NEW s \in StopCall, StopLock(s) PROVE TypeInv'
    <2>1. started => Latest \in RunCall
      BY LatestType DEF TypeInv, LifeOK, HoldsARun
    <2>2. LifeOK' /\ HoldsARun'
      BY <1>7, <2>1 DEF StopLock, TypeInv, LifeOK, HoldsARun
    <2> QED BY <1>7, <2>2, <1>queue, <1>periodic DEF StopLock, TypeInv
  <1>8. ASSUME NEW s \in StopCall, StopCancel(s) PROVE TypeInv'
    <2>1. LifeOK' /\ HoldsARun'
      BY <1>8 DEF StopCancel, TypeInv, LifeOK, HoldsARun
    <2> QED BY <1>8, <2>1, <1>queue, <1>periodic DEF StopCancel, TypeInv
  <1>9. ASSUME NEW o \in Observer, Observe(o) PROVE TypeInv'
    <2>1. Latest \in RunCall \cup {None} /\ (order # <<>> => Latest \in RunCall)
      BY LatestType DEF TypeInv, LifeOK
    <2>2. LifeOK'
      BY <1>9, <2>1 DEF Observe, TypeInv, LifeOK
    <2>3. HoldsARun'
      BY <1>9, BackendAssumption DEF Observe, TypeInv, LifeOK, HoldsARun
    <2> QED BY <1>9, <2>2, <2>3, <1>queue, <1>periodic DEF Observe, TypeInv
  <1>10. ASSUME NEW o \in Observer, ObserveDone(o) \/ ObserveTimeout(o) PROVE TypeInv'
    <2>1. LifeOK' /\ HoldsARun'
      BY <1>10 DEF ObserveDone, ObserveTimeout, TypeInv, LifeOK, HoldsARun
    <2> QED BY <1>10, <2>1, <1>queue, <1>periodic DEF ObserveDone, ObserveTimeout, TypeInv
  <1>11. ASSUME NEW p \in Periodic,
                AddPeriodic(p) \/ Register(p) \/ WatchPeriodic(p) \/ ForgetPeriodic(p) \/ PeriodicCallerCancels(p)
         PROVE TypeInv'
    <2>1. PeriodicOK'
      BY <1>11 DEF AddPeriodic, Register, WatchPeriodic, ForgetPeriodic, PeriodicCallerCancels, TypeInv, PeriodicOK
    <2> QED
      BY <1>11, <2>1, <1>life, <1>queue
      DEF AddPeriodic, Register, WatchPeriodic, ForgetPeriodic, PeriodicCallerCancels, TypeInv
  <1>12. ASSUME NEW p \in Periodic, RemovePeriodic(p) \/ LoopExit(p) \/ Tick(p) PROVE TypeInv'
    <2>1. PeriodicOK'
      BY <1>12, BackendAssumption DEF RemovePeriodic, LoopExit, Tick, TypeInv, PeriodicOK
    <2> QED BY <1>12, <2>1, <1>life, <1>queue DEF RemovePeriodic, LoopExit, Tick, TypeInv
  <1>13. ASSUME NEW p \in Periodic, LoopSteps(p) PROVE TypeInv'
    <2>1. PeriodicOK'
      BY <1>13 DEF LoopSteps, SubmitFast, SubmitSend, SubmitGiveUp, TypeInv, PeriodicOK
    <2>2. QueueOK'
      BY <1>13, BackendAssumption DEF LoopSteps, SubmitFast, SubmitSend, SubmitGiveUp, TypeInv, QueueOK
    <2> QED BY <1>13, <2>1, <2>2, <1>life DEF LoopSteps, SubmitFast, SubmitSend, SubmitGiveUp, TypeInv
  <1>14. CASE SubmitByOthers
    <2>1. QueueOK'
      BY <1>14, BackendAssumption DEF SubmitByOthers, TypeInv, QueueOK
    <2> QED BY <1>14, <2>1, <1>life, <1>periodic DEF SubmitByOthers, TypeInv
  <1>15. CASE UNCHANGED backendVars
    BY <1>15, <1>life, <1>queue, <1>periodic DEF backendVars, TypeInv
  <1> QED
    BY <1>1, <1>2, <1>3, <1>4, <1>5, <1>6, <1>7, <1>8, <1>9, <1>10, <1>11, <1>12, <1>13, <1>14, <1>15
    DEF BackendNext, RunSteps

(* Every reachable state is well typed; no call uses a Run that is not there. *)
THEOREM BackendTypeCorrect == BackendSpec => []BackendTypeOK
  <1>1. BackendSpec => []TypeInv
    BY TypeInit, TypeStep, PTL DEF BackendSpec
  <1>2. TypeInv => BackendTypeOK
    BY DEF TypeInv, BackendTypeOK, LifeOK, QueueOK, PeriodicOK
  <1> QED BY <1>1, <1>2, PTL

-----------------------------------------------------------------------------
(* The end of a Run.  A channel is closed by the Run that deferred it, after its *)
(* worker has exited; who has got nil found the channel closed.                  *)
ClosedByItsRun == \A d \in closed : \E r \in RunCall : deferred[r] = d /\ rpc[r] = "returned"
ReturnedLast == \A r \in RunCall : rpc[r] = "returned" => worker[r] = "exited"
SeenClosed == \A o \in Observer : opc[o] = "ok" /\ target[o] # None => target[o] \in closed
EndInv == TypeInv /\ ClosedByItsRun /\ ReturnedLast /\ SeenClosed

LEMMA EndInit == BackendInit => EndInv
  BY TypeInit DEF BackendInit, EndInv, ClosedByItsRun, ReturnedLast, SeenClosed

LEMMA EndStep == EndInv /\ [BackendNext]_backendVars => EndInv'
  <1> SUFFICES ASSUME EndInv, [BackendNext]_backendVars PROVE (ClosedByItsRun /\ ReturnedLast /\ SeenClosed)'
    BY TypeStep DEF EndInv
  <1> USE DEF EndInv
  <1>typ. LifeOK /\ QueueOK
    BY DEF TypeInv
  <1>still. ASSUME UNCHANGED lifecycle, UNCHANGED worker
            PROVE (ClosedByItsRun /\ ReturnedLast /\ SeenClosed)'
    BY <1>still DEF lifecycle, ClosedByItsRun, ReturnedLast, SeenClosed
  <1>1. ASSUME NEW r \in RunCall, RunLock(r) \/ RunSignal(r)
        PROVE (ClosedByItsRun /\ ReturnedLast /\ SeenClosed)'
    <2>1. /\ \A x \in RunCall : rpc'[x] = "returned" <=> rpc[x] = "returned"
          /\ UNCHANGED <<closed, deferred, worker, opc, target>>
      BY <1>1, <1>typ DEF RunLock, RunSignal, LifeOK
    <2> QED BY <2>1 DEF ClosedByItsRun, ReturnedLast, SeenClosed
  <1>2. ASSUME NEW r \in RunCall, RunDefer(r)
        PROVE (ClosedByItsRun /\ ReturnedLast /\ SeenClosed)'
    <2>1. /\ \A x \in RunCall : rpc'[x] = "returned" <=> rpc[x] = "returned"
          /\ rpc[r] = "open"
          /\ \A x \in RunCall : x # r => deferred'[x] = deferred[x] /\ worker'[x] = worker[x]
          /\ UNCHANGED <<closed, opc, target>>
      BY <1>2, <1>typ DEF RunDefer, LifeOK, QueueOK
    <2> QED BY <2>1 DEF ClosedByItsRun, ReturnedLast, SeenClosed
  <1>3. ASSUME NEW r \in RunCall, RunReturn(r)
        PROVE (ClosedByItsRun /\ ReturnedLast /\ SeenClosed)'
    <2>1. /\ \A x \in RunCall : rpc'[x] = IF x = r THEN "returned" ELSE rpc[x]
          /\ worker[r] = "exited" /\ closed' = closed \cup {deferred[r]}
          /\ UNCHANGED <<deferred, worker, opc, target>>
      BY <1>3, <1>typ DEF RunReturn, LifeOK
    <2> QED BY <2>1 DEF ClosedByItsRun, ReturnedLast, SeenClosed
  <1>4. ASSUME NEW r \in RunCall, RunCallerCancels(r)
        PROVE (ClosedByItsRun /\ ReturnedLast /\ SeenClosed)'
    BY <1>4 DEF RunCallerCancels, ClosedByItsRun, ReturnedLast, SeenClosed
  <1>5. ASSUME NEW r \in RunCall, TakeJob(r) \/ FinishJob(r) \/ WorkerReturns(r)
        PROVE (ClosedByItsRun /\ ReturnedLast /\ SeenClosed)'
    <2>1. /\ \A x \in RunCall : worker[x] = "exited" => worker'[x] = "exited"
          /\ UNCHANGED lifecycle
      BY <1>5, <1>typ DEF TakeJob, FinishJob, WorkerReturns, QueueOK
    <2> QED BY <2>1 DEF lifecycle, ClosedByItsRun, ReturnedLast, SeenClosed
  <1>6. ASSUME NEW s \in StopCall, StopLock(s) \/ StopCancel(s)
        PROVE (ClosedByItsRun /\ ReturnedLast /\ SeenClosed)'
    <2>1. /\ \A o \in Observer : target'[o] = target[o]
          /\ UNCHANGED <<closed, deferred, rpc, worker, opc>>
      BY <1>6, <1>typ, BackendAssumption DEF StopLock, StopCancel, LifeOK
    <2> QED BY <2>1 DEF ClosedByItsRun, ReturnedLast, SeenClosed
  <1>7. ASSUME NEW o \in Observer, Observe(o) \/ ObserveDone(o) \/ ObserveTimeout(o)
        PROVE (ClosedByItsRun /\ ReturnedLast /\ SeenClosed)'
    <2>1. /\ \A x \in Observer : x # o => opc'[x] = opc[x] /\ target'[x] = target[x]
          /\ opc'[o] = "ok" => target'[o] \in closed \cup {None}
          /\ UNCHANGED <<closed, deferred, rpc, worker>>
      BY <1>7, <1>typ, LatestType DEF Observe, ObserveDone, ObserveTimeout, LifeOK
    <2> QED BY <2>1 DEF ClosedByItsRun, ReturnedLast, SeenClosed
  <1>8. ASSUME NEW p \in Periodic,
               \/ AddPeriodic(p) \/ Register(p) \/ WatchPeriodic(p) \/ ForgetPeriodic(p) \/ PeriodicCallerCancels(p)
               \/ RemovePeriodic(p) \/ LoopExit(p) \/ Tick(p) \/ LoopSteps(p)
        PROVE (ClosedByItsRun /\ ReturnedLast /\ SeenClosed)'
    BY <1>8, <1>still
    DEF AddPeriodic, Register, WatchPeriodic, ForgetPeriodic, PeriodicCallerCancels, RemovePeriodic, LoopExit,
        Tick, LoopSteps, SubmitFast, SubmitSend, SubmitGiveUp
  <1>9. CASE SubmitByOthers \/ UNCHANGED backendVars
    BY <1>9, <1>still DEF backendVars, SubmitByOthers
  <1> QED
    BY <1>1, <1>2, <1>3, <1>4, <1>5, <1>6, <1>7, <1>8, <1>9 DEF BackendNext, RunSteps

(* Who has waited for a Run, in Wait or Shutdown, has seen it return with its *)
(* worker, unless some Run took the channel of a later one.                   *)
THEOREM WaitersSeeTheEnd == BackendSpec => []EndIsSeen
  <1>1. BackendSpec => []EndInv
    BY EndInit, EndStep, PTL DEF BackendSpec
  <1>2. EndInv => EndIsSeen
    <2> SUFFICES ASSUME EndInv, ~Mixed, NEW o \in Observer, opc[o] = "ok", target[o] # None
                 PROVE  rpc[target[o]] = "returned" /\ worker[target[o]] = "exited"
      BY DEF EndIsSeen
    <2>1. PICK r \in RunCall : deferred[r] = target[o] /\ rpc[r] = "returned"
      BY DEF EndInv, SeenClosed, ClosedByItsRun
    <2>2. r = target[o]
      BY <2>1 DEF Mixed
    <2> QED BY <2>1, <2>2 DEF EndInv, ReturnedLast
  <1> QED BY <1>1, <1>2, PTL

=============================================================================
