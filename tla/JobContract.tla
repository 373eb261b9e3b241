---------------------------- MODULE JobContract -----------------------------
(***************************************************************************)
(* What a job queue promises, whatever backend implements it: the job and  *)
(* uniqueness semantics of server/jobs/jobs.go.  A job that was listed     *)
(* gets one outcome or is withdrawn, is run at most once, and jobs that    *)
(* share a dedup key exclude each other from Submit until after their run. *)
(***************************************************************************)
CONSTANTS Job, KeyOf, NoKey

VARIABLES
  fate,     \* what the queue has said of each job
  exec,     \* "waiting", "running" or "over"
  holders   \* unique jobs that own their dedup key

Outcome == {"succeeded", "failed", "cancelled"}

Init ==
  /\ fate = [j \in Job |-> "unknown"]
  /\ exec = [j \in Job |-> "waiting"]
  /\ holders = {}

List(j) ==
  /\ fate[j] = "unknown"
  /\ fate' = [fate EXCEPT ![j] = "pending"]
  /\ UNCHANGED <<exec, holders>>

Settle(j) ==
  /\ fate[j] = "pending"
  /\ \E s \in Outcome : fate' = [fate EXCEPT ![j] = s]
  /\ UNCHANGED <<exec, holders>>

Withdraw(j) ==
  /\ fate[j] = "pending" /\ exec[j] = "waiting"
  /\ fate' = [fate EXCEPT ![j] = "withdrawn"]
  /\ UNCHANGED <<exec, holders>>

Grab(j) ==
  /\ KeyOf[j] # NoKey
  /\ \A k \in holders : KeyOf[k] # KeyOf[j]
  /\ holders' = holders \cup {j}
  /\ UNCHANGED <<fate, exec>>

Drop(j) ==
  /\ j \in holders /\ exec[j] # "running"
  /\ holders' = holders \ {j}
  /\ UNCHANGED <<fate, exec>>

Begin(j) ==
  /\ exec[j] = "waiting"
  /\ KeyOf[j] # NoKey => j \in holders
  /\ exec' = [exec EXCEPT ![j] = "running"]
  /\ UNCHANGED <<fate, holders>>

End(j) ==
  /\ exec[j] # "over"
  /\ exec' = [exec EXCEPT ![j] = "over"]
  /\ UNCHANGED <<fate, holders>>

Next == \E j \in Job : \/ List(j) \/ Settle(j) \/ Withdraw(j) \/ Grab(j)
                       \/ Drop(j) \/ Begin(j) \/ End(j)

Spec == Init /\ [][Next]_<<fate, exec, holders>>
=============================================================================
