------------------------------- MODULE KVCache -------------------------------
(***************************************************************************)
(* The two-tier cache of server/caches/kvcache/kvcache.go: processes with a *)
(* local map each in front of one shared store, callers of Get, Set and     *)
(* Refresh, and a background goroutine per process that reconciles the      *)
(* tiers and refreshes what is due.                                         *)
(*                                                                         *)
(* One key.  What the refresh function would return is a number, truth,     *)
(* that the world counts up; numbers in Absent mean that the key has no     *)
(* value (ErrNotFound, a tombstone).  An entry counts down the ticks until   *)
(* its recheck and its expiry.  A step is one access to the local map under *)
(* its lock, one operation of the store, or one end of a refresh call.      *)
(***************************************************************************)
EXTENDS Integers, FiniteSets

CONSTANTS
  Process,
  Getter, Setter, Ticker,  \* goroutines; a Ticker runs between Start and Stop
  Home,                    \* the process of a goroutine
  Refreshing,              \* processes whose cache has a refresh function
  Recheck, Expires, NegativeTTL, RefreshTimeout,  \* in ticks; NegativeTTL 0 is off
  MaxTruth, Absent,        \* bound on truth; the versions that are absences
  None, Expired, NoAgent

Agent == Getter \cup Setter \cup Ticker
Version == 0..MaxTruth
Entry == [val : Version, recheck : Int, expires : Nat \ {0}]

ASSUME KVCacheAssumption ==
  /\ Home \in [Agent -> Process] /\ Refreshing \subseteq Process
  /\ Getter \cap Setter = {} /\ Getter \cap Ticker = {} /\ Setter \cap Ticker = {}
  /\ Recheck \in Nat /\ Expires \in Nat \ {0} /\ NegativeTTL \in 0..Expires
  /\ RefreshTimeout \in Nat /\ MaxTruth \in Nat /\ Absent \subseteq Version
  /\ None \notin Entry /\ Expired \notin Entry /\ None # Expired /\ NoAgent \notin Agent

VARIABLES
  truth,   \* what the refresh function reads
  age,     \* history: ticks since a version was the truth
  local,   \* items[key] of each process
  remote,   \* the shared tier; what is past its time there is as good as gone
  pc,
  hold,    \* the entry a goroutine carries: read from the store, or to be set
  asked,   \* the version its refresh call has read
  waited,  \* ticks its refresh call has lasted
  flight,  \* singleflight: the leader of the flight of each process
  running, \* tickerStop of each process: its goroutine, or NoAgent
  stopped, \* goroutines whose stop channel is closed
  stopping \* processes in which Stop holds tickerLock and waits

carried == <<hold, asked, waited>>
ticking == <<running, stopped, stopping>>
kvVars == <<truth, age, local, remote, pc, carried, flight, ticking>>

Live(it) == it \notin {None, Expired}
Unexpired(it) == IF Live(it) THEN it ELSE None
Slot == Entry \cup {None, Expired}

KVTypeOK ==
  /\ truth \in Version /\ age \in [Version -> Nat]
  /\ local \in [Process -> Slot] /\ remote \in Entry \cup {None}
  /\ pc \in [Agent -> {"idle", "join", "wait", "load", "install", "call", "called", "local",
                       "store", "forget", "off", "sleep", "scan", "read", "reconcile"}]
  /\ hold \in [Agent -> Slot] /\ asked \in [Agent -> Version] /\ waited \in [Agent -> 0..RefreshTimeout]
  /\ flight \in [Process -> Agent \cup {NoAgent}]
  /\ running \in [Process -> Agent \cup {NoAgent}]
  /\ stopped \subseteq Agent /\ stopping \subseteq Process

KVInit ==
  /\ truth = 0 /\ age = [v \in Version |-> 0]
  /\ local = [p \in Process |-> None] /\ remote = None
  /\ pc = [a \in Agent |-> IF a \in Ticker THEN "off" ELSE "idle"]
  /\ hold = [a \in Agent |-> None] /\ asked = [a \in Agent |-> 0] /\ waited = [a \in Agent |-> 0]
  /\ flight = [p \in Process |-> NoAgent] /\ running = [p \in Process |-> NoAgent]
  /\ stopped = {} /\ stopping = {}

-----------------------------------------------------------------------------
(* Time and the world *)
Older(it) ==
  IF ~Live(it) THEN it
  ELSE IF it.expires = 1 THEN Expired
  ELSE [it EXCEPT !.expires = @ - 1, !.recheck = @ - 1]

(* A refresh call ends within its timeout, so the clock waits for it.         *)
Tick ==
  /\ \A a \in Agent : pc[a] = "called" => waited[a] < RefreshTimeout
  /\ age' = [v \in Version |-> IF v >= truth \/ age[v] > Expires + RefreshTimeout THEN age[v] ELSE age[v] + 1]
  /\ local' = [p \in Process |-> Older(local[p])]
  /\ remote' = Unexpired(Older(remote))
  /\ hold' = [a \in Agent |-> Older(hold[a])]
  /\ waited' = [a \in Agent |-> IF pc[a] = "called" THEN waited[a] + 1 ELSE waited[a]]
  /\ UNCHANGED <<truth, pc, asked, flight, ticking>>

TruthChanges ==
  /\ truth < MaxTruth
  /\ truth' = truth + 1
  /\ UNCHANGED <<age, local, remote, pc, carried, flight, ticking>>

-----------------------------------------------------------------------------
At(a, l) == pc[a] = l
Goto(a, l) == pc' = [pc EXCEPT ![a] = l]
Carry(a, it) == hold' = [hold EXCEPT ![a] = it]

Fresh(v) == [val |-> v, recheck |-> Recheck, expires |-> Expires]
missingItem(v) == [val |-> v, recheck |-> NegativeTTL, expires |-> NegativeTTL]

(* GetItem: an entry of the local map that has not expired is the answer.     *)
GetLocal(g) ==
  /\ At(g, "idle") /\ g \in Getter /\ ~Live(local[Home[g]])
  /\ Goto(g, "join")
  /\ UNCHANGED <<truth, age, local, remote, carried, flight, ticking>>

(* loadOrRefresh: the first caller leads the flight, the others wait for it.  *)
Join(g) ==
  /\ At(g, "join")
  /\ IF flight[Home[g]] = NoAgent
     THEN flight' = [flight EXCEPT ![Home[g]] = g] /\ Goto(g, "load")
     ELSE UNCHANGED flight /\ Goto(g, "wait")
  /\ UNCHANGED <<truth, age, local, remote, carried, ticking>>

(* The flight ends, and with it the calls that share it.                     *)
Land(g) ==
  /\ flight' = [flight EXCEPT ![Home[g]] = NoAgent]
  /\ pc' = [a \in Agent |-> IF a = g \/ (pc[a] = "wait" /\ Home[a] = Home[g]) THEN "idle" ELSE pc[a]]

AfterMiss(g) == IF Home[g] \in Refreshing THEN "call" ELSE "forget"

(* getStore: a failed read, an entry past its time and no entry are a miss.   *)
LoadHit(g) ==
  /\ At(g, "load") /\ Live(remote)
  /\ Carry(g, remote) /\ Goto(g, "install")
  /\ UNCHANGED <<truth, age, local, remote, asked, waited, flight, ticking>>

LoadMiss(g) ==
  /\ At(g, "load")
  /\ Goto(g, AfterMiss(g))
  /\ UNCHANGED <<truth, age, local, remote, carried, flight, ticking>>

Install(g) ==
  /\ At(g, "install")
  /\ local' = [local EXCEPT ![Home[g]] = hold[g]]
  /\ Carry(g, None) /\ Land(g)
  /\ UNCHANGED <<truth, age, remote, asked, waited, ticking>>

deleteExpiredLocal(g) ==
  /\ At(g, "forget")
  /\ local' = [local EXCEPT ![Home[g]] = Unexpired(@)]
  /\ Land(g)
  /\ UNCHANGED <<truth, age, remote, carried, ticking>>

-----------------------------------------------------------------------------
(* runRefresh, by the leader of a flight, the ticker, or a caller of Refresh.  *)
CallRefresh(a) ==
  /\ At(a, "call")
  /\ asked' = [asked EXCEPT ![a] = truth]
  /\ Goto(a, "called")
  /\ UNCHANGED <<truth, age, local, remote, hold, waited, flight, ticking>>

Answered(a) == asked' = [asked EXCEPT ![a] = 0] /\ waited' = [waited EXCEPT ![a] = 0]

RefreshReturns(a) ==
  /\ At(a, "called")
  /\ \/ asked[a] \notin Absent /\ Carry(a, Fresh(asked[a]))
     \/ asked[a] \in Absent /\ NegativeTTL > 0 /\ Carry(a, missingItem(asked[a]))
  /\ Goto(a, "local") /\ Answered(a)
  /\ UNCHANGED <<truth, age, local, remote, flight, ticking>>

(* An error, the timeout, or an absence that is not to be remembered.         *)
RefreshFails(a) ==
  /\ At(a, "called")
  /\ Goto(a, IF a \in Getter THEN "forget" ELSE IF a \in Ticker THEN "sleep" ELSE "idle") /\ Answered(a)
  /\ UNCHANGED <<truth, age, local, remote, hold, flight, ticking>>

setLocal(a) ==
  /\ At(a, "local")
  /\ local' = [local EXCEPT ![Home[a]] = hold[a]]
  /\ Goto(a, "store")
  /\ UNCHANGED <<truth, age, remote, carried, flight, ticking>>

(* setStore: an error is the caller's to ignore.                             *)
setStore(a) ==
  /\ At(a, "store")
  /\ remote' \in {Unexpired(hold[a]), remote}
  /\ Carry(a, None)
  /\ \/ a \in Getter /\ Land(a)
     \/ a \in Ticker /\ Goto(a, "sleep") /\ UNCHANGED flight
     \/ a \in Setter /\ Goto(a, "idle") /\ UNCHANGED flight
  /\ UNCHANGED <<truth, age, local, asked, waited, ticking>>

(* SetTTL and SetMissing, with what the caller knows to be true.              *)
SetTTL(s) ==
  /\ At(s, "idle") /\ s \in Setter /\ truth \notin Absent
  /\ Carry(s, Fresh(truth)) /\ Goto(s, "local")
  /\ UNCHANGED <<truth, age, local, remote, asked, waited, flight, ticking>>

SetMissing(s) ==
  /\ At(s, "idle") /\ s \in Setter /\ truth \in Absent /\ NegativeTTL > 0
  /\ Carry(s, missingItem(truth)) /\ Goto(s, "local")
  /\ UNCHANGED <<truth, age, local, remote, asked, waited, flight, ticking>>

Refresh(s) ==
  /\ At(s, "idle") /\ s \in Setter /\ Home[s] \in Refreshing
  /\ Goto(s, "call")
  /\ UNCHANGED <<truth, age, local, remote, carried, flight, ticking>>

-----------------------------------------------------------------------------
(* Start, Stop and the background goroutine *)

\* Mutant: a Start slips in while Stop waits.
StartSlipsIn(t) ==
  LET p == Home[t] IN
  /\ At(t, "off") /\ running[p] = NoAgent
  /\ running' = [running EXCEPT ![p] = t]
  /\ Goto(t, "sleep")
  /\ UNCHANGED <<truth, age, local, remote, carried, flight, stopped, stopping>>

Start(t) ==
  LET p == Home[t] IN
  /\ At(t, "off") /\ p \notin stopping /\ running[p] = NoAgent
  /\ running' = [running EXCEPT ![p] = t]
  /\ Goto(t, "sleep")
  /\ UNCHANGED <<truth, age, local, remote, carried, flight, stopped, stopping>>

Stop(p) ==
  /\ p \notin stopping /\ running[p] # NoAgent
  /\ stopped' = stopped \cup {running[p]}
  /\ running' = [running EXCEPT ![p] = NoAgent]
  /\ stopping' = stopping \cup {p}
  /\ UNCHANGED <<truth, age, local, remote, pc, carried, flight>>

Tickers(p) == {t \in Ticker : Home[t] = p /\ pc[t] # "off"}
StopReturns(p) ==
  /\ p \in stopping /\ Tickers(p) = {}
  /\ stopping' = stopping \ {p}
  /\ UNCHANGED <<truth, age, local, remote, pc, carried, flight, running, stopped>>

Wake(t) ==
  /\ At(t, "sleep")
  /\ Goto(t, "scan")
  /\ UNCHANGED <<truth, age, local, remote, carried, flight, ticking>>

TickerExits(t) ==
  /\ At(t, "sleep") /\ t \in stopped
  /\ stopped' = stopped \ {t}
  /\ Goto(t, "off")
  /\ UNCHANGED <<truth, age, local, remote, carried, flight, running, stopping>>

(* scan: the keys of the local map, then one read of the store, then the map. *)
ScanKeys(t) ==
  /\ At(t, "scan")
  /\ Goto(t, IF local[Home[t]] = None THEN "sleep" ELSE "read")
  /\ UNCHANGED <<truth, age, local, remote, carried, flight, ticking>>

ScanRead(t) ==
  /\ At(t, "read")
  /\ hold' \in {[hold EXCEPT ![t] = it] : it \in {remote, None}}
  /\ Goto(t, "reconcile")
  /\ UNCHANGED <<truth, age, local, remote, asked, waited, flight, ticking>>

\* Mutant: what is adopted from the store is given a new lease.
AdoptedRenewed(mine, theirs) ==
  IF Live(theirs) /\ (~Live(mine) \/ theirs.recheck > mine.recheck) THEN Fresh(theirs.val) ELSE mine

\* What a scan makes of an entry of the local map.
Adopted(mine, theirs) ==
  IF Live(theirs) /\ (~Live(mine) \/ theirs.recheck > mine.recheck) THEN theirs ELSE mine

ScanReconcile(t) ==
  LET p == Home[t]
      it == IF local[p] = None THEN None ELSE Adopted(local[p], hold[t]) IN
  /\ At(t, "reconcile")
  /\ local' = [local EXCEPT ![p] = Unexpired(it)]
  /\ Goto(t, IF Live(it) /\ it.recheck <= 0 /\ p \in Refreshing THEN "call" ELSE "sleep")
  /\ Carry(t, None)
  /\ UNCHANGED <<truth, age, remote, asked, waited, flight, ticking>>

-----------------------------------------------------------------------------
GetStep(g) == Join(g) \/ LoadHit(g) \/ LoadMiss(g) \/ Install(g) \/ deleteExpiredLocal(g)
RefreshStep(a) == CallRefresh(a) \/ RefreshReturns(a) \/ RefreshFails(a) \/ setLocal(a) \/ setStore(a)
TickStep(t) == ScanKeys(t) \/ ScanRead(t) \/ ScanReconcile(t)

KVNext ==
  \/ Tick \/ TruthChanges
  \/ \E g \in Getter : GetLocal(g) \/ GetStep(g)
  \/ \E s \in Setter : SetTTL(s) \/ SetMissing(s) \/ Refresh(s)
  \/ \E a \in Agent : RefreshStep(a)
  \/ \E t \in Ticker : Start(t) \/ Wake(t) \/ TickerExits(t) \/ TickStep(t)
  \/ \E p \in Process : Stop(p) \/ StopReturns(p)

KVSpec == KVInit /\ [][KVNext]_kvVars
-----------------------------------------------------------------------------
(* Properties *)
Carried == {local[p] : p \in Process} \cup {remote} \cup {hold[a] : a \in Agent}

\* Whatever is read, adopted, set or refreshed, in whatever order, no entry of
\* either tier outlives the truth of its value by more than one refresh call and
\* one expiry. This holds of tombstones, too: an absence that nobody has stated
\* is not remembered.
StalenessBounded ==
  \A it \in Carried : Live(it) => age[it.val] + it.expires <= Expires + RefreshTimeout

\* Start and Stop may be called at any time by anybody: a process has one
\* background goroutine at most, and whichever nobody has told to stop is the one
\* that the next Stop will tell, so that no Stop waits for ever.
OneTicker ==
  \A p \in Process : /\ Cardinality(Tickers(p)) <= 1
                    /\ Tickers(p) \ stopped \subseteq {running[p]}
=============================================================================
