----------------------------- MODULE CacheProofs -----------------------------
(***************************************************************************)
(* Theorems about the two caches of a server.  RTCache, for any processes, *)
(* readers, fetchers, bounds and undecodable payloads.  KVCache, for any   *)
(* processes, goroutines and times, and any number of values and absences. *)
(* The definitions of KVCache that RTCache has too are named KV...         *)
(***************************************************************************)
EXTENDS RTCache, KVCache, FiniteSetTheorems, TLAPS

-----------------------------------------------------------------------------
(* The realtime cache: type correctness, operation by operation.             *)

LEMMA TypeOKInit == ASSUME RTCacheAssumption, Init PROVE TypeOK
<1>1. Undecodable \subseteq Payload /\ NoPayload \notin Payload
  BY DEF RTCacheAssumption, Payload, NoPayload
<1>2. NoPayload \in Outcome \ Undecodable /\ NoPayload # Cut
  BY <1>1 DEF Outcome, RTCacheAssumption, NoPayload, Cut
<1> QED
  BY <1>1, <1>2 DEF TypeOK, Init, RTCacheAssumption, Payload, NoPayload, Decodable

\* What a reader may have read.
LEMMA Readings ==
  ASSUME RTCacheAssumption, store \in Payload \cup {NoPayload}
  PROVE  /\ NoPayload \in Outcome \ Undecodable /\ Failed \in Outcome \ Undecodable
         /\ Cut \in Outcome \ Undecodable /\ Stored \in Outcome \ Undecodable
         /\ NoPayload # Cut /\ Failed # Cut /\ Stored # Cut
         /\ Stored \in Payload => Stored \in Decodable /\ Stored = store
  BY DEF RTCacheAssumption, Payload, NoPayload, Failed, Cut, Outcome, Stored, Decodable

LEMMA TypeOKAddData ==
  ASSUME RTCacheAssumption, TypeOK, NEW f \in Fetcher, AddData(f)
  PROVE  TypeOK'
<1>1. CASE AddDataStore(f)
  BY <1>1 DEF AddDataStore, TypeOK, RTCacheAssumption, Payload, NoPayload, net, listening, reading
<1>2. CASE AddDataPublish(f)
  <2>1. fetched[f] \in Payload
    BY <1>2 DEF AddDataPublish, AddDataDone, TypeOK
  <2>2. ASSUME NEW p \in Server PROVE Append(inbox[p], fetched[f]) \in Seq(Payload)
    <3>1. inbox[p] \in Seq(Payload)
      BY DEF TypeOK
    <3> QED
      BY <2>1, <3>1
  <2>3. /\ inbox' \in [Server -> Seq(Payload)]
        /\ \A p \in Server \ link' : inbox'[p] = << >>
    BY <1>2, <2>2 DEF AddDataPublish, AddDataDone, TypeOK
  <2> QED
    BY <1>2, <2>3 DEF AddDataPublish, AddDataDone, TypeOK, shared, listening, reading
<1>3. CASE AddDataPublishFails(f)
  BY <1>3 DEF AddDataPublishFails, AddDataDone, TypeOK, shared, listening, reading
<1>4. CASE AddDataLocal(f)
  BY <1>4 DEF AddDataLocal, AddDataDone, TypeOK, shared, listening, reading, RTCacheAssumption
<1> QED
  BY <1>1, <1>2, <1>3, <1>4 DEF AddData

LEMMA TypeOKGetSource ==
  ASSUME RTCacheAssumption, TypeOK, NEW r \in Reader, GetSource(r)
  PROVE  TypeOK'
<1>1. CASE GetSourceMiss(r)
  BY <1>1 DEF GetSourceMiss, TypeOK, shared, net, listening, fetching
<1>2. CASE GetSourceLoad(r)
  BY <1>2, Readings DEF GetSourceLoad, ReaderLoads, TypeOK, shared, net, listening, fetching
<1>3. CASE GetSourceLoadFails(r)
  BY <1>3, Readings DEF GetSourceLoadFails, ReaderLoads, TypeOK, shared, net, listening, fetching
<1>4. CASE GetSourceCut(r)
  BY <1>4, Readings DEF GetSourceCut, ReaderLoads, TypeOK, shared, net, listening, fetching
<1>5. CASE CallerLeaves(r)
  BY <1>5 DEF CallerLeaves, TypeOK, shared, net, listening, fetching
<1>6. CASE GetSourceRemember(r)
  BY <1>6, Readings DEF GetSourceRemember, GetSourceReturn, TypeOK, shared, net, listening, fetching, RTCacheAssumption
<1>7. CASE GetSourceAbandon(r)
  BY <1>7, Readings DEF GetSourceAbandon, GetSourceReturn, TypeOK, shared, net, listening, fetching
<1>8. CASE GetSourceInstall(r)
  <2>1. got[r] \in Decodable
    BY <1>8 DEF GetSourceInstall, TypeOK, Decodable
  <2> QED
    BY <1>8, <2>1, Readings DEF GetSourceInstall, GetSourceReturn, TypeOK, shared, net, listening, fetching, RTCacheAssumption
<1> QED
  BY <1>1, <1>2, <1>3, <1>4, <1>5, <1>6, <1>7, <1>8 DEF GetSource

LEMMA TypeOKListen ==
  ASSUME RTCacheAssumption, TypeOK, NEW p \in Server, Listen(p)
  PROVE  TypeOK'
<1>1. CASE Subscribe(p)
  BY <1>1 DEF Subscribe, TypeOK, shared, reading, fetching
<1>2. CASE Reconnect(p)
  BY <1>2 DEF Reconnect, TypeOK, shared, net, reading, fetching
<1>3. CASE DrainTake(p)
  <2>1. /\ Head(inbox[p]) \in Payload /\ Tail(inbox[p]) \in Seq(Payload)
        /\ p \in link
    BY <1>3 DEF DrainTake, TypeOK
  <2> QED
    BY <1>3, <2>1 DEF DrainTake, TypeOK, shared, reading, fetching
<1>4. CASE DrainLoad(p)
  <2>1. Stored \in Decodable /\ Stored # NoPayload
    BY <1>4, Readings DEF DrainLoad, TypeOK, Payload, NoPayload
  <2> QED
    BY <1>4, <2>1 DEF DrainLoad, TypeOK, shared, net, reading, fetching
<1>5. CASE DrainLoadNothing(p)
  BY <1>5 DEF DrainLoadNothing, TypeOK, shared, net, reading, fetching
<1>6. CASE DrainPut(p)
  BY <1>6 DEF DrainPut, TypeOK, shared, net, reading, fetching
<1>7. CASE ListenerExit(p)
  BY <1>7 DEF ListenerExit, TypeOK, shared, reading, fetching
<1> QED
  BY <1>1, <1>2, <1>3, <1>4, <1>5, <1>6, <1>7 DEF Listen, drain

\* Time, the network and Close.
Ambient(p) == MissingLapses(p) \/ LinkDrops(p) \/ Close(p) \/ CloseReturn(p)

LEMMA TypeOKAmbient ==
  ASSUME RTCacheAssumption, TypeOK, StoreExpires \/ \E p \in Server : Ambient(p)
  PROVE  TypeOK'
<1>1. CASE StoreExpires
  BY <1>1 DEF StoreExpires, TypeOK, net, listening, reading, fetching, RTCacheAssumption, Payload, NoPayload
<1>2. ASSUME NEW p \in Server, Ambient(p) PROVE TypeOK'
  <2>1. CASE MissingLapses(p)
    BY <2>1 DEF MissingLapses, TypeOK, shared, net, listening, reading, fetching
  <2>2. CASE LinkDrops(p)
    BY <2>2 DEF LinkDrops, TypeOK, shared, listening, reading, fetching, RTCacheAssumption
  <2>3. CASE Close(p) \/ CloseReturn(p)
    <3>1. closing' \in [Server -> {"open", "closing", "closed"}]
      BY <2>3 DEF Close, CloseReturn, TypeOK
    <3>2. UNCHANGED <<shared, net, sources, missing, listening, reading, fetching, missed>>
      BY <2>3 DEF Close, CloseReturn
    <3> QED
      BY <3>1, <3>2 DEF TypeOK, shared, net, listening, reading, fetching
  <2> QED
    BY <1>2, <2>1, <2>2, <2>3 DEF Ambient
<1> QED
  BY <1>1, <1>2

LEMMA TypeOKStep ==
  ASSUME RTCacheAssumption, TypeOK, [Next]_vars
  PROVE  TypeOK'
<1>1. CASE UNCHANGED vars
  BY <1>1 DEF vars, shared, net, listening, reading, fetching, TypeOK
<1> QED
  BY <1>1, TypeOKAddData, TypeOKGetSource, TypeOKListen, TypeOKAmbient DEF Next, Ambient

\* Every reachable state of the cache is well typed; in particular, no process
\* ever holds a payload that does not decode.
THEOREM TypeCorrect == Spec => []TypeOK
<1>1. Init => TypeOK
  BY TypeOKInit, RTCacheAssumption
<1>2. TypeOK /\ [Next]_vars => TypeOK'
  BY TypeOKStep, RTCacheAssumption
<1> QED
  BY <1>1, <1>2, PTL DEF Spec

-----------------------------------------------------------------------------
(* Snapshots never go back.  A process may only be passed a newer message    *)
(* because the store holds nothing but the last write, because an update is  *)
(* loaded only for a topic that the process holds, and because once it holds *)
(* one, only the subscribe goroutine replaces it.                            *)

Forward ==
  /\ store # NoPayload => store = written
  /\ \A f \in Fetcher : fetched[f] <= written
  /\ \A r \in Reader : got[r] \in Payload => got[r] <= written
  /\ \A p \in Server :
       /\ sources[p] <= written
       /\ ~pubsub => listener[p] = "done"
       /\ listener[p] \in {"load", "put"} => sources[p] # NoPayload
       /\ listener[p] = "put" => sources[p] <= update[p] /\ update[p] <= written

\* No process holds an older message after the step than before it.
Onward == pubsub => \A p \in Server : sources'[p] >= sources[p]

\* What the arithmetic below needs of TypeOK.
Numeric ==
  /\ store \in Nat /\ written \in Nat
  /\ sources \in [Server -> Nat] /\ update \in [Server -> Nat]
  /\ listener \in [Server -> {"connect", "listen", "load", "put", "done"}]
  /\ got \in [Reader -> Nat] /\ fetched \in [Fetcher -> Nat]

LEMMA Numbers == ASSUME RTCacheAssumption, TypeOK PROVE Numeric
<1>1. Payload \subseteq Nat /\ Decodable \subseteq Nat /\ NoPayload \in Nat /\ Outcome \subseteq Nat
  BY DEF RTCacheAssumption, Payload, Decodable, NoPayload, Outcome, Failed, Cut
<1>2. /\ store \in Payload \cup {NoPayload}
      /\ sources \in [Server -> Decodable \cup {NoPayload}]
      /\ update \in [Server -> Decodable \cup {NoPayload}]
      /\ got \in [Reader -> Outcome] /\ fetched \in [Fetcher -> Payload \cup {NoPayload}]
      /\ written \in 0..MaxVersion
      /\ listener \in [Server -> {"connect", "listen", "load", "put", "done"}]
  BY DEF TypeOK
<1>3. written \in Nat
  BY <1>2 DEF RTCacheAssumption
<1>4. \A p \in Server : sources[p] \in Nat /\ update[p] \in Nat
  BY <1>1, <1>2
<1>5. (\A r \in Reader : got[r] \in Nat) /\ (\A f \in Fetcher : fetched[f] \in Nat)
  BY <1>1, <1>2
<1> QED
  BY <1>1, <1>2, <1>3, <1>4, <1>5 DEF Numeric

\* A step that touches none of the numbers.
LEMMA ForwardQuiet ==
  ASSUME Numeric, Forward, UNCHANGED <<shared, sources, listener, update, got, fetched>>
  PROVE  Forward' /\ Onward
  BY DEF shared, Forward, Onward, Numeric

LEMMA ForwardInit == ASSUME RTCacheAssumption, Init PROVE Forward
  BY DEF Init, Forward, RTCacheAssumption, Payload, NoPayload

LEMMA ForwardAddData ==
  ASSUME Numeric, Forward, NEW f \in Fetcher, AddData(f)
  PROVE  Forward' /\ Onward
<1> USE DEF AddDataDone, shared, net, listening, reading, Numeric, Forward, Onward
<1>1. CASE AddDataStore(f)
  BY <1>1 DEF AddDataStore
<1>2. CASE AddDataPublish(f) \/ AddDataPublishFails(f)
  <2>1. NoPayload \in Nat /\ NoPayload <= written
    BY DEF NoPayload
  <2>2. /\ UNCHANGED <<pubsub, store, written, sources, listener, update, got>>
        /\ fetched' = [fetched EXCEPT ![f] = NoPayload]
    BY <1>2 DEF AddDataPublish, AddDataPublishFails
  <2> QED
    BY <2>1, <2>2
<1>3. CASE AddDataLocal(f)
  BY <1>3 DEF AddDataLocal, NoPayload
<1> QED
  BY <1>1, <1>2, <1>3 DEF AddData

LEMMA ForwardGetSource ==
  ASSUME RTCacheAssumption, TypeOK, Numeric, Forward, NEW r \in Reader, GetSource(r)
  PROVE  Forward' /\ Onward
<1> USE DEF ReaderLoads, GetSourceReturn, shared, net, listening, fetching
<1>1. CASE GetSourceMiss(r) \/ CallerLeaves(r)
  BY <1>1, ForwardQuiet DEF GetSourceMiss, CallerLeaves
<1>2. CASE GetSourceLoad(r)
  <2>1. Stored \in Payload => Stored <= written
    BY Readings DEF Numeric, Forward, TypeOK, Payload, NoPayload
  <2> QED
    BY <1>2, <2>1 DEF GetSourceLoad, Numeric, Forward, Onward
<1>3. CASE GetSourceLoadFails(r) \/ GetSourceCut(r)
  <2>1. Failed \notin Payload /\ Cut \notin Payload
    BY DEF RTCacheAssumption, Failed, Cut, Payload
  <2> QED
    BY <1>3, <2>1 DEF GetSourceLoadFails, GetSourceCut, Numeric, Forward, Onward
<1>4. CASE GetSourceRemember(r) \/ GetSourceAbandon(r)
  BY <1>4 DEF GetSourceRemember, GetSourceAbandon, NoPayload, Payload, Numeric, Forward, Onward
<1>5. CASE GetSourceInstall(r)
  BY <1>5 DEF GetSourceInstall, NoPayload, Payload, RTCacheAssumption, Numeric, Forward, Onward
<1> QED
  BY <1>1, <1>2, <1>3, <1>4, <1>5 DEF GetSource

LEMMA ForwardListen ==
  ASSUME RTCacheAssumption, TypeOK, Numeric, Forward, NEW p \in Server, Listen(p)
  PROVE  Forward' /\ Onward
<1> USE DEF shared, net, reading, fetching, Numeric, Forward, Onward
<1>1. CASE Subscribe(p) \/ Reconnect(p) \/ DrainLoadNothing(p) \/ ListenerExit(p)
  BY <1>1 DEF Subscribe, Reconnect, DrainLoadNothing, ListenerExit
<1>2. CASE DrainTake(p)
  BY <1>2 DEF DrainTake, watching
<1>3. CASE DrainLoad(p)
  <2>1. Stored = store /\ store # NoPayload
    BY <1>3, Readings DEF DrainLoad, TypeOK, Payload, NoPayload
  <2> QED
    BY <1>3, <2>1 DEF DrainLoad
<1>4. CASE DrainPut(p)
  <2>1. sources[p] <= update[p] /\ update[p] <= written /\ update[p] # NoPayload
    BY <1>4 DEF DrainPut, TypeOK
  <2> QED
    BY <1>4, <2>1 DEF DrainPut
<1> QED
  BY <1>1, <1>2, <1>3, <1>4 DEF Listen, drain

LEMMA ForwardAmbient ==
  ASSUME Numeric, Forward, StoreExpires \/ \E p \in Server : Ambient(p)
  PROVE  Forward' /\ Onward
<1> USE DEF shared, net, listening, reading, fetching
<1>1. CASE StoreExpires
  BY <1>1 DEF StoreExpires, Numeric, Forward, Onward
<1>2. ASSUME NEW p \in Server, Ambient(p) PROVE Forward' /\ Onward
  BY <1>2, ForwardQuiet DEF Ambient, MissingLapses, LinkDrops, Close, CloseReturn
<1> QED
  BY <1>1, <1>2

LEMMA ForwardStep ==
  ASSUME RTCacheAssumption, TypeOK, Forward, [Next]_vars
  PROVE  Forward' /\ Onward
<1>1. Numeric
  BY Numbers
<1>2. CASE UNCHANGED vars
  BY <1>1, <1>2, ForwardQuiet DEF vars, listening, reading, fetching
<1> QED
  BY <1>1, <1>2, ForwardAddData, ForwardGetSource, ForwardListen, ForwardAmbient DEF Next, Ambient

\* A process that follows announcements never replaces the message it holds by
\* an older one, whatever the order of its reads, loads and announcements.
THEOREM NeverGoesBack == Spec => SnapshotsNeverGoBack
<1>1. Init => Forward
  BY ForwardInit, RTCacheAssumption
<1>2. TypeOK /\ Forward /\ [Next]_vars => Forward'
  BY ForwardStep, RTCacheAssumption
<1>3. TypeOK /\ Forward /\ [Next]_vars => [Onward]_vars
  BY ForwardStep, RTCacheAssumption
<1>4. SnapshotsNeverGoBack <=> [][Onward]_vars
  BY PTL DEF SnapshotsNeverGoBack, Onward
<1> QED
  BY <1>1, <1>2, <1>3, <1>4, TypeCorrect, PTL DEF Spec

-----------------------------------------------------------------------------
(* Held snapshots are current.  A process is behind when it holds an old     *)
(* message, or when a reader is about to install one; the news of the write  *)
(* that it has not seen is then still on its way.                            *)

Behind(p) ==
  \/ sources[p] # NoPayload /\ sources[p] # store
  \/ sources[p] = NoPayload /\ \E r \in Reader : ServerOf[r] = p /\ got[r] \in Payload /\ got[r] # store

Coming(p) ==
  \/ \E f \in Fetcher : fetcher[f] = "stored"
  \/ inbox[p] # << >>
  \/ listener[p] = "load"
  \/ listener[p] = "put" /\ update[p] = store

Tracked ==
  \A p \in Server : pubsub /\ p \notin missed /\ store \in Decodable /\ Behind(p) => Coming(p)

\* A step that leaves everything as near, or counts the process as passed by.
LEMMA TrackedQuiet ==
  ASSUME Tracked, missed \subseteq missed',
         UNCHANGED <<pubsub, store, sources, got, fetcher, inbox, listener, update>>
  PROVE  Tracked'
  BY DEF Tracked, Behind, Coming

LEMMA TrackedInit == ASSUME Init PROVE Tracked
  BY DEF Init, Tracked, Decodable, Payload, NoPayload

LEMMA TrackedAddData ==
  ASSUME TypeOK, Tracked, NEW f \in Fetcher, AddData(f)
  PROVE  Tracked'
<1> USE DEF AddDataDone, shared, net, listening, reading
<1>1. CASE AddDataStore(f)
  <2>1. fetcher'[f] = "stored"
    BY <1>1 DEF AddDataStore, TypeOK
  <2> QED
    BY <2>1 DEF Tracked, Coming
<1>2. CASE AddDataPublish(f)
  <2>1. ASSUME NEW p \in Server, p \notin missed' PROVE inbox'[p] # << >>
    <3>1. p \in link /\ inbox'[p] = Append(inbox[p], fetched[f])
      BY <1>2, <2>1 DEF AddDataPublish
    <3>2. inbox[p] \in Seq(Payload) /\ fetched[f] \in Payload
      BY <1>2 DEF AddDataPublish, TypeOK
    <3> QED
      BY <3>1, <3>2
  <2> QED
    BY <2>1 DEF Tracked, Coming
<1>3. CASE AddDataPublishFails(f)
  BY <1>3 DEF AddDataPublishFails, Tracked
<1>4. CASE AddDataLocal(f)
  BY <1>4 DEF AddDataLocal, Tracked
<1> QED
  BY <1>1, <1>2, <1>3, <1>4 DEF AddData

LEMMA TrackedGetSource ==
  ASSUME RTCacheAssumption, TypeOK, Tracked, NEW r \in Reader, GetSource(r)
  PROVE  Tracked'
<1> USE DEF ReaderLoads, GetSourceReturn, shared, net, listening, fetching
<1>1. CASE GetSourceMiss(r) \/ CallerLeaves(r)
  BY <1>1, TrackedQuiet DEF GetSourceMiss, CallerLeaves
<1>2. got \in [Reader -> Outcome]
  BY DEF TypeOK
<1>3. CASE GetSourceLoad(r) \/ GetSourceLoadFails(r) \/ GetSourceCut(r)
  <2>1. Failed \notin Payload /\ Cut \notin Payload /\ (store \in Decodable => Stored = store)
    BY DEF RTCacheAssumption, Failed, Cut, Payload, Decodable, Stored
  <2>2. got'[r] \notin Payload \/ (store \in Decodable => got'[r] = store)
    BY <1>2, <1>3, <2>1 DEF GetSourceLoad, GetSourceLoadFails, GetSourceCut
  <2>3. \A q \in Reader \ {r} : got'[q] = got[q]
    BY <1>2, <1>3 DEF GetSourceLoad, GetSourceLoadFails, GetSourceCut
  <2>4. UNCHANGED <<pubsub, store, sources, missed, fetcher, inbox, listener, update>>
    BY <1>3 DEF GetSourceLoad, GetSourceLoadFails, GetSourceCut
  <2> QED
    BY <2>2, <2>3, <2>4 DEF Tracked, Behind, Coming
<1>4. CASE GetSourceRemember(r) \/ GetSourceAbandon(r) \/ GetSourceInstall(r)
  <2>1. NoPayload \notin Payload
    BY DEF NoPayload, Payload
  <2>2. got'[r] \notin Payload /\ \A q \in Reader \ {r} : got'[q] = got[q]
    BY <1>2, <1>4, <2>1 DEF GetSourceRemember, GetSourceAbandon, GetSourceInstall
  <2>3. UNCHANGED <<pubsub, store, fetcher, inbox, listener, update>>
    BY <1>4 DEF GetSourceRemember, GetSourceAbandon, GetSourceInstall
  <2>4. CASE GetSourceRemember(r) \/ GetSourceAbandon(r)
    BY <2>2, <2>3, <2>4 DEF GetSourceRemember, GetSourceAbandon, Tracked, Behind, Coming
  <2>5. CASE GetSourceInstall(r)
    <3>1. \A p \in Server : p # ServerOf[r] => sources'[p] = sources[p] /\ (p \in missed' <=> p \in missed)
      BY <2>5 DEF GetSourceInstall, TypeOK
    <3>2. ServerOf[r] \in Server
      BY DEF RTCacheAssumption
    <3>3. sources'[ServerOf[r]] = IF sources[ServerOf[r]] = NoPayload THEN got[r] ELSE sources[ServerOf[r]]
      BY <2>5, <3>2 DEF GetSourceInstall, TypeOK
    <3>4. sources'[ServerOf[r]] # store => (ServerOf[r] \in missed' <=> ServerOf[r] \in missed)
      BY <2>5 DEF GetSourceInstall
    <3>5. got[r] \in Payload
      BY <2>5 DEF GetSourceInstall
    <3> QED
      BY <2>1, <2>2, <2>3, <3>1, <3>2, <3>3, <3>4, <3>5 DEF Tracked, Behind, Coming
  <2> QED
    BY <1>4, <2>4, <2>5
<1> QED
  BY <1>1, <1>3, <1>4 DEF GetSource

LEMMA TrackedListen ==
  ASSUME RTCacheAssumption, TypeOK, Forward, Tracked, NEW p \in Server, Listen(p)
  PROVE  Tracked'
<1> USE DEF shared, net, reading, fetching
<1>1. CASE Subscribe(p) \/ Reconnect(p)
  <2>1. listener[p] \notin {"load", "put"} /\ \A q \in Server \ {p} : listener'[q] = listener[q]
    BY <1>1 DEF Subscribe, Reconnect, TypeOK
  <2>2. UNCHANGED <<pubsub, store, sources, got, fetcher, inbox, update, missed>>
    BY <1>1 DEF Subscribe, Reconnect
  <2> QED
    BY <2>1, <2>2 DEF Tracked, Behind, Coming
<1>2. CASE DrainTake(p)
  BY <1>2 DEF DrainTake, watching, InstallPending, Tracked, Behind, Coming, TypeOK
<1>3. CASE DrainLoad(p)
  <2>1. Stored = store
    BY <1>3, Readings DEF DrainLoad, TypeOK
  <2> QED
    BY <1>3, <2>1 DEF DrainLoad, Tracked, Behind, Coming, TypeOK
<1>4. CASE DrainLoadNothing(p) \/ ListenerExit(p)
  <2>1. missed' = missed \cup {p} /\ UNCHANGED <<pubsub, store, sources, got, fetcher, update>>
    BY <1>4 DEF DrainLoadNothing, ListenerExit
  <2>2. \A q \in Server \ {p} : inbox'[q] = inbox[q] /\ listener'[q] = listener[q]
    BY <1>4 DEF DrainLoadNothing, ListenerExit, TypeOK
  <2> QED
    BY <2>1, <2>2 DEF Tracked, Behind, Coming
<1>5. CASE DrainPut(p)
  <2>1. /\ sources[p] # NoPayload /\ update[p] # NoPayload
        /\ sources[p] = store /\ store # NoPayload => update[p] = store
    <3>1. Numeric
      BY Numbers
    <3> QED
      BY <1>5, <3>1 DEF DrainPut, Forward, TypeOK, Numeric
  <2>2. /\ sources'[p] = update[p]
        /\ update[p] # store => (p \in missed' <=> p \in missed)
    BY <1>5 DEF DrainPut, TypeOK
  <2>3. \A q \in Server \ {p} :
          /\ sources'[q] = sources[q] /\ (q \in missed' <=> q \in missed)
          /\ listener'[q] = listener[q] /\ update'[q] = update[q]
    BY <1>5 DEF DrainPut, TypeOK
  <2>4. UNCHANGED <<pubsub, store, got, fetcher, inbox>> /\ listener[p] = "put"
    BY <1>5 DEF DrainPut
  <2>5. store \in Decodable => store # NoPayload
    BY DEF Decodable, Payload, NoPayload
  <2> QED
    BY <2>1, <2>2, <2>3, <2>4, <2>5 DEF Tracked, Behind, Coming
<1> QED
  BY <1>1, <1>2, <1>3, <1>4, <1>5 DEF Listen, drain

LEMMA TrackedAmbient ==
  ASSUME TypeOK, Tracked, StoreExpires \/ \E p \in Server : Ambient(p)
  PROVE  Tracked'
<1> USE DEF shared, net, listening, reading, fetching
<1>1. CASE StoreExpires
  BY <1>1 DEF StoreExpires, Tracked, Decodable, Payload, NoPayload
<1>2. ASSUME NEW p \in Server, Ambient(p) PROVE Tracked'
  <2>1. CASE LinkDrops(p)
    BY <2>1 DEF LinkDrops, Tracked, Behind, Coming, TypeOK
  <2>2. CASE MissingLapses(p) \/ Close(p) \/ CloseReturn(p)
    BY <2>2, TrackedQuiet DEF MissingLapses, Close, CloseReturn
  <2> QED
    BY <1>2, <2>1, <2>2 DEF Ambient
<1> QED
  BY <1>1, <1>2

LEMMA TrackedStep ==
  ASSUME RTCacheAssumption, TypeOK, Forward, Tracked, [Next]_vars
  PROVE  Tracked'
<1>1. CASE UNCHANGED vars
  BY <1>1, TrackedQuiet DEF vars, shared, net, listening, reading, fetching
<1> QED
  BY <1>1, TrackedAddData, TrackedGetSource, TrackedListen, TrackedAmbient DEF Next, Ambient

\* When nothing is on its way to a process and no update has passed it by, the
\* message that it holds is the one in the store.
THEOREM HeldIsCurrent == Spec => []HeldSnapshotsAreCurrent
<1>1. Init => Forward /\ Tracked
  BY ForwardInit, TrackedInit, RTCacheAssumption
<1>2. TypeOK /\ Forward /\ Tracked /\ [Next]_vars => Forward' /\ Tracked'
  BY ForwardStep, TrackedStep, RTCacheAssumption
<1>3. Tracked => HeldSnapshotsAreCurrent
  BY DEF Tracked, Behind, Coming, HeldSnapshotsAreCurrent, Settled
<1> QED
  BY <1>1, <1>2, <1>3, TypeCorrect, PTL DEF Spec

-----------------------------------------------------------------------------
\* A read that was cut short because its caller left is never remembered as an
\* absence of the topic, whatever other readers do meanwhile.
THEOREM AbandonedTeachNothing == Spec => AbandonedReadsTeachNothing
<1> DEFINE Taught == \A r \in Reader : got[r] = Cut /\ reader'[r] = "idle" => missing' \subseteq missing
<1>1. ASSUME TypeOK, Next, NEW r \in Reader, got[r] = Cut, reader'[r] = "idle"
      PROVE  missing' \subseteq missing
  <2> USE DEF shared, net, listening, reading, fetching
  <2>1. reader[r] = "settle" /\ r \in gone
    BY <1>1, RTCacheAssumption DEF TypeOK, RTCacheAssumption, NoPayload, Cut
  <2>2. ASSUME NEW q \in Reader, GetSource(q) PROVE missing' \subseteq missing
    <3>1. CASE GetSourceRemember(q)
      <4>1. q # r /\ reader' = [reader EXCEPT ![q] = "idle"]
        BY <2>1, <3>1 DEF GetSourceRemember, GetSourceReturn
      <4> QED
        BY <1>1, <2>1, <4>1 DEF TypeOK
    <3> QED
      BY <2>2, <3>1 DEF GetSource, GetSourceMiss, GetSourceLoad, GetSourceLoadFails, GetSourceCut,
         ReaderLoads, CallerLeaves, GetSourceAbandon, GetSourceInstall
  <2>3. ASSUME NEW f \in Fetcher, AddData(f) PROVE missing' \subseteq missing
    BY <2>3 DEF AddData, AddDataStore, AddDataPublish, AddDataPublishFails, AddDataLocal, AddDataDone
  <2>4. ASSUME NEW p \in Server, Listen(p) \/ Ambient(p) PROVE missing' \subseteq missing
    BY <2>4 DEF Listen, drain, Subscribe, Reconnect, DrainTake, DrainLoad, DrainLoadNothing, DrainPut,
       ListenerExit, Ambient, MissingLapses, LinkDrops, Close, CloseReturn
  <2>5. CASE StoreExpires
    BY <2>5 DEF StoreExpires
  <2> QED
    BY <1>1, <2>2, <2>3, <2>4, <2>5 DEF Next, Ambient
<1>2. TypeOK /\ [Next]_vars => [Taught]_vars
  BY <1>1
<1>3. AbandonedReadsTeachNothing <=> [][Taught]_vars
  BY PTL DEF AbandonedReadsTeachNothing
<1> QED
  BY <1>2, <1>3, TypeCorrect, PTL DEF Spec

-----------------------------------------------------------------------------
(* The two-tier cache: type correctness, operation by operation.             *)


LEMMA FreshType ==
  ASSUME NEW v \in Version
  PROVE  /\ Fresh(v) \in Entry /\ Live(Fresh(v)) /\ Fresh(v).val = v /\ Fresh(v).expires = Expires
         /\ NegativeTTL > 0 =>
              /\ missingItem(v) \in Entry /\ Live(missingItem(v))
              /\ missingItem(v).val = v /\ missingItem(v).expires = NegativeTTL
  <1>1. Fresh(v) \in Entry
    BY KVCacheAssumption DEF Fresh, Entry
  <1>2. NegativeTTL > 0 => missingItem(v) \in Entry
    BY KVCacheAssumption DEF missingItem, Entry
  <1> QED BY <1>1, <1>2, KVCacheAssumption DEF Live, Fresh, missingItem

(* A tick makes an entry older by one, or lets it expire. *)
LEMMA OlderType ==
  ASSUME NEW it \in Slot
  PROVE  /\ Older(it) \in Slot
         /\ Live(Older(it)) =>
              /\ Live(it) /\ it \in Entry
              /\ Older(it).val = it.val /\ Older(it).expires = it.expires - 1
  <1>1. CASE ~Live(it)
    BY <1>1 DEF Older
  <1>2. CASE Live(it) /\ it.expires = 1
    BY <1>2 DEF Older, Slot, Live
  <1>3. CASE Live(it) /\ it.expires # 1
    <2>1. it \in Entry
      BY <1>3 DEF Live, Slot
    <2>2. Older(it) = [it EXCEPT !.expires = it.expires - 1, !.recheck = it.recheck - 1]
      BY <1>3 DEF Older
    <2>3. PICK v \in Version, r \in Int, e \in Nat \ {0} :
            it = [val |-> v, recheck |-> r, expires |-> e]
      BY <2>1 DEF Entry
    <2>4. Older(it) = [val |-> v, recheck |-> r - 1, expires |-> e - 1]
      BY <2>2, <2>3
    <2>5. Older(it) \in Entry /\ Older(it).val = it.val /\ Older(it).expires = it.expires - 1
      BY <1>3, <2>3, <2>4 DEF Entry
    <2> QED BY <1>3, <2>1, <2>5 DEF Slot
  <1> QED BY <1>1, <1>2, <1>3

LEMMA UnexpiredType ==
  ASSUME NEW it \in Slot
  PROVE  Unexpired(it) \in Entry \cup {None} /\ (Live(Unexpired(it)) => Unexpired(it) = it)
  BY DEF Unexpired, Slot, Live

LEMMA AdoptedType ==
  ASSUME NEW mine \in Slot, NEW theirs \in Slot
  PROVE  Adopted(mine, theirs) \in {mine, theirs}
  BY DEF Adopted

LEMMA NoneIsSlot == None \in Slot /\ ~Live(None) /\ Entry \cup {None} \subseteq Slot
  BY DEF Slot, Live

(* The goroutine of a step, and where it may go. *)
Pc == {"idle", "join", "wait", "load", "install", "call", "called", "local",
       "store", "forget", "off", "sleep", "scan", "read", "reconcile"}

LEMMA HomeType == ASSUME NEW a \in Agent PROVE Home[a] \in Process
  BY KVCacheAssumption

LEMMA GotoType ==
  ASSUME pc \in [Agent -> Pc], NEW a \in Agent, NEW l \in Pc, Goto(a, l)
  PROVE  pc' \in [Agent -> Pc]
  BY DEF Goto

LEMMA LandType ==
  ASSUME KVTypeOK, NEW g \in Agent, Land(g)
  PROVE  pc' \in [Agent -> Pc] /\ flight' \in [Process -> Agent \cup {NoAgent}]
  BY HomeType DEF KVTypeOK, Land, Pc

LEMMA TypeInit == KVInit => KVTypeOK
  <1> SUFFICES ASSUME KVInit PROVE KVTypeOK
    OBVIOUS
  <1>1. 0 \in Version /\ 0 \in 0..RefreshTimeout
    BY KVCacheAssumption DEF Version
  <1> QED BY <1>1, NoneIsSlot DEF KVInit, KVTypeOK

-----------------------------------------------------------------------------
(* Types.  Time and the world, then the steps of the goroutines. *)
LEMMA TickType == KVTypeOK /\ Tick => KVTypeOK'
  <1> SUFFICES ASSUME KVTypeOK, Tick PROVE KVTypeOK'
    OBVIOUS
  <1>1. age' \in [Version -> Nat]
    BY DEF KVTypeOK, Tick
  <1>2. local' \in [Process -> Slot] /\ hold' \in [Agent -> Slot]
    BY OlderType DEF KVTypeOK, Tick
  <1>3. remote' \in Entry \cup {None}
    BY OlderType, UnexpiredType, NoneIsSlot DEF KVTypeOK, Tick
  <1>4. waited' \in [Agent -> 0..RefreshTimeout]
    BY KVCacheAssumption DEF KVTypeOK, Tick
  <1> QED BY <1>1, <1>2, <1>3, <1>4 DEF KVTypeOK, Tick, ticking

LEMMA GetType ==
  ASSUME KVTypeOK, NEW g \in Getter, GetLocal(g) \/ GetStep(g)
  PROVE  KVTypeOK'
  <1> g \in Agent /\ Home[g] \in Process
    BY HomeType DEF Agent
  <1> pc \in [Agent -> Pc]
    BY DEF KVTypeOK, Pc
  <1>1. CASE GetLocal(g)
    BY <1>1, GotoType DEF GetLocal, KVTypeOK, Pc, carried, ticking
  <1>2. CASE Join(g)
    BY <1>2, GotoType DEF Join, KVTypeOK, Pc, carried, ticking
  <1>3. CASE LoadHit(g)
    BY <1>3, GotoType, NoneIsSlot DEF LoadHit, Carry, KVTypeOK, Pc, ticking
  <1>4. CASE LoadMiss(g)
    BY <1>4, GotoType DEF LoadMiss, AfterMiss, KVTypeOK, Pc, carried, ticking
  <1>5. CASE Install(g)
    BY <1>5, LandType, NoneIsSlot DEF Install, Carry, KVTypeOK, Pc, ticking
  <1>6. CASE deleteExpiredLocal(g)
    BY <1>6, LandType, UnexpiredType, NoneIsSlot
    DEF deleteExpiredLocal, KVTypeOK, Pc, carried, ticking
  <1> QED BY <1>1, <1>2, <1>3, <1>4, <1>5, <1>6 DEF GetStep

LEMMA SetType ==
  ASSUME KVTypeOK, NEW s \in Setter, SetTTL(s) \/ SetMissing(s) \/ Refresh(s)
  PROVE  KVTypeOK'
  <1> s \in Agent
    BY DEF Agent
  <1> pc \in [Agent -> Pc]
    BY DEF KVTypeOK, Pc
  <1>1. CASE SetTTL(s) \/ SetMissing(s)
    <2>1. hold' \in [Agent -> Slot]
      BY <1>1, FreshType DEF SetTTL, SetMissing, Carry, KVTypeOK, Slot
    <2> QED BY <1>1, <2>1, GotoType DEF SetTTL, SetMissing, KVTypeOK, Pc, ticking
  <1>2. CASE Refresh(s)
    BY <1>2, GotoType DEF Refresh, KVTypeOK, Pc, carried, ticking
  <1> QED BY <1>1, <1>2

LEMMA RefreshType ==
  ASSUME KVTypeOK, NEW a \in Agent, RefreshStep(a)
  PROVE  KVTypeOK'
  <1> Home[a] \in Process
    BY HomeType
  <1> pc \in [Agent -> Pc]
    BY DEF KVTypeOK, Pc
  <1>0. 0 \in Version /\ 0 \in 0..RefreshTimeout
    BY KVCacheAssumption DEF Version
  <1>1. CASE CallRefresh(a)
    BY <1>1, GotoType DEF CallRefresh, KVTypeOK, Pc, ticking
  <1>2. CASE RefreshReturns(a)
    <2>1. hold' \in [Agent -> Slot]
      BY <1>2, FreshType DEF RefreshReturns, Carry, KVTypeOK, Slot
    <2> QED BY <1>0, <1>2, <2>1, GotoType DEF RefreshReturns, Answered, KVTypeOK, Pc, ticking
  <1>3. CASE RefreshFails(a)
    BY <1>0, <1>3, GotoType DEF RefreshFails, Answered, KVTypeOK, Pc, ticking
  <1>4. CASE setLocal(a)
    BY <1>4, GotoType DEF setLocal, KVTypeOK, Pc, carried, ticking
  <1>5. CASE setStore(a)
    <2>1. remote' \in Entry \cup {None} /\ hold' \in [Agent -> Slot]
      BY <1>5, UnexpiredType, NoneIsSlot DEF setStore, Carry, KVTypeOK
    <2>2. pc' \in [Agent -> Pc] /\ flight' \in [Process -> Agent \cup {NoAgent}]
      BY <1>5, LandType, GotoType DEF setStore, KVTypeOK, Pc
    <2> QED BY <1>5, <2>1, <2>2 DEF setStore, KVTypeOK, Pc, ticking
  <1> QED BY <1>1, <1>2, <1>3, <1>4, <1>5 DEF RefreshStep

LEMMA TickerType ==
  ASSUME KVTypeOK, NEW t \in Ticker, Start(t) \/ Wake(t) \/ TickerExits(t) \/ TickStep(t)
  PROVE  KVTypeOK'
  <1> t \in Agent /\ Home[t] \in Process
    BY HomeType DEF Agent
  <1> pc \in [Agent -> Pc]
    BY DEF KVTypeOK, Pc
  <1>1. CASE Start(t)
    BY <1>1, GotoType DEF Start, KVTypeOK, Pc, carried
  <1>2. CASE Wake(t) \/ ScanKeys(t)
    BY <1>2, GotoType DEF Wake, ScanKeys, KVTypeOK, Pc, carried, ticking
  <1>3. CASE TickerExits(t)
    BY <1>3, GotoType DEF TickerExits, KVTypeOK, Pc, carried
  <1>4. CASE ScanRead(t)
    BY <1>4, GotoType, NoneIsSlot DEF ScanRead, KVTypeOK, Pc, ticking
  <1>5. CASE ScanReconcile(t)
    <2>1. local' \in [Process -> Slot] /\ hold' \in [Agent -> Slot]
      BY <1>5, AdoptedType, UnexpiredType, NoneIsSlot DEF ScanReconcile, Carry, KVTypeOK
    <2> QED BY <1>5, <2>1, GotoType DEF ScanReconcile, KVTypeOK, Pc, ticking
  <1> QED BY <1>1, <1>2, <1>3, <1>4, <1>5 DEF TickStep

LEMMA TypeStep == KVTypeOK /\ [KVNext]_kvVars => KVTypeOK'
  <1> SUFFICES ASSUME KVTypeOK, [KVNext]_kvVars PROVE KVTypeOK'
    OBVIOUS
  <1>1. CASE TruthChanges
    BY <1>1, KVCacheAssumption DEF TruthChanges, KVTypeOK, Version, carried, ticking
  <1>2. ASSUME NEW p \in Process, Stop(p) \/ StopReturns(p) PROVE KVTypeOK'
    BY <1>2 DEF Stop, StopReturns, KVTypeOK, carried
  <1>3. CASE UNCHANGED kvVars
    BY <1>3 DEF kvVars, carried, ticking, KVTypeOK
  <1> QED BY <1>1, <1>2, <1>3, TickType, GetType, SetType, RefreshType, TickerType DEF KVNext

(* Every reachable state is well typed: in particular the store never holds an *)
(* entry past its time, and a refresh call never lasts longer than its timeout. *)
THEOREM KVTypeCorrect == KVSpec => []KVTypeOK
  BY TypeInit, TypeStep, PTL DEF KVSpec

-----------------------------------------------------------------------------
(* Staleness.  The newest value is of age zero, and a refresh call has lasted at *)
(* least as long as the value it read is out of date: so an entry is at most one *)
(* refresh call late when it is made, and from then on its time runs down as     *)
(* fast as its value ages.                                                       *)
Fine(ages, it) == Live(it) => ages[it.val] + it.expires <= Expires + RefreshTimeout
AllFine ==
  /\ \A p \in Process : Fine(age, local[p])
  /\ Fine(age, remote)
  /\ \A a \in Agent : Fine(age, hold[a])
NewestIsTrue == \A v \in Version : v >= truth => age[v] = 0
CallsOutlastTheirValue == \A a \in Agent : pc[a] = "called" => age[asked[a]] <= waited[a]
StaleInv == KVTypeOK /\ AllFine /\ NewestIsTrue /\ CallsOutlastTheirValue

LEMMA AllFineBounds == AllFine => StalenessBounded
  BY DEF AllFine, Fine, StalenessBounded, Carried

LEMMA StaleInit == KVInit => StaleInv
  BY TypeInit, NoneIsSlot
  DEF KVInit, StaleInv, AllFine, Fine, NewestIsTrue, CallsOutlastTheirValue

LEMMA TickStale == StaleInv /\ Tick => (AllFine /\ NewestIsTrue /\ CallsOutlastTheirValue)'
  <1> SUFFICES ASSUME StaleInv, Tick PROVE (AllFine /\ NewestIsTrue /\ CallsOutlastTheirValue)'
    OBVIOUS
  <1> KVTypeOK
    BY DEF StaleInv
  <1>1. \A v \in Version : age'[v] \in Nat /\ age[v] \in Nat /\ age'[v] <= age[v] + 1
    BY DEF Tick, KVTypeOK
  <1>2. ASSUME NEW it \in Slot, Fine(age, it) PROVE Fine(age', Older(it))
    <2>1. SUFFICES ASSUME Live(Older(it))
                   PROVE  age'[it.val] + it.expires - 1 <= Expires + RefreshTimeout
      BY OlderType, <1>1, KVCacheAssumption DEF Fine, Entry
    <2>2. /\ it.val \in Version /\ it.expires \in Nat
          /\ age[it.val] + it.expires <= Expires + RefreshTimeout
      BY <1>2, <2>1, OlderType DEF Fine, Entry
    <2> QED BY <1>1, <2>2, KVCacheAssumption
  <1>3. AllFine'
    <2>1. \A p \in Process : Fine(age', local'[p])
      BY <1>2 DEF StaleInv, AllFine, Tick, KVTypeOK
    <2>2. \A a \in Agent : Fine(age', hold'[a])
      BY <1>2 DEF StaleInv, AllFine, Tick, KVTypeOK
    <2>3. remote \in Slot /\ Older(remote) \in Slot
      BY OlderType, NoneIsSlot DEF KVTypeOK
    <2>4. Fine(age', remote')
      BY <1>2, <2>3, UnexpiredType DEF StaleInv, AllFine, Fine, Tick
    <2> QED BY <2>1, <2>2, <2>4 DEF AllFine
  <1>4. NewestIsTrue'
    BY DEF StaleInv, NewestIsTrue, Tick
  <1>5. CallsOutlastTheirValue'
    BY <1>1, KVCacheAssumption DEF StaleInv, CallsOutlastTheirValue, Tick, KVTypeOK
  <1> QED BY <1>3, <1>4, <1>5

LEMMA GetStale ==
  ASSUME StaleInv, NEW g \in Getter, GetLocal(g) \/ GetStep(g)
  PROVE  (AllFine /\ NewestIsTrue /\ CallsOutlastTheirValue)'
  <1> g \in Agent /\ Home[g] \in Process
    BY HomeType DEF Agent
  <1> KVTypeOK
    BY DEF StaleInv
  <1>1. age' = age /\ truth' = truth /\ asked' = asked /\ waited' = waited
    BY DEF GetLocal, GetStep, Join, LoadHit, LoadMiss, Install, deleteExpiredLocal, carried
  <1>2. \A a \in Agent : pc'[a] = "called" => pc[a] = "called"
    BY DEF GetLocal, GetStep, Join, LoadHit, LoadMiss, Install, deleteExpiredLocal, Goto, Land,
           AfterMiss, KVTypeOK
  <1>3. AllFine'
    <2>1. CASE GetLocal(g) \/ Join(g) \/ LoadMiss(g)
      BY <1>1, <2>1 DEF StaleInv, AllFine, Fine, Live, GetLocal, Join, LoadMiss, carried
    <2>2. CASE LoadHit(g)
      BY <1>1, <2>2 DEF StaleInv, AllFine, Fine, Live, LoadHit, Carry, KVTypeOK
    <2>3. CASE Install(g)
      BY <1>1, <2>3, NoneIsSlot DEF StaleInv, AllFine, Fine, Install, Carry, KVTypeOK
    <2>4. CASE deleteExpiredLocal(g)
      <3>1. Fine(age, Unexpired(local[Home[g]]))
        BY UnexpiredType DEF StaleInv, AllFine, Fine, KVTypeOK
      <3> QED BY <1>1, <2>4, <3>1 DEF StaleInv, AllFine, deleteExpiredLocal, carried, KVTypeOK
    <2> QED BY <2>1, <2>2, <2>3, <2>4 DEF GetStep
  <1> QED BY <1>1, <1>2, <1>3 DEF StaleInv, NewestIsTrue, CallsOutlastTheirValue

LEMMA SetStale ==
  ASSUME StaleInv, NEW s \in Setter, SetTTL(s) \/ SetMissing(s) \/ Refresh(s)
  PROVE  (AllFine /\ NewestIsTrue /\ CallsOutlastTheirValue)'
  <1> s \in Agent
    BY DEF Agent
  <1> KVTypeOK
    BY DEF StaleInv
  <1>1. age' = age /\ truth' = truth /\ asked' = asked /\ waited' = waited
    BY DEF SetTTL, SetMissing, Refresh, carried
  <1>2. \A a \in Agent : pc'[a] = "called" => pc[a] = "called"
    BY DEF SetTTL, SetMissing, Refresh, Goto, KVTypeOK
  <1>3. AllFine'
    <2>1. CASE SetTTL(s) \/ SetMissing(s)
      <3>1. truth \in Version /\ age[truth] = 0
        BY KVCacheAssumption DEF StaleInv, NewestIsTrue, KVTypeOK, Version
      <3>2. Fine(age, Fresh(truth)) /\ (NegativeTTL > 0 => Fine(age, missingItem(truth)))
        BY <3>1, FreshType, KVCacheAssumption DEF Fine
      <3> QED BY <1>1, <2>1, <3>2 DEF StaleInv, AllFine, SetTTL, SetMissing, Carry, KVTypeOK
    <2>2. CASE Refresh(s)
      BY <1>1, <2>2 DEF StaleInv, AllFine, Fine, Live, Refresh, carried
    <2> QED BY <2>1, <2>2
  <1> QED BY <1>1, <1>2, <1>3 DEF StaleInv, NewestIsTrue, CallsOutlastTheirValue

LEMMA RefreshStale ==
  ASSUME StaleInv, NEW a \in Agent, RefreshStep(a)
  PROVE  (AllFine /\ NewestIsTrue /\ CallsOutlastTheirValue)'
  <1> Home[a] \in Process
    BY HomeType
  <1> KVTypeOK
    BY DEF StaleInv
  <1>1. age' = age /\ truth' = truth
    BY DEF RefreshStep, CallRefresh, RefreshReturns, RefreshFails, setLocal, setStore
  <1>2. CallsOutlastTheirValue'
    <2>1. CASE CallRefresh(a)
      <3>1. asked'[a] = truth /\ age[truth] = 0 /\ waited[a] \in Nat
        BY <2>1, KVCacheAssumption DEF CallRefresh, StaleInv, NewestIsTrue, KVTypeOK, Version
      <3> QED
        BY <1>1, <2>1, <3>1 DEF StaleInv, CallsOutlastTheirValue, CallRefresh, Goto, KVTypeOK
    <2>2. CASE RefreshReturns(a) \/ RefreshFails(a)
      BY <1>1, <2>2
      DEF StaleInv, CallsOutlastTheirValue, RefreshReturns, RefreshFails, Answered, Goto, KVTypeOK
    <2>3. CASE setLocal(a) \/ setStore(a)
      BY <1>1, <2>3
      DEF StaleInv, CallsOutlastTheirValue, setLocal, setStore, Goto, Land, KVTypeOK, carried
    <2> QED BY <2>1, <2>2, <2>3 DEF RefreshStep
  <1>3. AllFine'
    <2>1. CASE CallRefresh(a) \/ RefreshFails(a)
      BY <1>1, <2>1 DEF StaleInv, AllFine, Fine, Live, CallRefresh, RefreshFails
    <2>2. CASE RefreshReturns(a)
      <3>1. /\ asked[a] \in Version /\ age[asked[a]] \in Nat
            /\ age[asked[a]] <= waited[a] /\ waited[a] <= RefreshTimeout /\ waited[a] \in Nat
        BY <2>2, KVCacheAssumption
        DEF StaleInv, CallsOutlastTheirValue, RefreshReturns, At, KVTypeOK
      <3>2. Fine(age, Fresh(asked[a])) /\ (NegativeTTL > 0 => Fine(age, missingItem(asked[a])))
        BY <3>1, FreshType, KVCacheAssumption DEF Fine
      <3> QED BY <1>1, <2>2, <3>2 DEF StaleInv, AllFine, RefreshReturns, Carry, KVTypeOK
    <2>3. CASE setLocal(a)
      BY <1>1, <2>3 DEF StaleInv, AllFine, Fine, Live, setLocal, carried, KVTypeOK
    <2>4. CASE setStore(a)
      <3>1. Fine(age, Unexpired(hold[a])) /\ Fine(age, None)
        BY UnexpiredType, NoneIsSlot DEF StaleInv, AllFine, Fine, KVTypeOK
      <3> QED BY <1>1, <2>4, <3>1 DEF StaleInv, AllFine, setStore, Carry, KVTypeOK
    <2> QED BY <2>1, <2>2, <2>3, <2>4 DEF RefreshStep
  <1> QED BY <1>1, <1>2, <1>3 DEF StaleInv, NewestIsTrue

LEMMA TickerStale ==
  ASSUME StaleInv, NEW t \in Ticker, Start(t) \/ Wake(t) \/ TickerExits(t) \/ TickStep(t)
  PROVE  (AllFine /\ NewestIsTrue /\ CallsOutlastTheirValue)'
  <1> t \in Agent /\ Home[t] \in Process
    BY HomeType DEF Agent
  <1> KVTypeOK
    BY DEF StaleInv
  <1>1. age' = age /\ truth' = truth /\ asked' = asked /\ waited' = waited
    BY DEF Start, Wake, TickerExits, TickStep, ScanKeys, ScanRead, ScanReconcile, carried
  <1>2. \A a \in Agent : pc'[a] = "called" => pc[a] = "called"
    BY DEF Start, Wake, TickerExits, TickStep, ScanKeys, ScanRead, ScanReconcile, Goto, KVTypeOK
  <1>3. AllFine'
    <2>1. CASE Start(t) \/ Wake(t) \/ TickerExits(t) \/ ScanKeys(t)
      BY <1>1, <2>1 DEF StaleInv, AllFine, Fine, Live, Start, Wake, TickerExits, ScanKeys, carried
    <2>2. CASE ScanRead(t)
      BY <1>1, <2>2, NoneIsSlot DEF StaleInv, AllFine, Fine, ScanRead, KVTypeOK
    <2>3. CASE ScanReconcile(t)
      <3> DEFINE it == IF local[Home[t]] = None THEN None ELSE Adopted(local[Home[t]], hold[t])
      <3>1. it \in Slot /\ Fine(age, it) /\ Fine(age, None)
        BY AdoptedType, NoneIsSlot DEF StaleInv, AllFine, Fine, KVTypeOK
      <3>2. Fine(age, Unexpired(it))
        BY <3>1, UnexpiredType DEF Fine
      <3>3. /\ local' = [local EXCEPT ![Home[t]] = Unexpired(it)]
            /\ hold' = [hold EXCEPT ![t] = None] /\ remote' = remote
        BY <2>3 DEF ScanReconcile, Carry
      <3> HIDE DEF it
      <3> QED BY <1>1, <3>1, <3>2, <3>3 DEF StaleInv, AllFine, KVTypeOK
    <2> QED BY <2>1, <2>2, <2>3 DEF TickStep
  <1> QED BY <1>1, <1>2, <1>3 DEF StaleInv, NewestIsTrue, CallsOutlastTheirValue

LEMMA StaleStep == StaleInv /\ [KVNext]_kvVars => StaleInv'
  <1> SUFFICES ASSUME StaleInv, [KVNext]_kvVars PROVE StaleInv'
    OBVIOUS
  <1> DEFINE Kept == AllFine /\ NewestIsTrue /\ CallsOutlastTheirValue
  <1>1. CASE TruthChanges
    <2>1. NewestIsTrue'
      BY <1>1, KVCacheAssumption DEF StaleInv, NewestIsTrue, TruthChanges, KVTypeOK, Version
    <2> QED BY <1>1, <2>1, TypeStep
            DEF StaleInv, TruthChanges, AllFine, Fine, Live, CallsOutlastTheirValue, carried
  <1>2. ASSUME UNCHANGED <<truth, age, local, remote, pc, carried>> PROVE Kept'
    BY <1>2 DEF StaleInv, AllFine, Fine, Live, NewestIsTrue, CallsOutlastTheirValue, carried
  <1>3. ASSUME NEW p \in Process, Stop(p) \/ StopReturns(p) PROVE Kept'
    BY <1>2, <1>3 DEF Stop, StopReturns
  <1>4. CASE UNCHANGED kvVars
    BY <1>2, <1>4, TypeStep DEF StaleInv, kvVars
  <1>5. KVTypeOK'
    BY TypeStep DEF StaleInv
  <1> QED BY <1>1, <1>3, <1>4, <1>5, TickStale, GetStale, SetStale, RefreshStale, TickerStale
          DEF StaleInv, KVNext

(* No entry of either tier, and none on its way between them, outlives the truth *)
(* of its value by more than one refresh call and one expiry.                    *)
THEOREM StalenessIsBounded == KVSpec => []StalenessBounded
  <1>1. KVSpec => []StaleInv
    BY StaleInit, StaleStep, PTL DEF KVSpec
  <1>2. StaleInv => StalenessBounded
    BY AllFineBounds DEF StaleInv
  <1> QED BY <1>1, <1>2, PTL

-----------------------------------------------------------------------------
(* Background goroutines.  A process has the one it knows, or one that was told  *)
(* to stop while Stop waits; no Start comes in between.                          *)
OneKnown ==
  \A p \in Process :
    /\ \A t \in Tickers(p) : t = running[p] \/ (t \in stopped /\ p \in stopping)
    /\ \A t, u \in Tickers(p) : t = u
    /\ p \in stopping => running[p] = NoAgent
TickerInv == KVTypeOK /\ OneKnown

LEMMA OneKnownSuffices == OneKnown => OneTicker
  <1> SUFFICES ASSUME OneKnown, NEW p \in Process
               PROVE  /\ Cardinality(Tickers(p)) <= 1
                      /\ Tickers(p) \ stopped \subseteq {running[p]}
    BY DEF OneTicker
  <1>1. CASE Tickers(p) = {}
    BY <1>1, FS_EmptySet
  <1>2. ASSUME NEW t \in Tickers(p) PROVE Cardinality(Tickers(p)) = 1
    <2>1. Tickers(p) = {t}
      BY <1>2 DEF OneKnown
    <2> QED BY <2>1, FS_Singleton
  <1> QED BY <1>1, <1>2 DEF OneKnown

LEMMA SameTickers ==
  ASSUME OneKnown, UNCHANGED ticking,
         \A t \in Ticker : pc'[t] = "off" <=> pc[t] = "off"
  PROVE  OneKnown'
  BY DEF OneKnown, Tickers, ticking

LEMMA TickerInit == KVInit => TickerInv
  BY TypeInit DEF KVInit, TickerInv, OneKnown, Tickers, Agent

LEMMA TickerStep == TickerInv /\ [KVNext]_kvVars => TickerInv'
  <1> SUFFICES ASSUME TickerInv, [KVNext]_kvVars PROVE OneKnown'
    BY TypeStep DEF TickerInv
  <1> KVTypeOK /\ OneKnown
    BY DEF TickerInv
  <1> Ticker \subseteq Agent
    BY DEF Agent
  <1>1. CASE Tick \/ TruthChanges \/ UNCHANGED kvVars
    BY <1>1, SameTickers DEF Tick, TruthChanges, kvVars
  <1>2. ASSUME NEW g \in Getter, GetLocal(g) \/ GetStep(g) PROVE OneKnown'
    BY <1>2, SameTickers
    DEF GetLocal, GetStep, Join, LoadHit, LoadMiss, Install, deleteExpiredLocal, Goto, Land, At,
        AfterMiss, KVTypeOK
  <1>3. ASSUME NEW s \in Setter, SetTTL(s) \/ SetMissing(s) \/ Refresh(s) PROVE OneKnown'
    BY <1>3, SameTickers DEF SetTTL, SetMissing, Refresh, Goto, At, KVTypeOK
  <1>4. ASSUME NEW a \in Agent, RefreshStep(a) PROVE OneKnown'
    BY <1>4, SameTickers
    DEF RefreshStep, CallRefresh, RefreshReturns, RefreshFails, setLocal, setStore, Goto, Land, At,
        KVTypeOK
  <1>5. ASSUME NEW t \in Ticker, Wake(t) \/ TickStep(t) PROVE OneKnown'
    BY <1>5, SameTickers
    DEF Wake, TickStep, ScanKeys, ScanRead, ScanReconcile, Goto, At, KVTypeOK
  <1>6. ASSUME NEW t \in Ticker, Start(t) PROVE OneKnown'
    <2> DEFINE p == Home[t]
    <2>1. p \in Process /\ t # NoAgent /\ NoAgent \notin Ticker
      BY HomeType, KVCacheAssumption DEF Agent
    <2>2. Tickers(p) = {}
      BY <1>6, <2>1 DEF OneKnown, Start, Tickers
    <2>3. Tickers(p)' = {t} /\ \A q \in Process \ {p} : Tickers(q)' = Tickers(q)
      BY <1>6, <2>2 DEF Start, Tickers, Goto, At, KVTypeOK
    <2>4. running'[p] = t /\ \A q \in Process \ {p} : running'[q] = running[q]
      BY <1>6, <2>1 DEF Start, KVTypeOK
    <2> QED BY <1>6, <2>3, <2>4 DEF OneKnown, Start
  <1>7. ASSUME NEW t \in Ticker, TickerExits(t) PROVE OneKnown'
    BY <1>7 DEF OneKnown, Tickers, TickerExits, Goto, KVTypeOK
  <1>8. ASSUME NEW p \in Process, Stop(p) \/ StopReturns(p) PROVE OneKnown'
    BY <1>8 DEF OneKnown, Tickers, Stop, StopReturns, KVTypeOK
  <1> QED BY <1>1, <1>2, <1>3, <1>4, <1>5, <1>6, <1>7, <1>8 DEF KVNext

(* Start and Stop leave a process with one background goroutine at most, and with *)
(* none that no Stop will tell to end.                                            *)
THEOREM OneTickerEach == KVSpec => []OneTicker
  <1>1. KVSpec => []TickerInv
    BY TickerInit, TickerStep, PTL DEF KVSpec
  <1>2. TickerInv => OneTicker
    BY OneKnownSuffices DEF TickerInv
  <1> QED BY <1>1, <1>2, PTL
=============================================================================
