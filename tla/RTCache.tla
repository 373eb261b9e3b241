------------------------------- MODULE RTCache -------------------------------
(***************************************************************************)
(* The cache of realtime messages of a server process                      *)
(* (server/finders/rtfinder/cache.go): a local map of decoded messages in  *)
(* front of a store that every process shares.  With a store that has      *)
(* publish/subscribe, an update is announced by its topic only, and a      *)
(* process that holds the topic reads it again from the store              *)
(* ("notify-then-read"); without, AddData decodes into the local map.      *)
(*                                                                         *)
(* One topic: nothing in the cache relates two topics.  A payload is the   *)
(* number of the store write that put it there.                            *)
(***************************************************************************)
EXTENDS Naturals, Sequences

CONSTANTS
  Server,       \* server processes, each with one cache
  Reader,       \* callers of GetSource
  Fetcher,      \* callers of AddData
  ServerOf,     \* the process of a reader or fetcher
  MaxVersion,   \* bound: writes to the store
  MaxDrops,     \* bound: lost connections
  Undecodable,  \* payloads that are no realtime message
  Modes         \* may the store publish?

Payload == 1..MaxVersion
NoPayload == 0
Failed == MaxVersion + 1     \* the store, or the decoder, reported an error
Cut == MaxVersion + 2        \* the caller of the read went away
Outcome == Payload \cup {NoPayload, Failed, Cut}
Decodable == Payload \ Undecodable

ASSUME RTCacheAssumption ==
  /\ ServerOf \in [Reader \cup Fetcher -> Server]
  /\ MaxVersion \in Nat /\ MaxDrops \in Nat
  /\ Undecodable \subseteq Payload /\ Modes \subseteq BOOLEAN

VARIABLES
  pubsub,    \* is the store a PubSubStore?
  store,     \* the topic's payload in the store
  written,   \* writes so far
  link,      \* processes whose subscription is connected
  drops,     \* connections lost so far
  inbox,     \* announcements on their way to a process; the version is history
  sources,   \* the message a process holds, NoPayload if none
  missing,   \* processes that remember the topic as absent
  closing,   \* of a process's cache: "open", "closing", "closed"
  listener,  \* where the subscribe goroutine of a process is
  update,    \* what it has read
  reader, got, gone,  \* where a GetSource is, what it read, is its context canceled?
  fetcher, fetched,   \* where an AddData is, what it wrote
  heard,     \* history: the last announcement a process took
  missed     \* history: processes that an update has passed by

shared == <<pubsub, store, written>>
net == <<link, drops, inbox>>
listening == <<listener, update, heard>>
reading == <<reader, got, gone>>
fetching == <<fetcher, fetched>>
vars == <<shared, net, sources, missing, closing, listening, reading, fetching, missed>>

TypeOK ==
  /\ pubsub \in BOOLEAN
  /\ store \in Payload \cup {NoPayload} /\ written \in 0..MaxVersion /\ store <= written
  /\ link \subseteq Server /\ drops \in 0..MaxDrops
  /\ inbox \in [Server -> Seq(Payload)]
  /\ \A p \in Server \ link : inbox[p] = << >>
  /\ sources \in [Server -> Decodable \cup {NoPayload}]
  /\ missing \subseteq Server
  /\ closing \in [Server -> {"open", "closing", "closed"}]
  /\ listener \in [Server -> {"connect", "listen", "load", "put", "done"}]
  /\ update \in [Server -> Decodable \cup {NoPayload}]
  /\ \A p \in Server : listener[p] = "put" <=> update[p] # NoPayload
  /\ reader \in [Reader -> {"idle", "load", "settle"}]
  /\ got \in [Reader -> Outcome \ Undecodable] /\ gone \subseteq Reader
  /\ \A r \in Reader : (got[r] # NoPayload => reader[r] = "settle") /\ (got[r] = Cut => r \in gone)
  /\ fetcher \in [Fetcher -> {"idle", "stored"}]
  /\ fetched \in [Fetcher -> Payload \cup {NoPayload}]
  /\ \A f \in Fetcher : fetcher[f] = "stored" => fetched[f] \in Payload
  /\ heard \in [Server -> Payload \cup {NoPayload}] /\ missed \subseteq Server

Init ==
  /\ pubsub \in Modes
  /\ store = NoPayload /\ written = 0
  /\ link = {} /\ drops = 0 /\ inbox = [p \in Server |-> << >>]
  /\ sources = [p \in Server |-> NoPayload] /\ missing = {}
  /\ closing = [p \in Server |-> "open"]
  /\ listener = [p \in Server |-> IF pubsub THEN "connect" ELSE "done"]
  /\ update = [p \in Server |-> NoPayload] /\ heard = [p \in Server |-> NoPayload]
  /\ reader = [r \in Reader |-> "idle"] /\ got = [r \in Reader |-> NoPayload] /\ gone = {}
  /\ fetcher = [f \in Fetcher |-> "idle"] /\ fetched = [f \in Fetcher |-> NoPayload]
  /\ missed = {}

-----------------------------------------------------------------------------
(* AddData.  A store write that fails changes nothing.                        *)

AddDataStore(f) ==
  /\ fetcher[f] = "idle" /\ closing[ServerOf[f]] = "open" /\ written < MaxVersion
  /\ written' = written + 1 /\ store' = written'
  /\ fetcher' = [fetcher EXCEPT ![f] = "stored"]
  /\ fetched' = [fetched EXCEPT ![f] = written']
  /\ UNCHANGED <<pubsub, net, sources, missing, closing, listening, reading, missed>>

AddDataDone(f) ==
  /\ fetcher[f] = "stored"
  /\ fetcher' = [fetcher EXCEPT ![f] = "idle"]
  /\ fetched' = [fetched EXCEPT ![f] = NoPayload]
  /\ UNCHANGED <<shared, link, drops, missing, closing, listening, reading>>

\* Announced to the processes that are connected.
AddDataPublish(f) ==
  /\ pubsub /\ AddDataDone(f)
  /\ inbox' = [p \in Server |-> IF p \in link THEN Append(inbox[p], fetched[f])
                                               ELSE inbox[p]]
  /\ missed' = missed \cup (Server \ link)
  /\ UNCHANGED sources

AddDataPublishFails(f) ==
  /\ pubsub /\ AddDataDone(f)
  /\ missed' = Server
  /\ UNCHANGED <<inbox, sources>>

\* Without publish/subscribe: decode into the local map of this process.
AddDataLocal(f) ==
  /\ ~pubsub /\ AddDataDone(f)
  /\ sources' = IF fetched[f] \in Decodable THEN [sources EXCEPT ![ServerOf[f]] = fetched[f]]
                                            ELSE sources
  /\ UNCHANGED <<inbox, missed>>

AddData(f) ==
  AddDataStore(f) \/ AddDataPublish(f) \/ AddDataPublishFails(f) \/ AddDataLocal(f)

-----------------------------------------------------------------------------
(* GetSource.  A lookup that finds a message, or a remembered absence,        *)
(* returns at once and changes nothing.                                       *)

GetSourceMiss(r) ==
  /\ reader[r] = "idle" /\ sources[ServerOf[r]] = NoPayload /\ ServerOf[r] \notin missing
  /\ reader' = [reader EXCEPT ![r] = "load"]
  /\ UNCHANGED <<shared, net, sources, missing, closing, listening, got, gone, fetching, missed>>

\* What a read of the store returns when it succeeds.
Stored == IF store \in Undecodable THEN Failed ELSE store

ReaderLoads(r, outcome) ==
  /\ reader[r] = "load" /\ reader' = [reader EXCEPT ![r] = "settle"]
  /\ got' = [got EXCEPT ![r] = outcome]
  /\ UNCHANGED <<shared, net, sources, missing, closing, listening, gone, fetching, missed>>

GetSourceLoad(r) == ReaderLoads(r, Stored)
GetSourceLoadFails(r) == ReaderLoads(r, Failed)
GetSourceCut(r) == r \in gone /\ ReaderLoads(r, Cut)

CallerLeaves(r) ==
  /\ reader[r] # "idle" /\ r \notin gone /\ gone' = gone \cup {r}
  /\ UNCHANGED <<shared, net, sources, missing, closing, listening, reader, got, fetching, missed>>

GetSourceReturn(r) ==
  /\ reader[r] = "settle" /\ reader' = [reader EXCEPT ![r] = "idle"]
  /\ got' = [got EXCEPT ![r] = NoPayload] /\ gone' = gone \ {r}
  /\ UNCHANGED <<shared, net, closing, listening, fetching>>

\* Mutant: Takes an absence from a read whose caller has left.
GetSourceRememberAny(r) ==
  /\ got[r] \in {NoPayload, Failed, Cut}
  /\ GetSourceReturn(r)
  /\ missing' = missing \cup {ServerOf[r]}
  /\ UNCHANGED <<sources, missed>>

\* Absent and failed reads are remembered alike.
GetSourceRemember(r) ==
  /\ got[r] \in {NoPayload, Failed, Cut} /\ r \notin gone
  /\ GetSourceReturn(r)
  /\ missing' = missing \cup {ServerOf[r]}
  /\ UNCHANGED <<sources, missed>>

GetSourceAbandon(r) ==
  /\ got[r] \in {NoPayload, Failed, Cut} /\ r \in gone
  /\ GetSourceReturn(r)
  /\ UNCHANGED <<sources, missing, missed>>

\* Mutant: Installs what it read without the double-check.
GetSourceInstallBlind(r) ==
  /\ got[r] \in Payload
  /\ GetSourceReturn(r)
  /\ sources' = [sources EXCEPT ![ServerOf[r]] = got[r]]
  /\ UNCHANGED <<missing, missed>>

\* "Double-check: a concurrent update may have inserted it meanwhile."
GetSourceInstall(r) ==
  /\ got[r] \in Payload
  /\ GetSourceReturn(r)
  /\ sources' = IF sources[ServerOf[r]] = NoPayload THEN [sources EXCEPT ![ServerOf[r]] = got[r]]
                                           ELSE sources
  /\ missed' = IF sources'[ServerOf[r]] = store THEN missed \ {ServerOf[r]} ELSE missed
  /\ UNCHANGED missing

GetSource(r) ==
  \/ GetSourceMiss(r) \/ GetSourceLoad(r) \/ GetSourceLoadFails(r) \/ GetSourceCut(r)
  \/ CallerLeaves(r) \/ GetSourceRemember(r) \/ GetSourceAbandon(r) \/ GetSourceInstall(r)

\* Mutant: A new lookup renews the absence, which then never lapses.
MissingLapsesRenewed(p) ==
  /\ p \in missing /\ \A r \in Reader : ServerOf[r] # p /\ missing' = missing \ {p}
  /\ UNCHANGED <<shared, net, sources, closing, listening, reading, fetching, missed>>

\* missingTTL has passed.
MissingLapses(p) ==
  /\ p \in missing /\ missing' = missing \ {p}
  /\ UNCHANGED <<shared, net, sources, closing, listening, reading, fetching, missed>>

-----------------------------------------------------------------------------
(* The subscribe goroutine.                                                   *)

Subscribe(p) ==
  /\ listener[p] = "connect" /\ closing[p] = "open"
  /\ listener' = [listener EXCEPT ![p] = "listen"]
  /\ link' = link \cup {p}
  /\ UNCHANGED <<shared, drops, inbox, sources, missing, closing, update, heard, reading, fetching, missed>>

\* The connection is lost, and the announcements on their way with it.
LinkDrops(p) ==
  /\ p \in link /\ drops < MaxDrops
  /\ link' = link \ {p} /\ drops' = drops + 1
  /\ inbox' = [inbox EXCEPT ![p] = << >>]
  /\ missed' = IF inbox[p] = << >> THEN missed ELSE missed \cup {p}
  /\ UNCHANGED <<shared, sources, missing, closing, listening, reading, fetching>>

\* Messages() is closed: close the subscription, wait, subscribe again.
Reconnect(p) ==
  /\ listener[p] = "listen" /\ p \notin link
  /\ listener' = [listener EXCEPT ![p] = "connect"]
  /\ UNCHANGED <<shared, net, sources, missing, closing, update, heard, reading, fetching, missed>>

\* watching: a process that holds the topic reads it, any other ignores it.
watching(p) == sources[p] # NoPayload

\* A reader of p that has read the store and not yet installed what it found.
InstallPending(p) == \E r \in Reader : ServerOf[r] = p /\ got[r] \in Payload

\* Mutant: Serves a new topic from its announcement on, but not one it already holds.
DrainTakeNew(p) ==
  /\ listener[p] = "listen" /\ inbox[p] # << >>
  /\ inbox' = [inbox EXCEPT ![p] = Tail(@)] /\ heard' = [heard EXCEPT ![p] = Head(inbox[p])]
  /\ listener' = [listener EXCEPT ![p] = IF watching(p) THEN "listen" ELSE "load"]
  /\ UNCHANGED <<shared, link, drops, sources, missing, closing, update, reading, fetching, missed>>

DrainTake(p) ==
  /\ listener[p] = "listen" /\ inbox[p] # << >>
  /\ inbox' = [inbox EXCEPT ![p] = Tail(@)] /\ heard' = [heard EXCEPT ![p] = Head(inbox[p])]
  /\ listener' = [listener EXCEPT ![p] = IF watching(p) THEN "load" ELSE "listen"]
  /\ missed' = IF ~watching(p) /\ InstallPending(p) THEN missed \cup {p} ELSE missed
  /\ UNCHANGED <<shared, link, drops, sources, missing, closing, update, reading, fetching>>

DrainLoad(p) ==
  /\ listener[p] = "load" /\ Stored \in Payload
  /\ listener' = [listener EXCEPT ![p] = "put"] /\ update' = [update EXCEPT ![p] = Stored]
  /\ UNCHANGED <<shared, net, sources, missing, closing, heard, reading, fetching, missed>>

\* Nothing there, or the read failed: the announcement is dropped.
DrainLoadNothing(p) ==
  /\ listener[p] = "load" /\ listener' = [listener EXCEPT ![p] = "listen"]
  /\ missed' = missed \cup {p}
  /\ UNCHANGED <<shared, net, sources, missing, closing, update, heard, reading, fetching>>

DrainPut(p) ==
  /\ listener[p] = "put" /\ listener' = [listener EXCEPT ![p] = "listen"]
  /\ sources' = [sources EXCEPT ![p] = update[p]] /\ update' = [update EXCEPT ![p] = NoPayload]
  /\ missed' = IF update[p] = store THEN missed \ {p} ELSE missed
  /\ UNCHANGED <<shared, net, missing, closing, heard, reading, fetching>>

\* The context is canceled: seen where the goroutine waits.
ListenerExit(p) ==
  /\ closing[p] = "closing" /\ listener[p] \in {"connect", "listen"}
  /\ listener' = [listener EXCEPT ![p] = "done"]
  /\ link' = link \ {p} /\ inbox' = [inbox EXCEPT ![p] = << >>]
  /\ missed' = missed \cup {p}
  /\ UNCHANGED <<shared, drops, sources, missing, closing, update, heard, reading, fetching>>

drain(p) == DrainTake(p) \/ DrainLoad(p) \/ DrainLoadNothing(p) \/ DrainPut(p)
Listen(p) == Subscribe(p) \/ Reconnect(p) \/ drain(p) \/ ListenerExit(p)

Close(p) ==
  /\ closing[p] = "open" /\ closing' = [closing EXCEPT ![p] = "closing"]
  /\ UNCHANGED <<shared, net, sources, missing, listening, reading, fetching, missed>>

CloseReturn(p) ==
  /\ closing[p] = "closing" /\ listener[p] = "done"
  /\ closing' = [closing EXCEPT ![p] = "closed"]
  /\ UNCHANGED <<shared, net, sources, missing, listening, reading, fetching, missed>>

\* lastTTL has passed since the last write.
StoreExpires ==
  /\ store # NoPayload /\ store' = NoPayload
  /\ UNCHANGED <<pubsub, written, net, sources, missing, closing, listening, reading, fetching, missed>>

-----------------------------------------------------------------------------
Next ==
  \/ \E f \in Fetcher : AddData(f)
  \/ \E r \in Reader : GetSource(r)
  \/ \E p \in Server : MissingLapses(p) \/ LinkDrops(p) \/ Listen(p) \/ Close(p) \/ CloseReturn(p)
  \/ StoreExpires

(* Goroutines run; clocks advance; the store answers a reader now and then;   *)
(* and a caller of GetSource asks again.                                      *)
Fairness ==
  /\ \A f \in Fetcher : WF_vars(AddDataPublish(f) \/ AddDataPublishFails(f) \/ AddDataLocal(f))
  /\ \A r \in Reader :
       /\ WF_vars(GetSourceMiss(r))
       /\ SF_vars(GetSourceLoad(r))
       /\ WF_vars(GetSourceRemember(r) \/ GetSourceAbandon(r) \/ GetSourceInstall(r))
  /\ \A p \in Server :
       /\ WF_vars(MissingLapses(p)) /\ WF_vars(Subscribe(p) \/ Reconnect(p) \/ drain(p))

Spec == Init /\ [][Next]_vars /\ Fairness

-----------------------------------------------------------------------------
(* Properties.                                                                *)

\* A process that holds the topic never goes back to an older message: neither
\* a slow cold read nor a late announcement replaces a newer one.
SnapshotsNeverGoBack ==
  [][pubsub => \A p \in Server : sources'[p] >= sources[p]]_vars

\* Every announcement of p has been handled.
Settled(p) ==
  /\ listener[p] = "listen" /\ inbox[p] = << >>
  /\ \A f \in Fetcher : fetcher[f] = "idle"

\* When nothing is on its way, the message that a process holds is the one in
\* the store, unless an update passed it by: published while it was not
\* connected, dropped with the connection, its read failed, or skipped because
\* the first reader of the topic had not yet installed what it read.
HeldSnapshotsAreCurrent ==
  \A p \in Server :
    pubsub /\ Settled(p) /\ p \notin missed /\ sources[p] # NoPayload /\ store \in Decodable
      => sources[p] = store

\* "A read cut short because the caller went away says nothing about the topic,
\* so it must not be remembered as an absence."
AbandonedReadsTeachNothing ==
  [][\A r \in Reader : got[r] = Cut /\ reader'[r] = "idle" => missing' \subseteq missing]_vars

\* A message that stays in the store is in the end served to whoever keeps
\* asking for it: absences are forgotten and failed reads tried again.
TopicIsEventuallyServed ==
  <>[](store \in Decodable) => \A r \in Reader : <>(sources[ServerOf[r]] # NoPayload)

=============================================================================
