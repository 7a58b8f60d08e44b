---------------------------- MODULE HomeServers ----------------------------
(***************************************************************************)
(* The look-up of Matrix home servers by DID                               *)
(* (packages/oracles-chain-client/src/matrix-bot/did-matrix-batcher.ts):   *)
(* what is not cached is gathered for a while and asked for in one query   *)
(* per kind of DID; a DID without a service of its own, or whose query     *)
(* failed, gets the default home server.                                   *)
(***************************************************************************)
EXTENDS Naturals, FiniteSets, SequencesExt

CONSTANTS
  Dids,         \* the DIDs asked for
  Entities,     \* those of them that are entities
  Served,       \* those that name a home server of their own
  Callers,      \* calls of the look-up
  MaxCache,     \* MAX_CACHE_SIZE
  QueriesFail,  \* a query may fail
  MaxLapses     \* bound: cache entries that grow too old

HomeServersAssumption ==
  IsFiniteSet(Dids) /\ MaxCache \in Nat \ {0} /\ MaxLapses \in Nat

VARIABLES
  call,         \* caller -> what it does, what it asked, what it got
  dids,         \* batchState.dids
  resolvers,    \* batchState.resolvers: <<caller, did>>
  timer,        \* batchState.timeoutId is set
  batches,      \* batches whose queries are in flight
  cache,        \* the DIDs cached, oldest first, each with its home server
  lapses

vars == <<call, dids, resolvers, timer, batches, cache, lapses>>

Own(d) == <<"own", d>>
Default == <<"default">>

(* What the index answers: a home server of one's own or none.              *)
Resolved(d) == IF d \in Served THEN Own(d) ELSE Default

Cached == {cache[i].did : i \in DOMAIN cache}
GetCachedHomeServer(d) == (CHOOSE e \in Range(cache) : e.did = d).url

Init ==
  /\ call = [c \in Callers |-> [pc |-> "new", many |-> FALSE, asks |-> {}, waits |-> {}, got |-> {}]]
  /\ dids = {} /\ resolvers = <<>> /\ timer = FALSE
  /\ batches = {} /\ cache = <<>> /\ lapses = 0

(***************************************************************************)
(* addToBatch, once for each DID that is not cached; the first one starts  *)
(* the timer.                                                              *)
(***************************************************************************)
AddToBatch(ask) == timer' = (timer \/ ask # {})

(* getMatrixHomeServerForDid.                                               *)
GetOne(c, d) ==
  /\ call[c].pc = "new"
  /\ IF d \in Cached
     THEN /\ call' = [call EXCEPT ![c] = [@ EXCEPT !.pc = "over", !.asks = {d},
                                          !.got = {<<d, GetCachedHomeServer(d)>>}]]
          /\ UNCHANGED <<dids, resolvers, timer>>
     ELSE /\ call' = [call EXCEPT ![c] = [@ EXCEPT !.pc = "waits", !.asks = {d}, !.waits = {d}]]
          /\ dids' = dids \cup {d}
          /\ resolvers' = Append(resolvers, <<c, d>>)
          /\ AddToBatch({d})
  /\ UNCHANGED <<batches, cache, lapses>>

(* getMultipleMatrixUrls: what is not cached is fetched first.              *)
GetMany(c, asks) ==
  /\ call[c].pc = "new"
  /\ call' = [call EXCEPT ![c] = [@ EXCEPT !.pc = "waits", !.many = TRUE, !.asks = asks,
                                           !.waits = asks \ Cached]]
  /\ dids' = dids \cup (asks \ Cached)
  /\ resolvers' = resolvers \o SetToSeq({<<c, d>> : d \in asks \ Cached})
  /\ AddToBatch(asks \ Cached)
  /\ UNCHANGED <<batches, cache, lapses>>

(* When all have answered, the cache is read for every DID again.           *)
Collect(c) ==
  /\ call[c].pc = "waits" /\ call[c].many /\ call[c].waits = {}
  /\ call' = [call EXCEPT ![c].pc = "over",
                ![c].got = {<<d, IF d \in Cached THEN GetCachedHomeServer(d) ELSE Default>> :
                              d \in call[c].asks}]
  /\ UNCHANGED <<dids, resolvers, timer, batches, cache, lapses>>

(***************************************************************************)
(* processBatch: the timer has fired; what was gathered is taken and a new *)
(* batch can start while its queries, one per kind of DID, are in flight.  *)
(***************************************************************************)
Taken_left == resolvers
Taken == <<>>

ProcessBatch ==
  /\ timer
  /\ timer' = FALSE
  /\ batches' = batches \cup {[dids |-> dids, resolvers |-> resolvers]}
  /\ dids' = {}
  /\ resolvers' = Taken
  /\ UNCHANGED <<call, cache, lapses>>

(* setCachedHomeServer: the oldest entry makes room, even for a known DID.  *)
SetCached_unbounded(entries, e) ==
  IF \E i \in DOMAIN entries : entries[i].did = e.did
  THEN [i \in DOMAIN entries |-> IF entries[i].did = e.did THEN e ELSE entries[i]]
  ELSE Append(entries, e)
SetCached(entries, e) ==
  LET room == IF Len(entries) >= MaxCache THEN Tail(entries) ELSE entries IN
  SetCached_unbounded(room, e)

(* The answers are cached one after the other.                              *)
Caching(entries, url, order) ==
  LET upto[n \in 0..Len(order)] ==
        IF n = 0 THEN entries ELSE SetCached(upto[n - 1], [did |-> order[n], url |-> url[order[n]]])
  IN  upto[Len(order)]

(***************************************************************************)
(* The queries have answered, each for all its DIDs or for none: the       *)
(* answers are cached, the entities first, and every caller of the batch   *)
(* gets its own.                                                           *)
(***************************************************************************)
Answers(b, failed) == [d \in b.dids |-> IF d \in failed THEN Default ELSE Resolved(d)]

Failures(b) ==
  IF QueriesFail THEN {{}, b.dids \cap Entities, b.dids \ Entities, b.dids} ELSE {{}}

Order(b) == SetToSeq(b.dids \cap Entities) \o SetToSeq(b.dids \ Entities)

Due(b, c) == {d \in Dids : <<c, d>> \in Range(b.resolvers)}
Answered(b, url, c) ==
  IF Due(b, c) = {} THEN call[c]
  ELSE [call[c] EXCEPT !.waits = @ \ Due(b, c),
                       !.pc = IF call[c].many THEN @ ELSE "over",
                       !.got = IF call[c].many THEN @ ELSE {<<d, url[d]>> : d \in Due(b, c)}]

Answer(b) ==
  /\ b \in batches
  /\ batches' = batches \ {b}
  /\ \E failed \in Failures(b) :
       /\ cache' = Caching(cache, Answers(b, failed), Order(b))
       /\ call' = [c \in Callers |-> Answered(b, Answers(b, failed), c)]
  /\ UNCHANGED <<dids, resolvers, timer, lapses>>

(* An entry grows older than a day, or the cache is cleared.                *)
Lapse ==
  /\ lapses < MaxLapses
  /\ lapses' = lapses + 1
  /\ \/ \E i \in DOMAIN cache : cache' = RemoveAt(cache, i)
     \/ cache # <<>> /\ cache' = <<>>
  /\ UNCHANGED <<call, dids, resolvers, timer, batches>>

Next ==
  \/ \E c \in Callers :
       \/ \E d \in Dids : GetOne(c, d)
       \/ \E asks \in SUBSET Dids : asks # {} /\ GetMany(c, asks)
       \/ Collect(c)
  \/ ProcessBatch
  \/ \E b \in batches : Answer(b)
  \/ Lapse

(* The timer fires and the queries answer or fail.                          *)
Spec == Init /\ [][Next]_vars
FairSpec ==
  /\ Spec
  /\ WF_vars(ProcessBatch)
  /\ WF_vars(\E b \in batches : Answer(b))
  /\ WF_vars(\E c \in Callers : Collect(c))

------------------------------------------------------------------------------
Urls == {Default} \cup {Own(d) : d \in Dids}
Entries == [did : Dids, url : Urls]

TypeOK ==
  /\ \A c \in Callers :
       /\ call[c].pc \in {"new", "waits", "over"}
       /\ call[c].waits \subseteq call[c].asks
       /\ call[c].got \subseteq Dids \X Urls
  /\ dids \subseteq Dids
  /\ Range(resolvers) \subseteq Callers \X Dids
  /\ Range(cache) \subseteq Entries /\ Len(cache) <= MaxCache
  /\ lapses \in 0..MaxLapses

(***************************************************************************)
(* A caller that waits is in exactly one batch for each DID it waits for,  *)
(* and that batch asks for the DID: no answer is lost between a timer that *)
(* fires and a caller that joins, and none is given twice.  What is        *)
(* gathered has a timer that will ask for it.                              *)
(***************************************************************************)
Pool == {[dids |-> dids, resolvers |-> resolvers]} \cup batches
WaitsOnce ==
  /\ dids # {} => timer
  /\ \A c \in Callers, d \in Dids :
       LET mine == {b \in Pool : <<c, d>> \in Range(b.resolvers)} IN
       /\ d \in call[c].waits <=> mine # {}
       /\ Cardinality(mine) <= 1
       /\ \A b \in mine : d \in b.dids

(***************************************************************************)
(* Nobody gets the home server of somebody else, and an answer is given    *)
(* for everything that was asked.                                          *)
(***************************************************************************)
OwnServer ==
  \A c \in Callers : call[c].pc = "over" =>
    /\ {g[1] : g \in call[c].got} = call[c].asks
    /\ \A g \in call[c].got : g[2] \in {Resolved(g[1]), Default}

(***************************************************************************)
(* Whoever has a home server of their own is found there, when the queries *)
(* answer.                                                                 *)
(***************************************************************************)
ServedAreFound ==
  \A c \in Callers : \A g \in call[c].got : g[2] = Resolved(g[1])

(* Every look-up ends.                                                      *)
Ends == \A c \in Callers : call[c].pc = "waits" ~> call[c].pc = "over"
=============================================================================
