------------------------- MODULE UserStorageProofs -------------------------
(* Proofs about UserStorage, for every value of its constants but two: no    *)
(* request starts while the hourly clean-up runs, and no restart comes       *)
(* between the redaction of a media event and the update of the cached one.  *)
EXTENDS UserStorage, FiniteSetTheorems, TLAPS

-----------------------------------------------------------------------------
(* Contents, handles and counts *)

LEMMA Numbers ==
  /\ IsFiniteSet(Requests) /\ Cardinality(Requests) \in Nat
  /\ MaxWrites \in Nat /\ MaxEvents \in Nat /\ MaxCrashes \in Nat
  /\ 0 \notin Handle /\ 0 \notin Event
<1>1. IsFiniteSet(Requests) /\ Cardinality(Requests) \in Nat
  BY StorageAssumption, FS_CardinalityType
<1>2. QED
  BY <1>1, StorageAssumption DEF Handle, Event

LEMMA Contents ==
  /\ Absent \in Content /\ Corrupt \in Content /\ Absent # Corrupt
  /\ Absent.data = {} /\ Absent.kind = "absent" /\ Corrupt.kind = "corrupt"
  /\ \A d \in SUBSET Write : /\ Good(d) \in Content /\ Good(d).kind = "good" /\ Good(d).data = d
                             /\ Good(d) # Absent /\ Good(d) # Corrupt
  /\ \A c \in Content : /\ c.data \subseteq Write
                        /\ c.kind = "good" <=> c # Absent /\ c # Corrupt
                        /\ c.kind = "absent" <=> c = Absent
<1>1. Absent.data = {} /\ Absent.kind = "absent" /\ Corrupt.data = {} /\ Corrupt.kind = "corrupt"
  BY DEF Absent, Corrupt
<1>2. \A d : Good(d).kind = "good" /\ Good(d).data = d
  BY DEF Good
<1>3. \A c \in Content : c = Absent \/ c = Corrupt \/ \E d \in SUBSET Write : c = Good(d)
  BY DEF Content
<1>4. Absent \in Content /\ Corrupt \in Content /\ \A d \in SUBSET Write : Good(d) \in Content
  BY DEF Content
<1>5. Absent # Corrupt /\ \A d : Good(d) # Absent /\ Good(d) # Corrupt
  BY <1>1, <1>2
<1>6. ASSUME NEW c \in Content
      PROVE  /\ c.data \subseteq Write
             /\ c.kind = "good" <=> c # Absent /\ c # Corrupt
             /\ c.kind = "absent" <=> c = Absent
  BY <1>1, <1>2, <1>3, <1>5
<1>7. QED
  BY <1>1, <1>2, <1>4, <1>5, <1>6

(* The rest of the type invariant: only a request that uses the database has a *)
(* handle, media events are numbered as they are posted, the clean-up runs     *)
(* alone, and a download has someone waiting for it.                           *)
RequestHandles == \A r \in Requests : request[r].handle # 0 <=> At(r, "use")
Posted == {e \in Event : media[e] # Absent}
EventsInOrder == \E k \in 0..MaxEvents : Posted = 1..k
CleanUpIsAlone == cron.mode # "upload" => Busy = {}
Awaited == download.pc # "idle" => Waiting # {}

TypeInv == TypeOK /\ RequestHandles /\ EventsInOrder /\ CleanUpIsAlone /\ Awaited

(* Some handle is always free for a request that is to get one. *)
LEMMA AHandleIsUnused ==
  ASSUME TypeInv, NEW r \in Requests, ~At(r, "use")
  PROVE  Unused \in Handle /\ ~Held(Unused)
<1> DEFINE n == Cardinality(Requests)
           S == Requests \ {r}
           T == {request[s].handle : s \in S}
           f == [s \in S |-> request[s].handle]
<1>1. request[r].handle = 0
  BY DEF TypeInv, RequestHandles
<1>2. n \in Nat /\ IsFiniteSet(S) /\ Cardinality(S) = n - 1
  BY Numbers, FS_RemoveElement
<1>3. f \in Surjection(S, T)
  BY DEF Surjection
<1>4. IsFiniteSet(T) /\ Cardinality(T) <= n - 1
  <2> HIDE DEF S, T, f
  <2>1. QED
    BY <1>2, <1>3, FS_Surjection
<1>5. Cardinality(T) \in Nat
  BY <1>4, FS_CardinalityType
<1> DEFINE U == T \cup {conn}
           V == U \cup {cron.handle}
<1>6. IsFiniteSet(U) /\ Cardinality(U) <= n /\ Cardinality(U) \in Nat
  <2> HIDE DEF T
  <2>4. IsFiniteSet(U) /\ Cardinality(U) = IF conn \in T THEN Cardinality(T) ELSE Cardinality(T) + 1
    BY <1>4, <1>5, FS_AddElement
  <2>1. IsFiniteSet(U) /\ Cardinality(U) <= Cardinality(T) + 1
    BY <1>4, <1>5, <2>4
  <2>2. Cardinality(U) \in Nat
    BY <2>1, FS_CardinalityType
  <2> HIDE DEF U
  <2>3. QED
    BY <1>2, <1>4, <1>5, <2>1, <2>2
<1>7. IsFiniteSet(V) /\ Cardinality(V) <= n + 1 /\ Cardinality(V) \in Nat
  <2> HIDE DEF U
  <2>4. IsFiniteSet(V) /\ Cardinality(V) = IF cron.handle \in U THEN Cardinality(U) ELSE Cardinality(U) + 1
    BY <1>6, FS_AddElement
  <2>1. IsFiniteSet(V) /\ Cardinality(V) <= Cardinality(U) + 1
    BY <1>6, <2>4
  <2>2. Cardinality(V) \in Nat
    BY <2>1, FS_CardinalityType
  <2> HIDE DEF V
  <2>3. QED
    BY <1>2, <1>6, <2>1, <2>2
<1>8. Cardinality(Handle) = n + 2
  BY <1>2, FS_Interval DEF Handle
<1>9. ~(Handle \subseteq V)
  <2> HIDE DEF V
  <2>1. SUFFICES ASSUME Handle \subseteq V PROVE FALSE
    OBVIOUS
  <2>2. Cardinality(Handle) <= Cardinality(V)
    BY <1>7, <2>1, FS_Subset
  <2>3. QED
    BY <1>2, <1>7, <1>8, <2>2
<1>10. \A h \in Handle : Held(h) => h \in V
  BY <1>1, Numbers DEF Held
<1>11. \E h \in Handle : ~Held(h)
  BY <1>9, <1>10
<1>12. QED
  BY <1>11 DEF Unused

(* The reference count follows the requests. *)
LEMMA BusyIsFinite ==
  TypeInv => IsFiniteSet(Busy) /\ active = Cardinality(Busy) /\ active \in Nat
             /\ (active = 0 <=> Busy = {})
<1>1. IsFiniteSet(Busy)
  BY Numbers, FS_Subset DEF Busy
<1>2. QED
  BY <1>1, FS_CardinalityType, FS_EmptySet DEF TypeInv, TypeOK, RequestsOK

LEMMA SameBusy ==
  ASSUME TypeInv, request' \in [Requests -> RequestState], UNCHANGED active,
         \A r \in Requests : request'[r].pc # "idle" <=> request[r].pc # "idle"
  PROVE  RequestsOK'
<1>1. Busy' = Busy
  BY DEF Busy
<1>2. QED
  BY <1>1 DEF TypeInv, TypeOK, RequestsOK

LEMMA OneMoreBusy ==
  ASSUME TypeInv, request' \in [Requests -> RequestState], active' = active + 1,
         NEW r \in Requests, request[r].pc = "idle", request'[r].pc # "idle",
         \A s \in Requests \ {r} : request'[s].pc # "idle" <=> request[s].pc # "idle"
  PROVE  RequestsOK'
<1>1. Busy' = Busy \cup {r} /\ r \notin Busy
  BY DEF Busy
<1>2. Cardinality(Busy') = Cardinality(Busy) + 1
  BY <1>1, BusyIsFinite, FS_AddElement
<1>3. QED
  BY <1>2, BusyIsFinite DEF RequestsOK

LEMMA EndType ==
  ASSUME TypeInv, NEW rs \in SUBSET Busy, End(rs)
  PROVE  RequestsOK' /\ \A r \in Requests : request'[r] \in {IdleRequest, request[r]}
<1>1. /\ request' = [r \in Requests |-> IF r \in rs THEN IdleRequest ELSE request[r]]
      /\ active' = active - Cardinality(rs)
  BY DEF End, Release
<1>2. IdleRequest \in RequestState /\ IdleRequest.pc = "idle"
  BY DEF IdleRequest, RequestState
<1>3. request' \in [Requests -> RequestState] /\ Busy' = Busy \ rs
  BY <1>1, <1>2 DEF Busy, TypeInv, TypeOK, RequestsOK
<1>4. Cardinality(Busy \ rs) = Cardinality(Busy) - Cardinality(Busy \cap rs) /\ Busy \cap rs = rs
  BY BusyIsFinite, FS_Difference
<1>5. QED
  BY <1>1, <1>3, <1>4, BusyIsFinite DEF RequestsOK

-----------------------------------------------------------------------------
(* Type correctness: what the recurring parts of the actions preserve. *)

RequestPart == RequestsOK /\ RequestHandles
AllTypes ==
  /\ FileOK /\ HandlesOK /\ RequestPart /\ DownloadOK /\ recovering \in BOOLEAN
  /\ CronOK /\ BackupOK /\ EventsInOrder /\ HistoryOK /\ CleanUpIsAlone /\ Awaited

LEMMA Parts == TypeInv <=> AllTypes
  BY DEF TypeInv, TypeOK, AllTypes, RequestPart

LEMMA Frame ==
  ASSUME TypeInv
  PROVE  /\ UNCHANGED <<file, tracked, recent>> => FileOK'
         /\ UNCHANGED <<conn, handle>> => HandlesOK'
         /\ UNCHANGED <<active, request>> => RequestPart'
         /\ UNCHANGED download => DownloadOK'
         /\ UNCHANGED recovering => recovering' \in BOOLEAN
         /\ UNCHANGED cron => CronOK'
         /\ UNCHANGED <<sum, row, media, redacted, pointer>> => BackupOK'
         /\ UNCHANGED media => EventsInOrder'
         /\ UNCHANGED <<crashes, committed, damaged>> => HistoryOK'
         /\ UNCHANGED <<request, cron>> => CleanUpIsAlone'
         /\ UNCHANGED <<request, download>> => Awaited'
<1>1. /\ UNCHANGED <<file, tracked, recent>> => FileOK'
      /\ UNCHANGED <<conn, handle>> => HandlesOK'
      /\ UNCHANGED download => DownloadOK'
      /\ UNCHANGED recovering => recovering' \in BOOLEAN
      /\ UNCHANGED cron => CronOK'
      /\ UNCHANGED <<sum, row, media, redacted, pointer>> => BackupOK'
      /\ UNCHANGED <<crashes, committed, damaged>> => HistoryOK'
  BY DEF TypeInv, TypeOK, FileOK, HandlesOK, DownloadOK, CronOK, BackupOK, HistoryOK
<1>2. UNCHANGED <<active, request>> => RequestPart'
  BY DEF TypeInv, TypeOK, RequestPart, RequestsOK, RequestHandles, At, Busy
<1>3. UNCHANGED media => EventsInOrder'
  BY DEF TypeInv, EventsInOrder, Posted
<1>4. UNCHANGED <<request, cron>> => CleanUpIsAlone'
  BY DEF TypeInv, CleanUpIsAlone, Busy
<1>5. UNCHANGED <<request, download>> => Awaited'
  BY DEF TypeInv, Awaited, Waiting, At
<1>6. QED
  BY <1>1, <1>2, <1>3, <1>4, <1>5

(* A request that is under way moves on; who waits for a download goes on      *)
(* waiting.                                                                    *)
LEMMA MoveType ==
  ASSUME TypeInv, NEW r \in Requests, NEW q \in RequestState,
         request' = [request EXCEPT ![r] = q], UNCHANGED <<active, cron>>,
         request[r].pc # "idle", q.pc # "idle", q.handle # 0 <=> q.pc = "use",
         \/ UNCHANGED download /\ ~At(r, "sync")
         \/ download'.pc = "idle"
  PROVE  RequestPart' /\ CleanUpIsAlone' /\ Awaited'
<1>1. request \in [Requests -> RequestState]
  BY DEF TypeInv, TypeOK, RequestsOK
<1>2. RequestsOK'
  BY <1>1, SameBusy
<1>3. RequestHandles'
  BY <1>1 DEF TypeInv, RequestHandles, At
<1>4. CleanUpIsAlone'
  BY <1>1 DEF TypeInv, CleanUpIsAlone, Busy
<1>5. Awaited'
  BY <1>1 DEF TypeInv, Awaited, Waiting, At
<1>6. QED
  BY <1>2, <1>3, <1>4, <1>5 DEF RequestPart

LEMMA GoType ==
  ASSUME TypeInv, NEW r \in Requests, request[r].pc \notin {"idle", "use"},
         NEW pc \in {"sync", "open", "clear", "await", "check", "purge", "fresh"},
         Go(r, pc), UNCHANGED <<active, cron>>,
         \/ UNCHANGED download /\ ~At(r, "sync")
         \/ download'.pc = "idle"
  PROVE  RequestPart' /\ CleanUpIsAlone' /\ Awaited'
<1> DEFINE q == [request[r] EXCEPT !.pc = pc]
<1>1. request[r] \in RequestState /\ request[r].handle = 0
  BY DEF TypeInv, TypeOK, RequestsOK, RequestHandles, At
<1>2. q \in RequestState /\ q.pc = pc /\ q.handle = 0
  BY <1>1 DEF RequestState
<1>3. request' = [request EXCEPT ![r] = q]
  BY DEF Go
<1> HIDE DEF q
<1>4. QED
  BY <1>2, <1>3, MoveType

LEMMA ServeType ==
  ASSUME TypeInv, NEW rs \in SUBSET Requests, NEW h \in Handle, Serve(rs, h),
         \A r \in rs : request[r].pc \notin {"idle", "sync"}, UNCHANGED <<active, cron, download>>
  PROVE  HandlesOK' /\ RequestPart' /\ CleanUpIsAlone' /\ Awaited'
<1> DEFINE q == [pc |-> "use", handle |-> h, again |-> FALSE]
<1>1. /\ request \in [Requests -> RequestState]
      /\ handle \in [Handle -> {"free", "open", "unlinked", "closed"}] /\ h # 0
  BY Numbers DEF TypeInv, TypeOK, RequestsOK, HandlesOK
<1>2. q \in RequestState /\ q.pc = "use" /\ q.handle = h
  BY DEF RequestState
<1>3. request' = [r \in Requests |-> IF r \in rs THEN q ELSE request[r]]
  BY DEF Serve
<1> HIDE DEF q
<1>4. HandlesOK'
  BY <1>1 DEF Serve, HandlesOK
<1>5. RequestsOK'
  BY <1>1, <1>2, <1>3, SameBusy
<1>6. RequestHandles'
  BY <1>1, <1>2, <1>3 DEF TypeInv, RequestHandles, At
<1>7. CleanUpIsAlone'
  BY <1>2, <1>3 DEF TypeInv, CleanUpIsAlone, Busy
<1>8. Awaited'
  BY <1>2, <1>3 DEF TypeInv, Awaited, Waiting, At
<1>9. QED
  BY <1>4, <1>5, <1>6, <1>7, <1>8 DEF RequestPart

LEMMA EndPart ==
  ASSUME TypeInv, NEW rs \in SUBSET Busy, End(rs), UNCHANGED cron,
         \/ UNCHANGED download /\ \A r \in rs : ~At(r, "sync")
         \/ download'.pc = "idle"
  PROVE  RequestPart' /\ CleanUpIsAlone' /\ Awaited'
<1>1. RequestsOK' /\ \A r \in Requests : request'[r] \in {IdleRequest, request[r]}
  BY EndType
<1>2. IdleRequest.pc = "idle" /\ IdleRequest.handle = 0
  BY DEF IdleRequest
<1>3. RequestHandles'
  BY <1>1, <1>2 DEF TypeInv, RequestHandles, At
<1>4. CleanUpIsAlone'
  BY <1>1, <1>2 DEF TypeInv, CleanUpIsAlone, Busy
<1>5. Awaited'
  <2>1. CASE download'.pc = "idle"
    BY <2>1 DEF Awaited
  <2>2. CASE UNCHANGED download /\ \A r \in rs : ~At(r, "sync")
    <3>1. \A r \in Requests : At(r, "sync") => request'[r] = request[r]
      BY <2>2 DEF End
    <3>2. QED
      BY <2>2, <3>1 DEF TypeInv, Awaited, Waiting, At
  <2>3. QED
    BY <2>1, <2>2
<1>6. QED
  BY <1>1, <1>3, <1>4, <1>5 DEF RequestPart

LEMMA EndDownloadType ==
  ASSUME TypeInv, EndDownload, UNCHANGED <<active, cron>>
  PROVE  DownloadOK' /\ RequestPart' /\ CleanUpIsAlone' /\ Awaited'
<1>1. /\ request \in [Requests -> RequestState]
      /\ \A r \in Requests : request[r].pc # "use" => request[r].handle = 0
  BY DEF TypeInv, TypeOK, RequestsOK, RequestHandles, At
<1>2. NoDownload.pc = "idle" /\ DownloadOK'
  BY Contents DEF EndDownload, NoDownload, DownloadOK
<1>3. ASSUME NEW r \in Requests
      PROVE  /\ request'[r] \in RequestState
             /\ request'[r].pc = "idle" <=> request[r].pc = "idle"
             /\ request'[r].pc = "use" <=> request[r].pc = "use"
             /\ request'[r].handle = request[r].handle
  BY <1>1 DEF EndDownload, Waiting, At, Synced, RequestState
<1>4. request' \in [Requests -> RequestState]
  BY <1>3 DEF EndDownload
<1>5. RequestsOK'
  BY <1>3, <1>4, SameBusy
<1>6. RequestHandles' /\ CleanUpIsAlone'
  BY <1>3 DEF TypeInv, RequestHandles, At, CleanUpIsAlone, Busy
<1>7. Awaited'
  BY <1>2 DEF Awaited, EndDownload
<1>8. QED
  BY <1>2, <1>5, <1>6, <1>7 DEF RequestPart

LEMMA ClearLocalType ==
  ASSUME TypeInv, ClearLocal, UNCHANGED recent
  PROVE  FileOK' /\ HandlesOK' /\ sum' \in Content
  BY Contents DEF TypeInv, TypeOK, FileOK, HandlesOK, ClearLocal

LEMMA StrandType ==
  ASSUME TypeInv, Strand, UNCHANGED conn
  PROVE  HandlesOK'
  BY DEF TypeInv, TypeOK, HandlesOK, Strand

LEMMA IdleCronType == IdleCron \in CronState /\ IdleCron.pc = "idle" /\ IdleCron.mode = "upload"
  BY Contents DEF IdleCron, CronState

LEMMA UploadedType ==
  ASSUME TypeInv, Uploaded, UNCHANGED recent
  PROVE  /\ FileOK' /\ HandlesOK' /\ CronOK' /\ CleanUpIsAlone'
         /\ \A s \in Content : ClearedSum(s) \in Content
<1>1. CronOK' /\ CleanUpIsAlone'
  BY IdleCronType DEF Uploaded, CronOK, CleanUpIsAlone
<1>2. cron.mode \in {"upload", "close", "clean"}
  BY DEF TypeInv, TypeOK, CronOK, CronState
<1>6. \A s \in Content : ClearedSum(s) \in Content
  BY Contents DEF ClearedSum
<1>3. CASE cron.mode = "upload"
  <2>1. UNCHANGED <<file, tracked, conn, handle>>
    BY <1>3 DEF Uploaded
  <2>2. FileOK' /\ HandlesOK'
    BY <2>1, Frame
  <2>3. QED
    BY <1>1, <1>6, <2>2
<1>4. CASE cron.mode = "close"
  <2>1. conn' = 0 /\ Drop(cron.handle, "closed") /\ UNCHANGED <<file, tracked>>
    BY <1>4 DEF Uploaded
  <2>2. FileOK'
    BY <2>1, Frame
  <2>3. HandlesOK'
    BY <2>1 DEF Drop, TypeInv, TypeOK, HandlesOK
  <2>4. QED
    BY <1>1, <1>6, <2>2, <2>3
<1>5. CASE cron.mode = "clean"
  <2>1. file' = Absent /\ tracked' = FALSE /\ Strand /\ UNCHANGED conn
    BY <1>5 DEF Uploaded
  <2>2. FileOK'
    BY <2>1, Contents DEF TypeInv, TypeOK, FileOK
  <2>3. HandlesOK'
    BY <2>1, StrandType
  <2>4. QED
    BY <1>1, <1>6, <2>2, <2>3
<1>7. QED
  BY <1>2, <1>3, <1>4, <1>5

-----------------------------------------------------------------------------
(* Type correctness, action by action. *)

LEMMA RequestStart ==
  ASSUME CleanupAlone, TypeInv, NEW r \in Requests, Begin(r) \/ Finish(r)
  PROVE  AllTypes'
<1>1. request \in [Requests -> RequestState] /\ request[r] \in RequestState
  BY DEF TypeInv, TypeOK, RequestsOK
<1>2. CASE Begin(r)
  <2> DEFINE q == [request[r] EXCEPT !.pc = "sync"]
  <2>1. request[r].pc = "idle" /\ request[r].handle = 0 /\ cron.mode = "upload"
    BY <1>2 DEF Begin, At, TypeInv, RequestHandles
  <2>2. request' = [request EXCEPT ![r] = q] /\ q \in RequestState /\ q.pc = "sync" /\ q.handle = 0
    BY <1>1, <1>2, <2>1 DEF Begin, Go, RequestState
  <2> HIDE DEF q
  <2>3. RequestsOK'
    BY <1>1, <1>2, <2>1, <2>2, OneMoreBusy DEF Begin
  <2>4. RequestHandles'
    BY <1>1, <2>2 DEF TypeInv, RequestHandles, At
  <2>5. CleanUpIsAlone'
    BY <1>2, <2>1 DEF CleanUpIsAlone, Begin
  <2>6. Awaited'
    BY <1>1, <1>2, <2>2 DEF TypeInv, Awaited, Waiting, At, Begin
  <2>7. QED
    BY <1>2, <2>3, <2>4, <2>5, <2>6, Frame DEF Begin, local, backup, AllTypes, RequestPart
<1>3. CASE Finish(r)
  <2>1. RequestPart' /\ CleanUpIsAlone' /\ Awaited'
    BY <1>3, EndPart DEF Finish, Busy, At
  <2>2. QED
    BY <1>3, <2>1, Frame DEF Finish, local, backup, AllTypes
<1>4. QED
  BY <1>2, <1>3

LEMMA RequestMoves ==
  ASSUME TypeInv, NEW r \in Requests,
         Sync(r) \/ Recover(r) \/ Clear(r) \/ NoBackup(r) \/ BadBackup(r) \/ Purge(r)
  PROVE  AllTypes'
<1>1. request \in [Requests -> RequestState] /\ request[r] \in RequestState
  BY DEF TypeInv, TypeOK, RequestsOK
<1>2. CASE Sync(r)
  <2>1. CASE file # Absent
    <3>1. Go(r, "open") \/ Go(r, "check")
      BY <1>2, <2>1 DEF Sync, Synced
    <3>2. RequestPart' /\ CleanUpIsAlone' /\ Awaited'
      BY <1>2, <2>1, <3>1, GoType DEF Sync, At
    <3>3. FileOK'
      BY <1>2, <2>1 DEF Sync, TypeInv, TypeOK, FileOK
    <3>4. QED
      BY <1>2, <2>1, <3>2, <3>3, Frame DEF Sync, backup, AllTypes
  <2>2. CASE file = Absent
    <3>1. DownloadOK' /\ UNCHANGED <<file, tracked, recent, request>>
      BY <1>2, <2>2 DEF Sync, TypeInv, TypeOK, DownloadOK
    <3>2. Awaited'
      BY <1>2, <3>1 DEF Awaited, Waiting, Sync, At
    <3>3. QED
      BY <1>2, <3>1, <3>2, Frame DEF Sync, backup, AllTypes
  <2>3. QED
    BY <2>1, <2>2
<1>3. CASE Recover(r)
  <2>1. Go(r, "await") \/ Go(r, "clear")
    BY <1>3 DEF Recover
  <2>2. RequestPart' /\ CleanUpIsAlone' /\ Awaited'
    BY <1>3, <2>1, GoType DEF Recover, At
  <2>3. QED
    BY <1>3, <2>2, Frame DEF Recover, local, backup, AllTypes
<1>4. BackupOK /\ Absent \in Content
  BY Contents DEF TypeInv, TypeOK
<1>5. CASE Clear(r)
  <2> DEFINE q == [request[r] EXCEPT !.pc = "sync", !.again = TRUE]
  <2>1. q \in RequestState /\ q.pc = "sync" /\ q.handle = 0 /\ request' = [request EXCEPT ![r] = q]
    BY <1>1, <1>5 DEF RequestState, Clear, At, TypeInv, RequestHandles
  <2> HIDE DEF q
  <2>2. RequestPart' /\ CleanUpIsAlone' /\ Awaited'
    BY <1>5, <2>1, MoveType DEF Clear, At
  <2>3. FileOK' /\ HandlesOK' /\ BackupOK'
    BY <1>4, <1>5, ClearLocalType DEF Clear, BackupOK, backup
  <2>4. QED
    BY <1>5, <2>2, <2>3, Frame DEF Clear, backup, AllTypes
<1>6. CASE NoBackup(r)
  BY <1>6, GoType, Frame DEF NoBackup, At, local, backup, AllTypes
<1>7. CASE BadBackup(r)
  <2>1. RequestPart' /\ CleanUpIsAlone' /\ Awaited'
    BY <1>7, GoType DEF BadBackup, At
  <2>2. FileOK' /\ HandlesOK' /\ BackupOK'
    BY <1>4, <1>7, ClearLocalType DEF BadBackup, BackupOK, backup
  <2>3. QED
    BY <1>7, <2>1, <2>2, Frame DEF BadBackup, backup, AllTypes
<1>8. CASE Purge(r)
  <2>1. RequestPart' /\ CleanUpIsAlone' /\ Awaited'
    BY <1>8, GoType DEF Purge, At
  <2>2. FileOK' /\ HandlesOK' /\ BackupOK'
    <3>1. CASE UNCHANGED <<redacted, row, file, tracked, conn, handle, sum>>
      BY <1>8, <3>1, Frame DEF Purge
    <3>2. CASE /\ pointer # 0 /\ redacted' = redacted \cup {pointer}
               /\ row' = [event |-> 0, sum |-> Absent] /\ ClearLocal
      BY <1>4, <1>8, <3>2, ClearLocalType DEF Purge, BackupOK
    <3>3. QED
      BY <1>8, <3>1, <3>2 DEF Purge
  <2>3. QED
    BY <1>8, <2>1, <2>2, Frame DEF Purge, AllTypes
<1>9. QED
  BY <1>2, <1>3, <1>5, <1>6, <1>7, <1>8

LEMMA RequestServed ==
  ASSUME TypeInv, NEW r \in Requests,
         UseCached(r) \/ Open(r) \/ Recovered(r) \/ Fresh(r) \/ Commit(r)
  PROVE  AllTypes'
<1>1. /\ request \in [Requests -> RequestState] /\ request[r] \in RequestState
      /\ FileOK /\ HistoryOK
  BY DEF TypeInv, TypeOK, RequestsOK
<1>2. CASE UseCached(r)
  <2> DEFINE q == [request[r] EXCEPT !.pc = "use", !.handle = conn]
  <2>1. conn # 0 /\ conn \in Handle /\ request' = [request EXCEPT ![r] = q]
    BY <1>2 DEF UseCached, TypeInv, TypeOK, HandlesOK
  <2>2. q \in RequestState /\ q.pc = "use" /\ q.handle = conn
    BY <1>1, <2>1 DEF RequestState
  <2> HIDE DEF q
  <2>3. RequestPart' /\ CleanUpIsAlone' /\ Awaited'
    BY <1>2, <2>1, <2>2, MoveType DEF UseCached, At
  <2>4. FileOK'
    BY <1>1, <1>2 DEF UseCached, FileOK
  <2>5. QED
    BY <1>2, <2>3, <2>4, Frame DEF UseCached, backup, AllTypes
<1>3. ~At(r, "use") => Unused \in Handle
  BY AHandleIsUnused
<1>4. CASE Open(r)
  <2>1. HandlesOK' /\ RequestPart' /\ CleanUpIsAlone' /\ Awaited'
    BY <1>3, <1>4, ServeType DEF Open, At
  <2>2. QED
    BY <1>4, <2>1, Frame DEF Open, backup, AllTypes
<1>5. CASE Recovered(r)
  <2>1. HandlesOK' /\ RequestPart' /\ CleanUpIsAlone' /\ Awaited'
    BY <1>3, <1>5, ServeType DEF Recovered, At, Awaiting
  <2>2. QED
    BY <1>5, <2>1, Frame DEF Recovered, backup, AllTypes
<1>6. CASE Fresh(r)
  <2>1. HandlesOK' /\ RequestPart' /\ CleanUpIsAlone' /\ Awaited'
    BY <1>3, <1>6, ServeType DEF Fresh, At, Awaiting
  <2>2. FileOK'
    BY <1>1, <1>6, Contents DEF Fresh, FileOK
  <2>3. QED
    BY <1>6, <2>1, <2>2, Frame DEF Fresh, backup, AllTypes
<1>7. CASE Commit(r)
  <2>1. PICK w \in Write : committed' = committed \cup {w} /\ file' = Good(file.data \cup {w})
    BY <1>7 DEF Commit
  <2>2. file.data \cup {w} \in SUBSET Write
    BY <1>1, Contents DEF FileOK
  <2>3. FileOK' /\ HistoryOK'
    BY <1>1, <1>7, <2>1, <2>2, Contents DEF Commit, FileOK, HistoryOK
  <2>4. QED
    BY <1>7, <2>3, Frame DEF Commit, backup, AllTypes
<1>8. QED
  BY <1>2, <1>4, <1>5, <1>6, <1>7

LEMMA DownloadMoves ==
  ASSUME TypeInv, DownloadStep
  PROVE  AllTypes'
<1>1. /\ DownloadOK /\ FileOK /\ BackupOK /\ NoDownload.pc = "idle"
      /\ Waiting \subseteq Busy /\ {s \in Requests : At(s, "await")} \subseteq Busy
  BY DEF TypeInv, TypeOK, NoDownload, Waiting, Busy, At
<1>2. CASE LoadNothing
  BY <1>2, EndDownloadType, Frame DEF LoadNothing, local, backup, AllTypes
<1>3. CASE LoadContent
  <2>1. PICK c \in Loaded \ {Absent} : download' = [pc |-> "store", got |-> c]
    BY <1>3 DEF LoadContent
  <2>2. c \in Content
    BY <1>1, <2>1, Contents DEF Loaded, Source, BackupOK
  <2>3. DownloadOK'
    BY <2>1, <2>2 DEF DownloadOK
  <2>4. Awaited'
    BY <1>3 DEF LoadContent, TypeInv, Awaited, Waiting, At
  <2>5. QED
    BY <1>3, <2>3, <2>4, Frame DEF LoadContent, local, backup, AllTypes
<1>4. CASE Store
  <2>1. FileOK' /\ HandlesOK'
    BY <1>1, <1>4, StrandType DEF Store, DownloadOK, FileOK
  <2>2. QED
    BY <1>4, <2>1, EndDownloadType, Frame DEF Store, backup, AllTypes
<1>5. CASE LoadFails
  <2>1. Failing \in SUBSET Busy
    BY <1>1 DEF Failing
  <2>2. End(Failing) /\ download' = NoDownload /\ UNCHANGED cron
    BY <1>5 DEF LoadFails, Failed
  <2>3. RequestPart' /\ CleanUpIsAlone' /\ Awaited'
    BY <1>1, <2>1, <2>2, EndPart
  <2>4. DownloadOK'
    BY <2>2, Contents DEF DownloadOK, NoDownload
  <2>5. recovering' \in BOOLEAN
    BY <1>5 DEF LoadFails, Failed
  <2>6. QED
    BY <1>5, <2>3, <2>4, <2>5, Frame DEF LoadFails, local, backup, AllTypes
<1>6. QED
  BY <1>2, <1>3, <1>4, <1>5 DEF DownloadStep

LEMMA EventsGrow ==
  ASSUME TypeInv, NEW c \in Content, NewEvent \in Event, media' = [media EXCEPT ![NewEvent] = c]
  PROVE  /\ media[NewEvent] = Absent /\ media' \in [Event -> Content]
         /\ EventsInOrder'
<1>1. PICK k \in 0..MaxEvents : Posted = 1..k
  BY DEF TypeInv, EventsInOrder
<1>2. Cardinality(1..k) = k /\ k \in Nat
  BY FS_Interval, Numbers
<1>3. NewEvent = k + 1
  BY <1>1, <1>2 DEF NewEvent, Posted
<1>4. k + 1 \notin Posted /\ media[NewEvent] = Absent
  BY <1>1, <1>2, <1>3 DEF Posted
<1>5. media \in [Event -> Content]
  BY DEF TypeInv, TypeOK, BackupOK
<1>6. k + 1 \in 0..MaxEvents /\ (1..k) \cup {k + 1} = 1..(k + 1)
  BY <1>2, <1>3, Numbers DEF Event
<1>7. CASE c = Absent
  <2>1. Posted' = 1..k
    BY <1>1, <1>3, <1>4, <1>5, <1>7 DEF Posted
  <2>2. QED
    BY <1>1, <1>4, <1>5, <2>1 DEF EventsInOrder
<1>8. CASE c # Absent
  <2>1. Posted' = Posted \cup {k + 1}
    BY <1>3, <1>5, <1>8 DEF Posted
  <2>2. QED
    BY <1>1, <1>4, <1>5, <1>6, <2>1 DEF EventsInOrder
<1>9. QED
  BY <1>7, <1>8

LEMMA CronMoves ==
  ASSUME TypeInv, CronStep
  PROVE  AllTypes'
<1>1. /\ cron \in CronState /\ IdleCron \in CronState /\ IdleCron.mode = "upload"
      /\ BackupOK /\ HandlesOK /\ FileOK
  BY IdleCronType DEF TypeInv, TypeOK, CronOK
<1>2. ASSUME NEW pc \in {"check", "sum", "read", "post", "point", "redact", "save"},
             NEW c \in CronState, cron' = [c EXCEPT !.pc = pc]
      PROVE  CronOK' /\ cron'.mode = c.mode
  BY <1>2 DEF CronOK, CronState
<1>3. ASSUME UNCHANGED request, cron'.mode \in {"upload", cron.mode}
      PROVE  CleanUpIsAlone'
  BY <1>3 DEF TypeInv, CleanUpIsAlone, Busy
<1>4. CASE StartUpload
  BY <1>1, <1>2, <1>3, <1>4, Frame DEF StartUpload, GoC, local, backup, AllTypes
<1>5. ASSUME NEW mode \in {"close", "clean"}, StartCleanUp(mode)
      PROVE  AllTypes'
  <2>1. cron' \in CronState
    BY <1>1, <1>5 DEF StartCleanUp, CronState, HandlesOK
  <2>2. CleanUpIsAlone'
    BY <1>5, BusyIsFinite DEF StartCleanUp, Inactive, CleanUpIsAlone, Busy
  <2>3. QED
    BY <1>5, <2>1, <2>2, Frame DEF StartCleanUp, local, backup, AllTypes, CronOK
<1>6. CASE SkipUpload
  <2>1. FileOK' /\ HandlesOK' /\ CronOK' /\ CleanUpIsAlone' /\ sum' \in Content
    BY <1>1, <1>6, UploadedType DEF SkipUpload, BackupOK
  <2>2. BackupOK'
    BY <1>1, <1>6, <2>1 DEF SkipUpload, BackupOK, backup
  <2>3. QED
    BY <1>6, <2>1, <2>2, Frame DEF SkipUpload, backup, AllTypes
<1>7. CASE CloseCached
  <2>1. HandlesOK'
    BY <1>1, <1>7 DEF CloseCached, HandlesOK
  <2>2. QED
    BY <1>1, <1>2, <1>3, <1>7, <2>1, Frame DEF CloseCached, GoC, backup, AllTypes
<1>8. CASE ComputeChecksum
  <2>1. CASE Unchanged
    <3>1. FileOK' /\ HandlesOK' /\ CronOK' /\ CleanUpIsAlone' /\ sum' \in Content
      BY <1>1, <1>8, <2>1, UploadedType DEF ComputeChecksum, BackupOK
    <3>2. BackupOK'
      BY <1>1, <1>8, <3>1 DEF ComputeChecksum, BackupOK, backup
    <3>3. QED
      BY <1>8, <3>1, <3>2, Frame DEF ComputeChecksum, backup, AllTypes
  <2>2. CASE ~Unchanged
    <3>1. CronOK' /\ cron'.mode = cron.mode
      BY <1>1, <1>8, <2>2 DEF ComputeChecksum, CronOK, CronState, FileOK
    <3>2. QED
      BY <1>3, <1>8, <2>2, <3>1, Frame DEF ComputeChecksum, backup, AllTypes
  <2>3. QED
    BY <2>1, <2>2
<1>9. CASE ReadFile
  <2>1. CronOK' /\ cron'.mode = cron.mode
    BY <1>1, <1>9 DEF ReadFile, CronOK, CronState, FileOK
  <2>2. QED
    BY <1>3, <1>9, <2>1, Frame DEF ReadFile, local, backup, AllTypes
<1>10. CASE Post
  <2>1. CronOK' /\ cron'.mode = cron.mode
    BY <1>1, <1>10 DEF Post, CronOK, CronState, BackupOK
  <2>2. cron.got \in Content
    BY <1>1 DEF CronState
  <2>3. EventsInOrder' /\ media' \in [Event -> Content]
    BY <1>10, <2>2, EventsGrow DEF Post
  <2>4. BackupOK'
    BY <1>1, <1>10, <2>3 DEF Post, BackupOK
  <2>5. QED
    BY <1>3, <1>10, <2>1, <2>3, <2>4, Frame DEF Post, local, AllTypes
<1>11. CASE Point
  <2>1. BackupOK'
    BY <1>1, <1>11 DEF Point, BackupOK, CronState
  <2>2. QED
    BY <1>1, <1>2, <1>3, <1>11, <2>1, Frame DEF Point, GoC, local, AllTypes
<1>12. CASE Redact
  <2>1. BackupOK'
    BY <1>1, <1>12 DEF Redact, BackupOK, CronState
  <2>2. QED
    BY <1>1, <1>2, <1>3, <1>12, <2>1, Frame DEF Redact, GoC, local, AllTypes
<1>13. CASE SaveEvent
  <2>1. cron.sum \in Content /\ cron.new \in {0} \cup Event
    BY <1>1 DEF CronState
  <2>2. FileOK' /\ HandlesOK' /\ CronOK' /\ CleanUpIsAlone' /\ sum' \in Content
    BY <1>13, <2>1, UploadedType DEF SaveEvent
  <2>3. BackupOK'
    BY <1>1, <1>13, <2>1, <2>2 DEF SaveEvent, BackupOK, backup
  <2>4. QED
    BY <1>13, <2>2, <2>3, Frame DEF SaveEvent, backup, AllTypes
<1>14. CASE FailUpload
  BY <1>1, <1>3, <1>14, Frame DEF FailUpload, local, backup, AllTypes, CronOK
<1>15. QED
  BY <1>4, <1>5, <1>6, <1>7, <1>8, <1>9, <1>10, <1>11, <1>12, <1>13, <1>14 DEF CronStep

LEMMA OtherMoves ==
  ASSUME TypeInv, Age \/ Damage \/ Crash
  PROVE  AllTypes'
<1>1. FileOK /\ HistoryOK /\ BackupOK
  BY DEF TypeInv, TypeOK
<1>2. CASE Age
  <2>1. FileOK'
    BY <1>1, <1>2 DEF Age, FileOK
  <2>2. QED
    BY <1>2, <2>1, Frame DEF Age, backup, AllTypes
<1>3. CASE Damage
  <2>1. FileOK' /\ HistoryOK'
    BY <1>1, <1>3, Contents DEF Damage, FileOK, HistoryOK
  <2>2. QED
    BY <1>3, <2>1, Frame DEF Damage, backup, AllTypes
<1>4. CASE Crash
  <2>1. IdleRequest \in RequestState /\ IdleRequest.pc = "idle" /\ IdleRequest.handle = 0
    BY DEF IdleRequest, RequestState
  <2>2. /\ request' = [r \in Requests |-> IdleRequest] /\ active' = 0 /\ cron' = IdleCron
        /\ download' = NoDownload /\ conn' = 0 /\ handle' = [h \in Handle |-> "free"]
        /\ recovering' = FALSE
    BY <1>4 DEF Crash
  <2>3. Busy' = {}
    BY <2>1, <2>2 DEF Busy
  <2>4. RequestPart'
    BY <2>1, <2>2, <2>3, FS_EmptySet DEF RequestPart, RequestsOK, RequestHandles, At
  <2>5. CronOK' /\ CleanUpIsAlone'
    BY <2>2, <2>3, IdleCronType DEF CronOK, CleanUpIsAlone
  <2>6. DownloadOK' /\ Awaited'
    BY <2>2, Contents DEF NoDownload, DownloadOK, Awaited
  <2>7. HandlesOK' /\ recovering' \in BOOLEAN
    BY <2>2 DEF HandlesOK
  <2>8. FileOK'
    BY <1>1, <1>4 DEF Crash, FileOK
  <2>9. BackupOK'
    BY <1>1, <1>4 DEF Crash, BackupOK, backup
  <2>10. HistoryOK'
    BY <1>1, <1>4, Numbers DEF Crash, HistoryOK
  <2>11. EventsInOrder'
    BY <1>4, Frame DEF Crash, backup
  <2>12. QED
    BY <2>4, <2>5, <2>6, <2>7, <2>8, <2>9, <2>10, <2>11 DEF AllTypes
<1>5. QED
  BY <1>2, <1>3, <1>4

LEMMA InitType == Init => TypeInv
<1> SUFFICES ASSUME Init PROVE AllTypes
  BY Parts
<1>1. IdleRequest \in RequestState /\ IdleRequest.pc = "idle" /\ IdleRequest.handle = 0
  BY DEF IdleRequest, RequestState
<1>2. Busy = {}
  BY <1>1 DEF Init, Busy
<1>3. RequestPart
  BY <1>1, <1>2, FS_EmptySet DEF Init, RequestPart, RequestsOK, RequestHandles, At
<1>4. CronOK /\ CleanUpIsAlone
  BY <1>2, IdleCronType DEF Init, CronOK, CleanUpIsAlone
<1>5. FileOK /\ HandlesOK /\ DownloadOK /\ Awaited /\ recovering \in BOOLEAN
  BY Contents DEF Init, FileOK, HandlesOK, DownloadOK, NoDownload, Awaited
<1>6. BackupOK
  BY Contents DEF Init, BackupOK
<1>7. HistoryOK
  <2>1. 0 \in 0..MaxCrashes
    BY Numbers
  <2>2. QED
    BY <2>1 DEF Init, HistoryOK
<1>8. EventsInOrder
  <2>1. Posted = 1..0 /\ 0 \in 0..MaxEvents
    BY Numbers DEF Init, Posted
  <2>2. QED
    BY <2>1 DEF EventsInOrder
<1>9. QED
  BY <1>3, <1>4, <1>5, <1>6, <1>7, <1>8 DEF AllTypes

LEMMA TypeStep ==
  ASSUME CleanupAlone, TypeInv, [Next]_vars
  PROVE  TypeInv'
<1>1. SUFFICES AllTypes'
  BY DEF TypeInv, TypeOK, AllTypes, RequestPart
<1>2. CASE UNCHANGED vars
  BY <1>2, Frame DEF vars, local, backup, AllTypes
<1>3. ASSUME NEW r \in Requests, RequestStep(r)
      PROVE  AllTypes'
  BY <1>3, RequestStart, RequestMoves, RequestServed DEF RequestStep
<1>4. QED
  BY <1>2, <1>3, DownloadMoves, CronMoves, OtherMoves DEF Next

-----------------------------------------------------------------------------
(* As long as the file was not damaged. *)

Empty == row.event = 0 /\ pointer = 0
Recovers(q) == q.pc \in {"clear", "check", "purge", "fresh"} \/ (q.pc = "sync" /\ q.again)
Rec(r) == Recovers(request[r])
Uploading == {"post", "point", "redact", "save"}

NoneCorrupt ==
  file # Corrupt /\ download.got # Corrupt /\ cron.got # Corrupt /\ \A e \in Event : media[e] # Corrupt

(* The clean-up deletes a file that nobody uses. *)
AbsentIsUnused == file = Absent =>
  /\ cron.pc = "idle" /\ ~tracked /\ conn = 0
  /\ \A h \in Handle : handle[h] # "open"
  /\ \A r \in Requests : ~At(r, "use")

HandlesOpen ==
  /\ conn # 0 => handle[conn] = "open"
  /\ \A r \in Requests : At(r, "use") => handle[request[r].handle] = "open"

(* Who recovers is alone, and finds neither a file nor a backup. *)
OneRecovers ==
  /\ \A r \in Requests : Rec(r) => recovering
  /\ \A r, s \in Requests : Rec(r) /\ Rec(s) => r = s
  /\ \A r \in Requests : At(r, "idle") => ~request[r].again
RecoverEmpty == \A r \in Requests :
  Rec(r) \/ At(r, "await") \/ (At(r, "open") /\ file = Absent) => file = Absent /\ Empty

(* A download brings the backup, or finds that there is none. *)
Downloads ==
  /\ download.pc = "store" => file = Absent /\ ~Empty /\ download.got = media[Source]
  /\ download.pc = "load" /\ file # Absent => conn # 0 /\ cron.pc \in {"idle", "check"} /\ Empty

(* What was accepted is in the file, or else in the backup. *)
Kept ==
  /\ file # Absent => committed \subseteq file.data
  /\ file = Absent /\ Source # 0 => committed \subseteq media[Source].data
  /\ file = Absent /\ Source = 0 => committed = {}

(* The clean-up deletes what it has uploaded. *)
CleanUp == cron.mode = "clean" =>
  /\ cron.pc \notin {"idle", "check"} => conn = 0
  /\ cron.pc \in Uploading => cron.got = file

Upload ==
  /\ cron.pc = "read" => cron.sum.data \subseteq file.data
  /\ cron.pc \in Uploading => cron.got # Absent /\ cron.sum.data \subseteq cron.got.data
  /\ cron.pc \in {"point", "redact", "save"} =>
       cron.new # 0 /\ media[cron.new] = cron.got /\ cron.new \notin redacted /\ cron.new # cron.old
  /\ cron.pc = "point" => cron.old = pointer
  /\ cron.pc \in {"redact", "save"} => cron.new = pointer

Events ==
  /\ redacted \subseteq Posted
  /\ pointer # 0 => pointer \in Posted \ redacted
  /\ row.event # 0 => row.event \in Posted
  /\ row.event # 0 /\ cron.pc # "save" => row.event \notin redacted
  /\ cron.old \in {0} \cup Posted

(* A checksum stands for a backup. *)
Sums == cron.pc # "save" => \A s \in {sum, row.sum} : s # Absent =>
  row.event # 0 /\ s.data \subseteq media[row.event].data

Safe ==
  /\ NoneCorrupt /\ AbsentIsUnused /\ HandlesOpen /\ OneRecovers /\ RecoverEmpty
  /\ Downloads /\ Kept /\ CleanUp /\ Upload /\ Events /\ Sums
Inv == TypeInv /\ (~damaged => Safe)

(* What every step needs of it. *)
LEMMA Facts ==
  ASSUME TypeInv, Safe
  PROVE  /\ file \in Content /\ (file.kind = "good" <=> file # Absent)
         /\ cron.pc # "idle" \/ tracked \/ conn # 0 => file # Absent
         /\ \A r \in Requests : At(r, "use") => file # Absent
         /\ cron.pc \notin {"idle", "check"} => download.pc = "idle"
         /\ Busy # {} => cron.mode = "upload"
         /\ file = Absent => Source \notin redacted /\ (Source = 0 <=> Empty)
         /\ Source # 0 => Source \in Posted
         /\ file = Absent /\ Empty => sum = Absent /\ row.sum = Absent /\ committed = {}
<1>1. /\ file \in Content /\ download.pc \in {"idle", "load", "store"}
      /\ cron.mode \in {"upload", "close", "clean"}
  BY DEF TypeInv, TypeOK, FileOK, DownloadOK, CronOK, CronState
<1>2. file.kind = "good" <=> file # Absent
  BY <1>1, Contents DEF Safe, NoneCorrupt
<1>3. /\ cron.pc # "idle" \/ tracked \/ conn # 0 => file # Absent
      /\ \A r \in Requests : At(r, "use") => file # Absent
  BY DEF Safe, AbsentIsUnused
<1>4. cron.pc \notin {"idle", "check"} => download.pc = "idle"
  BY <1>1, <1>3 DEF Safe, Downloads
<1>5. Busy # {} => cron.mode = "upload"
  BY DEF TypeInv, CleanUpIsAlone
<1>6. Source = 0 <=> Empty
  BY DEF Source, Empty
<1>7. file = Absent => Source \notin redacted
  <2>1. file = Absent => cron.pc # "save"
    BY <1>3
  <2>2. 0 \notin redacted
    BY Numbers DEF Safe, Events, Posted
  <2>3. QED
    BY <2>1, <2>2 DEF Source, Safe, Events
<1>8. Source # 0 => Source \in Posted
  BY DEF Source, Safe, Events
<1>9. file = Absent /\ Empty => sum = Absent /\ row.sum = Absent /\ committed = {}
  <2>1. ASSUME file = Absent, Empty
        PROVE  sum = Absent /\ row.sum = Absent
    BY <1>3, <2>1 DEF Safe, Sums, Empty
  <2>2. QED
    BY <1>6, <2>1 DEF Safe, Kept
<1>10. QED
  BY <1>1, <1>2, <1>3, <1>4, <1>5, <1>6, <1>7, <1>8, <1>9

LEMMA SafeFrame ==
  ASSUME TypeInv, Safe
  PROVE  /\ UNCHANGED <<file, download, cron, media>> => NoneCorrupt'
         /\ UNCHANGED <<file, cron, tracked, conn, handle, request>> => AbsentIsUnused'
         /\ UNCHANGED <<conn, handle, request>> => HandlesOpen'
         /\ UNCHANGED <<request, recovering>> => OneRecovers'
         /\ UNCHANGED <<request, file, row, pointer>> => RecoverEmpty'
         /\ UNCHANGED <<download, file, row, pointer, media, conn, cron>> => Downloads'
         /\ UNCHANGED <<file, row, pointer, media, committed>> => Kept'
         /\ UNCHANGED <<cron, conn, file>> => CleanUp'
         /\ UNCHANGED <<cron, file, media, redacted, pointer>> => Upload'
         /\ UNCHANGED <<redacted, media, pointer, row, cron>> => Events'
         /\ UNCHANGED <<cron, sum, row, media>> => Sums'
<1>1. /\ UNCHANGED <<file, download, cron, media>> => NoneCorrupt'
      /\ UNCHANGED <<file, cron, tracked, conn, handle, request>> => AbsentIsUnused'
      /\ UNCHANGED <<conn, handle, request>> => HandlesOpen'
  BY DEF Safe, NoneCorrupt, AbsentIsUnused, HandlesOpen, At
<1>2. /\ UNCHANGED <<request, recovering>> => OneRecovers'
      /\ UNCHANGED <<request, file, row, pointer>> => RecoverEmpty'
  BY DEF Safe, OneRecovers, RecoverEmpty, Rec, Recovers, At, Empty
<1>3. /\ UNCHANGED <<download, file, row, pointer, media, conn, cron>> => Downloads'
      /\ UNCHANGED <<file, row, pointer, media, committed>> => Kept'
  BY DEF Safe, Downloads, Kept, Source, Empty
<1>4. /\ UNCHANGED <<cron, conn, file>> => CleanUp'
      /\ UNCHANGED <<cron, file, media, redacted, pointer>> => Upload'
  BY DEF Safe, CleanUp, Upload
<1>5. /\ UNCHANGED <<redacted, media, pointer, row, cron>> => Events'
      /\ UNCHANGED <<cron, sum, row, media>> => Sums'
  BY DEF Safe, Events, Sums, Posted
<1>6. QED
  BY <1>1, <1>2, <1>3, <1>4, <1>5

(* One request moves on. *)
LEMMA MoveSafe ==
  ASSUME TypeInv, Safe, NEW r \in Requests, NEW q, request' = [request EXCEPT ![r] = q],
         UNCHANGED <<file, cron, conn, handle, row, pointer>>,
         file = Absent => UNCHANGED tracked,
         q.pc = "use" => file # Absent /\ handle[q.handle] = "open",
         Recovers(q) \/ q.pc = "await" \/ (q.pc = "open" /\ file = Absent) => file = Absent /\ Empty,
         Recovers(q) => recovering' /\ (Rec(r) \/ ~recovering), recovering => recovering',
         q.pc = "idle" => ~q.again
  PROVE  AbsentIsUnused' /\ HandlesOpen' /\ OneRecovers' /\ RecoverEmpty'
<1>1. request \in [Requests -> RequestState]
  BY DEF TypeInv, TypeOK, RequestsOK
<1>2. \A s \in Requests : request'[s] = IF s = r THEN q ELSE request[s]
  BY <1>1
<1>3. AbsentIsUnused'
  BY <1>2 DEF Safe, AbsentIsUnused, At
<1>4. HandlesOpen'
  BY <1>2 DEF Safe, HandlesOpen, At
<1>5. OneRecovers'
  BY <1>2 DEF Safe, OneRecovers, Rec, Recovers, At
<1>6. RecoverEmpty'
  BY <1>2 DEF Safe, RecoverEmpty, Rec, Recovers, At, Empty
<1>7. QED
  BY <1>3, <1>4, <1>5, <1>6

(* During a recovery there is nothing to clear. *)
LEMMA NothingToClear ==
  ASSUME TypeInv, Safe, file = Absent, Empty, ClearLocal
  PROVE  UNCHANGED <<file, tracked, conn, handle, sum>> /\ row.sum = Absent
<1>1. conn = 0 /\ ~tracked /\ tracked \in BOOLEAN /\ \A h \in Handle : handle[h] # "open"
  BY DEF Safe, AbsentIsUnused, TypeInv, TypeOK, FileOK
<1>2. sum = Absent /\ row.sum = Absent
  BY Facts
<1>3. handle \in [Handle -> {"free", "open", "unlinked", "closed"}]
  BY DEF TypeInv, TypeOK, HandlesOK
<1>4. handle' = handle
  BY <1>1, <1>3, Numbers DEF ClearLocal
<1>5. QED
  BY <1>1, <1>2, <1>4 DEF ClearLocal

LEMMA RequestMovesSafe ==
  ASSUME TypeInv, Safe, NEW r \in Requests,
         Begin(r) \/ Sync(r) \/ UseCached(r) \/ Recover(r) \/ Clear(r) \/ NoBackup(r)
  PROVE  Safe'
<1>1. request \in [Requests -> RequestState] /\ request[r] \in RequestState
  BY DEF TypeInv, TypeOK, RequestsOK
<1>2. CASE Begin(r)
  <2> DEFINE q == [request[r] EXCEPT !.pc = "sync"]
  <2>1. request' = [request EXCEPT ![r] = q] /\ q.pc = "sync" /\ q.again = request[r].again
    BY <1>1, <1>2 DEF Begin, Go, RequestState
  <2>2. ~request[r].again
    BY <1>2 DEF Begin, Safe, OneRecovers
  <2> HIDE DEF q
  <2>3. AbsentIsUnused' /\ HandlesOpen' /\ OneRecovers' /\ RecoverEmpty'
    BY <1>2, <2>1, <2>2, MoveSafe DEF Begin, local, backup, Recovers
  <2>4. QED
    BY <1>2, <2>3, SafeFrame DEF Begin, local, backup, Safe
<1>3. CASE Sync(r)
  <2>1. CASE file # Absent
    <3> DEFINE q == [request[r] EXCEPT !.pc = "open"]
    <3>1. ~request[r].again
      BY <1>3, <2>1 DEF Sync, At, Safe, RecoverEmpty, Rec, Recovers
    <3>2. request' = [request EXCEPT ![r] = q] /\ q.pc = "open"
      BY <1>1, <1>3, <2>1, <3>1 DEF Sync, Go, Synced, RequestState
    <3> HIDE DEF q
    <3>3. AbsentIsUnused' /\ HandlesOpen' /\ OneRecovers' /\ RecoverEmpty'
      BY <1>3, <2>1, <3>2, MoveSafe DEF Sync, backup, Recovers
    <3>4. QED
      BY <1>3, <2>1, <3>3, SafeFrame DEF Sync, backup, Safe
  <2>2. CASE file = Absent
    <3>1. /\ download' = [download EXCEPT !.pc = "load"] /\ download \in [pc : {"idle", "load", "store"}, got : Content]
          /\ UNCHANGED <<file, tracked, recent, request>>
      BY <1>3, <2>2 DEF Sync, TypeInv, TypeOK, DownloadOK
    <3>2. download'.pc = "load" /\ download'.got = download.got
      BY <3>1
    <3>3. NoneCorrupt'
      BY <1>3, <3>1, <3>2 DEF Sync, Safe, NoneCorrupt, backup
    <3>4. Downloads'
      BY <2>2, <3>1, <3>2 DEF Downloads
    <3>5. QED
      BY <1>3, <3>1, <3>3, <3>4, SafeFrame DEF Sync, backup, Safe
  <2>3. QED
    BY <2>1, <2>2
<1>4. CASE UseCached(r)
  <2> DEFINE q == [request[r] EXCEPT !.pc = "use", !.handle = conn]
  <2>1. request' = [request EXCEPT ![r] = q] /\ q.pc = "use" /\ q.handle = conn
    BY <1>1, <1>4 DEF UseCached, RequestState
  <2>2. file # Absent /\ handle[conn] = "open"
    BY <1>4, Facts DEF UseCached, Safe, HandlesOpen
  <2> HIDE DEF q
  <2>3. AbsentIsUnused' /\ HandlesOpen' /\ OneRecovers' /\ RecoverEmpty'
    BY <1>4, <2>1, <2>2, MoveSafe DEF UseCached, backup, Recovers
  <2>4. QED
    BY <1>4, <2>3, SafeFrame DEF UseCached, backup, Safe
<1>5. CASE Recover(r)
  <2> DEFINE q == [request[r] EXCEPT !.pc = IF recovering THEN "await" ELSE "clear"]
  <2>1. request' = [request EXCEPT ![r] = q] /\ q.pc = IF recovering THEN "await" ELSE "clear"
    BY <1>1, <1>5 DEF Recover, Go, RequestState
  <2>2. file = Absent /\ Empty
    BY <1>5, Facts DEF Recover, Safe, RecoverEmpty
  <2> HIDE DEF q
  <2>3. AbsentIsUnused' /\ HandlesOpen' /\ OneRecovers' /\ RecoverEmpty'
    BY <1>5, <2>1, <2>2, MoveSafe DEF Recover, local, backup, Recovers
  <2>4. QED
    BY <1>5, <2>3, SafeFrame DEF Recover, local, backup, Safe
<1>6. CASE Clear(r)
  <2> DEFINE q == [request[r] EXCEPT !.pc = "sync", !.again = TRUE]
  <2>1. request' = [request EXCEPT ![r] = q] /\ q.pc = "sync" /\ q.again
    BY <1>1, <1>6 DEF Clear, RequestState
  <2>2. Rec(r) /\ file = Absent /\ Empty /\ recovering
    BY <1>6 DEF Clear, At, Rec, Recovers, Safe, RecoverEmpty, OneRecovers
  <2>3. UNCHANGED <<file, tracked, conn, handle, sum>> /\ row.sum = Absent
    BY <1>6, <2>2, NothingToClear DEF Clear
  <2>4. row' = row
    BY <1>6, <2>3 DEF Clear, TypeInv, TypeOK, BackupOK
  <2> HIDE DEF q
  <2>5. AbsentIsUnused' /\ HandlesOpen' /\ OneRecovers' /\ RecoverEmpty'
    BY <1>6, <2>1, <2>2, <2>3, <2>4, MoveSafe DEF Clear, backup, Recovers
  <2>6. QED
    BY <1>6, <2>3, <2>4, <2>5, SafeFrame DEF Clear, backup, Safe
<1>7. CASE NoBackup(r)
  <2> DEFINE q == [request[r] EXCEPT !.pc = "fresh"]
  <2>1. request' = [request EXCEPT ![r] = q] /\ q.pc = "fresh"
    BY <1>1, <1>7 DEF NoBackup, Go, RequestState
  <2>2. Rec(r) /\ file = Absent /\ Empty /\ recovering
    BY <1>7 DEF NoBackup, At, Rec, Recovers, Safe, RecoverEmpty, OneRecovers
  <2> HIDE DEF q
  <2>3. AbsentIsUnused' /\ HandlesOpen' /\ OneRecovers' /\ RecoverEmpty'
    BY <1>7, <2>1, <2>2, MoveSafe DEF NoBackup, local, backup, Recovers
  <2>4. QED
    BY <1>7, <2>3, SafeFrame DEF NoBackup, local, backup, Safe
<1>8. QED
  BY <1>2, <1>3, <1>4, <1>5, <1>6, <1>7

(* No backup is corrupt, and the recovery never purges one. *)
LEMMA NoBadBackup ==
  ASSUME TypeInv, Safe, NEW r \in Requests
  PROVE  ~BadBackup(r) /\ ~Recovered(r)
BY Facts DEF BadBackup, Recovered, Safe, NoneCorrupt, RecoverEmpty, At, Rec, Recovers

LEMMA PurgeSafe ==
  ASSUME TypeInv, Safe, NEW r \in Requests, Purge(r)
  PROVE  Safe'
<1>1. request \in [Requests -> RequestState] /\ request[r] \in RequestState
  BY DEF TypeInv, TypeOK, RequestsOK
<1> DEFINE q == [request[r] EXCEPT !.pc = "fresh"]
<1>2. request' = [request EXCEPT ![r] = q] /\ q.pc = "fresh"
  BY <1>1 DEF Purge, Go, RequestState
<1>3. Rec(r) /\ file = Absent /\ Empty /\ recovering
  BY DEF Purge, At, Rec, Recovers, Safe, RecoverEmpty, OneRecovers
<1>4. UNCHANGED <<redacted, row, file, tracked, conn, handle, sum>>
  BY <1>3 DEF Purge, Empty
<1> HIDE DEF q
<1>5. AbsentIsUnused' /\ HandlesOpen' /\ OneRecovers' /\ RecoverEmpty'
  BY <1>2, <1>3, <1>4, MoveSafe DEF Purge, Recovers
<1>6. QED
  BY <1>4, <1>5, SafeFrame DEF Purge, Safe

(* A connection is opened on a file that is there. *)
LEMMA ServeSafe ==
  ASSUME TypeInv, Safe, NEW rs \in SUBSET Requests, NEW h \in Handle, Serve(rs, h),
         file' # Absent, recovering => recovering' \/ \A s \in Requests \ rs : ~Rec(s),
         \A s \in Requests \ rs : (~Rec(s) /\ ~At(s, "await")) \/ UNCHANGED file
  PROVE  AbsentIsUnused' /\ HandlesOpen' /\ OneRecovers' /\ RecoverEmpty'
<1> DEFINE q == [pc |-> "use", handle |-> h, again |-> FALSE]
<1>1. /\ request \in [Requests -> RequestState] /\ handle \in [Handle -> {"free", "open", "unlinked", "closed"}]
      /\ q.pc = "use" /\ q.handle = h
  BY DEF TypeInv, TypeOK, RequestsOK, HandlesOK
<1>2. request' = [s \in Requests |-> IF s \in rs THEN q ELSE request[s]]
  BY DEF Serve
<1> HIDE DEF q
<1>3. conn' = h /\ \A g \in Handle : handle'[g] = IF g = h THEN "open" ELSE handle[g]
  BY <1>1 DEF Serve
<1>4. AbsentIsUnused'
  BY DEF AbsentIsUnused
<1>5. HandlesOpen'
  <2>1. \A s \in Requests : At(s, "use") => request[s].handle \in Handle
    BY <1>1 DEF RequestState, TypeInv, RequestHandles
  <2>2. QED
    BY <1>1, <1>2, <1>3, <2>1 DEF Safe, HandlesOpen, At
<1>6. OneRecovers'
  BY <1>1, <1>2 DEF Safe, OneRecovers, Rec, Recovers, At
<1>7. RecoverEmpty'
  <2>1. ASSUME NEW s \in Requests, Rec(s)' \/ At(s, "await")' \/ (At(s, "open") /\ file = Absent)'
        PROVE  FALSE
    <3>1. s \notin rs /\ (Rec(s) \/ At(s, "await"))
      BY <1>1, <1>2, <2>1 DEF Rec, Recovers, At
    <3>2. QED
      BY <3>1 DEF Safe, RecoverEmpty
  <2>2. QED
    BY <2>1 DEF RecoverEmpty
<1>8. QED
  BY <1>4, <1>5, <1>6, <1>7

LEMMA RequestServedSafe ==
  ASSUME TypeInv, Safe, NEW r \in Requests, Open(r) \/ Fresh(r)
  PROVE  Safe'
<1>1. Unused \in Handle
  BY AHandleIsUnused DEF Open, Fresh, At
<1>2. conn' = Unused /\ Unused # 0
  BY <1>1, Numbers DEF Open, Fresh, Serve
<1>3. cron.mode = "upload"
  BY Facts DEF Open, Fresh, Busy, At
<1>4. CASE Open(r)
  <2>1. file # Absent /\ UNCHANGED <<file, recovering>>
    BY <1>4, Facts DEF Open
  <2>2. AbsentIsUnused' /\ HandlesOpen' /\ OneRecovers' /\ RecoverEmpty'
    BY <1>1, <1>4, <2>1, ServeSafe DEF Open
  <2>3. Downloads' /\ CleanUp'
    BY <1>2, <1>3, <1>4, <2>1 DEF Open, Safe, Downloads, CleanUp, Source, Empty, backup
  <2>4. QED
    BY <1>4, <2>2, <2>3, SafeFrame DEF Open, Safe, backup
<1>5. CASE Fresh(r)
  <2>1. Rec(r) /\ file = Absent /\ Empty
    BY <1>5 DEF Fresh, At, Rec, Recovers, Safe, RecoverEmpty
  <2>2. file' = Good({}) /\ Good({}) # Absent /\ Good({}) # Corrupt /\ Good({}).data = {}
    BY <1>5, <2>1, Contents DEF Fresh
  <2>3. committed = {} /\ cron.pc = "idle"
    BY <2>1, Facts
  <2>4. \A s \in Requests \ ({r} \cup Awaiting) : ~Rec(s) /\ ~At(s, "await")
    BY <2>1 DEF Awaiting, Safe, OneRecovers
  <2>5. AbsentIsUnused' /\ HandlesOpen' /\ OneRecovers' /\ RecoverEmpty'
    BY <1>1, <1>5, <2>2, <2>4, ServeSafe DEF Fresh, Awaiting
  <2>6. NoneCorrupt'
    BY <1>5, <2>2 DEF Fresh, Safe, NoneCorrupt, backup
  <2>7. Downloads' /\ CleanUp'
    BY <1>2, <1>3, <1>5, <2>1, <2>3 DEF Fresh, Safe, Downloads, CleanUp, Empty, backup
  <2>8. Kept'
    BY <1>5, <2>2, <2>3 DEF Fresh, Kept
  <2>9. Upload'
    BY <1>5, <2>3 DEF Fresh, Upload, Uploading
  <2>10. QED
    BY <1>5, <2>5, <2>6, <2>7, <2>8, <2>9, SafeFrame DEF Fresh, Safe, backup
<1>6. QED
  BY <1>4, <1>5

LEMMA CommitSafe ==
  ASSUME TypeInv, Safe, NEW r \in Requests, Commit(r)
  PROVE  Safe'
<1>1. file # Absent /\ file \in Content /\ cron.mode = "upload"
  BY Facts DEF Commit, Busy, At
<1>2. PICK w \in Write : committed' = committed \cup {w} /\ file' = Good(file.data \cup {w})
  BY DEF Commit
<1>3. file.data \cup {w} \in SUBSET Write
  BY <1>1, Contents
<1>4. file' # Absent /\ file' # Corrupt /\ file'.data = file.data \cup {w}
  BY <1>2, <1>3, Contents
<1>5. UNCHANGED <<tracked, conn, handle, download, recovering, request, cron, sum, row, media, redacted, pointer>>
  BY DEF Commit, backup
<1>6. NoneCorrupt' /\ AbsentIsUnused'
  BY <1>4, <1>5 DEF Safe, NoneCorrupt, AbsentIsUnused
<1>7. RecoverEmpty'
  BY <1>1, <1>4, <1>5 DEF Safe, RecoverEmpty, Rec, At, Empty
<1>8. Downloads'
  BY <1>1, <1>4, <1>5 DEF Safe, Downloads, Empty
<1>9. Kept'
  BY <1>1, <1>2, <1>4 DEF Safe, Kept
<1>10. CleanUp' /\ Upload'
  BY <1>1, <1>4, <1>5 DEF Safe, CleanUp, Upload
<1>11. QED
  BY <1>5, <1>6, <1>7, <1>8, <1>9, <1>10, SafeFrame DEF Safe

(* Requests end, one by itself or many with a failed download. *)
LEMMA EndSafe ==
  ASSUME TypeInv, Safe, NEW rs \in SUBSET Busy, End(rs), UNCHANGED <<file, tracked, conn, handle, cron, row, pointer>>,
         recovering => recovering' \/ \A s \in Requests \ rs : ~Rec(s)
  PROVE  AbsentIsUnused' /\ HandlesOpen' /\ OneRecovers' /\ RecoverEmpty'
<1>1. \A s \in Requests : request'[s] = IF s \in rs THEN IdleRequest ELSE request[s]
  BY DEF End
<1>2. IdleRequest.pc = "idle" /\ ~IdleRequest.again
  BY DEF IdleRequest
<1>3. AbsentIsUnused'
  BY <1>1, <1>2 DEF Safe, AbsentIsUnused, At
<1>4. HandlesOpen'
  BY <1>1, <1>2 DEF Safe, HandlesOpen, At
<1>5. OneRecovers'
  BY <1>1, <1>2 DEF Safe, OneRecovers, Rec, Recovers, At
<1>6. RecoverEmpty'
  BY <1>1, <1>2 DEF Safe, RecoverEmpty, Rec, Recovers, At, Empty
<1>7. QED
  BY <1>3, <1>4, <1>5, <1>6

LEMMA FinishSafe ==
  ASSUME TypeInv, Safe, NEW r \in Requests, Finish(r)
  PROVE  Safe'
<1>1. {r} \in SUBSET Busy /\ End({r})
  BY DEF Finish, Busy, At
<1>2. AbsentIsUnused' /\ HandlesOpen' /\ OneRecovers' /\ RecoverEmpty'
  BY <1>1, EndSafe DEF Finish, local, backup
<1>3. QED
  BY <1>2, SafeFrame DEF Finish, local, backup, Safe

(* The download of a request ends: who recovers found nothing. *)
LEMMA EndDownloadSafe ==
  ASSUME TypeInv, Safe, EndDownload, UNCHANGED <<recovering, cron, conn, row, pointer>>,
         \/ UNCHANGED file /\ (file = Absent => Empty)
         \/ file' # Absent /\ \A s \in Requests : ~Rec(s) /\ ~At(s, "await"),
         file' = Absent => UNCHANGED <<tracked, handle>>,
         \A h \in Handle : handle[h] = "open" => handle'[h] = "open"
  PROVE  AbsentIsUnused' /\ HandlesOpen' /\ OneRecovers' /\ RecoverEmpty'
<1>1. request \in [Requests -> RequestState] /\ conn \in {0} \cup Handle
  BY DEF TypeInv, TypeOK, RequestsOK, HandlesOK
<1>2. ASSUME NEW s \in Requests
      PROVE  /\ request'[s].again = request[s].again /\ request'[s].handle = request[s].handle
             /\ request'[s].pc = IF request[s].pc = "sync"
                                 THEN IF request[s].again THEN "check" ELSE "open"
                                 ELSE request[s].pc
  BY <1>1 DEF EndDownload, Waiting, At, Synced, RequestState
<1>3. AbsentIsUnused'
  BY <1>2 DEF Safe, AbsentIsUnused, At
<1>4. HandlesOpen'
  <2>1. \A s \in Requests : At(s, "use") => request[s].handle \in Handle
    BY <1>1 DEF RequestState, TypeInv, RequestHandles
  <2>2. conn # 0 => handle'[conn] = "open"
    BY <1>1 DEF Safe, HandlesOpen
  <2>3. \A s \in Requests : At(s, "use")' => At(s, "use") /\ request'[s].handle = request[s].handle
    BY <1>2 DEF At
  <2>4. QED
    BY <2>1, <2>2, <2>3 DEF Safe, HandlesOpen
<1>5. \A s \in Requests : Rec(s)' <=> Rec(s)
  BY <1>2 DEF Rec, Recovers
<1>6. OneRecovers'
  BY <1>2, <1>5 DEF Safe, OneRecovers, At
<1>7. RecoverEmpty'
  BY <1>2, <1>5 DEF Safe, RecoverEmpty, At, Empty
<1>8. QED
  BY <1>3, <1>4, <1>6, <1>7

LEMMA DownloadMovesSafe ==
  ASSUME TypeInv, Safe, DownloadStep
  PROVE  Safe'
<1>1. /\ download \in [pc : {"idle", "load", "store"}, got : Content] /\ media \in [Event -> Content]
      /\ NoDownload.pc = "idle" /\ NoDownload.got # Corrupt
  BY Contents DEF TypeInv, TypeOK, DownloadOK, BackupOK, NoDownload
<1>2. Source # 0 => Source \in Event /\ media[Source] # Absent /\ media[Source] # Corrupt
  BY Facts DEF Posted, Safe, NoneCorrupt
<1>3. Source # 0 <=> ~Empty
  BY DEF Source, Empty
<1>4. CASE LoadNothing
  <2>1. Empty
    <3>1. CASE file # Absent
      BY <1>4, <3>1 DEF LoadNothing, Safe, Downloads
    <3>2. CASE file = Absent
      <4>1. ASSUME Source # 0 PROVE FALSE
        <5>1. Loaded = {media[Source]}
          BY <3>2, <4>1, Facts DEF Loaded
        <5>2. QED
          BY <1>2, <1>4, <4>1, <5>1 DEF LoadNothing
      <4>2. QED
        BY <1>3, <4>1
    <3>3. QED
      BY <3>1, <3>2
  <2>2. AbsentIsUnused' /\ HandlesOpen' /\ OneRecovers' /\ RecoverEmpty'
    BY <1>4, <2>1, EndDownloadSafe DEF LoadNothing, local, backup
  <2>3. NoneCorrupt'
    BY <1>1, <1>4 DEF LoadNothing, EndDownload, local, backup, Safe, NoneCorrupt
  <2>4. Downloads'
    BY <1>1, <1>4 DEF LoadNothing, EndDownload, Downloads
  <2>5. QED
    BY <1>4, <2>2, <2>3, <2>4, SafeFrame DEF LoadNothing, local, backup, Safe
<1>5. CASE LoadContent
  <2>1. PICK c \in Loaded \ {Absent} : download' = [pc |-> "store", got |-> c]
    BY <1>5 DEF LoadContent
  <2>2. ~Empty /\ Source # 0 /\ c = media[Source]
    BY <1>3, <2>1 DEF Loaded
  <2>3. file = Absent
    BY <1>5, <2>2 DEF LoadContent, Safe, Downloads
  <2>4. download'.pc = "store" /\ download'.got = media[Source]
    BY <2>1, <2>2
  <2>5. NoneCorrupt'
    BY <1>2, <1>5, <2>2, <2>4 DEF LoadContent, local, backup, Safe, NoneCorrupt
  <2>6. Downloads'
    BY <1>5, <2>2, <2>3, <2>4 DEF LoadContent, local, backup, Downloads, Source, Empty
  <2>7. QED
    BY <1>5, <2>5, <2>6, SafeFrame DEF LoadContent, local, backup, Safe
<1>6. CASE Store
  <2>1. file = Absent /\ ~Empty /\ file' = media[Source]
    BY <1>6 DEF Store, Safe, Downloads
  <2>2. file' # Absent /\ file' # Corrupt /\ Source # 0
    BY <1>2, <1>3, <2>1
  <2>3. \A h \in Handle : handle[h] # "open"
    BY <2>1 DEF Safe, AbsentIsUnused
  <2>4. \A s \in Requests : ~Rec(s) /\ ~At(s, "await")
    BY <2>1 DEF Safe, RecoverEmpty
  <2>5. AbsentIsUnused' /\ HandlesOpen' /\ OneRecovers' /\ RecoverEmpty'
    BY <1>6, <2>1, <2>2, <2>3, <2>4, EndDownloadSafe DEF Store, backup
  <2>6. cron.pc = "idle"
    BY <2>1, Facts
  <2>7. NoneCorrupt'
    BY <1>1, <1>6, <2>2 DEF Store, EndDownload, backup, Safe, NoneCorrupt
  <2>8. Downloads'
    BY <1>1, <1>6 DEF Store, EndDownload, Downloads
  <2>9. Kept'
    BY <1>6, <2>1, <2>2 DEF Store, Safe, Kept
  <2>10. CleanUp' /\ Upload'
    BY <1>6, <2>6 DEF Store, CleanUp, Upload, Uploading
  <2>11. QED
    BY <1>6, <2>5, <2>7, <2>8, <2>9, <2>10, SafeFrame DEF Store, backup, Safe
<1>7. CASE LoadFails
  <2>1. /\ End(Failing) /\ download' = NoDownload
        /\ recovering' = (recovering /\ ~\E r \in Waiting : request[r].again)
        /\ UNCHANGED <<local, cron, sum, row, backup, crashes, committed, damaged>>
    BY <1>7 DEF LoadFails, Failed
  <2>2. Failing \in SUBSET Busy
    BY DEF Failing, Waiting, Busy, At
  <2>3. recovering => recovering' \/ \A s \in Requests \ Failing : ~Rec(s)
    <3>1. SUFFICES ASSUME recovering, ~recovering', NEW s \in Requests \ Failing, Rec(s)
                   PROVE  FALSE
      OBVIOUS
    <3>2. PICK r \in Waiting : request[r].again
      BY <2>1, <3>1
    <3>3. Rec(r) /\ r \in Failing /\ r \in Requests
      BY <3>2 DEF Rec, Recovers, Waiting, At, Failing
    <3>4. QED
      BY <3>1, <3>3 DEF Safe, OneRecovers
  <2>4. AbsentIsUnused' /\ HandlesOpen' /\ OneRecovers' /\ RecoverEmpty'
    <3>1. UNCHANGED <<file, tracked, conn, handle, cron, row, pointer>> /\ End(Failing)
      BY <2>1 DEF local, backup
    <3>2. QED
      BY <2>2, <2>3, <3>1, EndSafe
  <2>5. NoneCorrupt' /\ Downloads'
    BY <1>1, <2>1 DEF local, backup, Safe, NoneCorrupt, Downloads
  <2>6. QED
    BY <2>1, <2>4, <2>5, SafeFrame DEF local, backup, Safe
<1>8. QED
  BY <1>4, <1>5, <1>6, <1>7 DEF DownloadStep

(* An upload that is over: the clean-up deletes a file that is backed up. *)
LEMMA UploadedSafe ==
  ASSUME TypeInv, Safe, Uploaded, cron.pc \in {"sum", "save"},
         UNCHANGED <<request, download, recovering, media, pointer, committed>>,
         cron.mode = "clean" => conn = 0 /\ row'.event # 0 /\ committed \subseteq media[row'.event].data
  PROVE  /\ NoneCorrupt' /\ AbsentIsUnused' /\ HandlesOpen' /\ OneRecovers' /\ RecoverEmpty'
         /\ Downloads' /\ Kept' /\ CleanUp' /\ Upload'
<1>1. /\ file # Absent /\ download.pc = "idle" /\ download.got # Corrupt /\ file # Corrupt
      /\ \A e \in Event : media[e] # Corrupt
  BY Facts DEF Safe, NoneCorrupt
<1>2. cron' = IdleCron /\ IdleCron.pc = "idle" /\ IdleCron.mode = "upload" /\ IdleCron.got # Corrupt
  BY Contents DEF Uploaded, IdleCron
<1>3. \A r \in Requests : ~Rec(r) /\ ~At(r, "await")
  BY <1>1 DEF Safe, RecoverEmpty
<1>4. cron.mode # "upload" => \A r \in Requests : request[r].pc = "idle"
  BY DEF TypeInv, CleanUpIsAlone, Busy
<1>5. Downloads' /\ CleanUp' /\ Upload'
  BY <1>1, <1>2 DEF Downloads, CleanUp, Upload, Uploading
<1>6. OneRecovers'
  BY SafeFrame
<1>7. /\ cron.mode \in {"upload", "close", "clean"} /\ conn \in {0} \cup Handle
      /\ handle \in [Handle -> {"free", "open", "unlinked", "closed"}]
  BY DEF TypeInv, TypeOK, CronOK, CronState, HandlesOK
<1>8. CASE cron.mode = "upload"
  <2>1. UNCHANGED <<file, tracked, conn, handle>>
    BY <1>8 DEF Uploaded
  <2>2. NoneCorrupt' /\ AbsentIsUnused' /\ Kept'
    BY <1>1, <1>2, <2>1 DEF NoneCorrupt, AbsentIsUnused, Safe, Kept
  <2>3. HandlesOpen'
    BY <2>1, SafeFrame
  <2>4. RecoverEmpty'
    BY <1>1, <1>3, <2>1 DEF RecoverEmpty, Rec, At
  <2>5. QED
    BY <1>5, <1>6, <2>2, <2>3, <2>4
<1>9. CASE cron.mode = "close"
  <2>1. conn' = 0 /\ UNCHANGED <<file, tracked>>
    BY <1>9 DEF Uploaded
  <2>2. NoneCorrupt' /\ AbsentIsUnused' /\ Kept'
    BY <1>1, <1>2, <2>1 DEF NoneCorrupt, AbsentIsUnused, Safe, Kept
  <2>3. HandlesOpen'
    BY <1>4, <1>9, <2>1 DEF HandlesOpen, At
  <2>4. RecoverEmpty'
    BY <1>1, <1>3, <2>1 DEF RecoverEmpty, Rec, At
  <2>5. QED
    BY <1>5, <1>6, <2>2, <2>3, <2>4
<1>10. CASE cron.mode = "clean"
  <2>1. file' = Absent /\ tracked' = FALSE /\ Strand /\ conn' = 0 /\ conn = 0
    BY <1>10 DEF Uploaded
  <2>2. \A h \in Handle : handle'[h] # "open"
    BY <2>1 DEF Strand
  <2>3. \A r \in Requests : request'[r].pc = "idle"
    BY <1>4, <1>10
  <2>4. NoneCorrupt'
    BY <1>1, <1>2, <2>1, Contents DEF NoneCorrupt
  <2>5. AbsentIsUnused' /\ HandlesOpen'
    BY <1>2, <2>1, <2>2, <2>3 DEF AbsentIsUnused, HandlesOpen, At
  <2>6. RecoverEmpty'
    BY <2>3 DEF RecoverEmpty, Rec, Recovers, At
  <2>7. Kept'
    BY <1>10, <2>1 DEF Kept, Source
  <2>8. QED
    BY <1>5, <1>6, <2>4, <2>5, <2>6, <2>7
<1>11. QED
  BY <1>7, <1>8, <1>9, <1>10

LEMMA NewEventIsNew ==
  ASSUME TypeInv, Safe, Post
  PROVE  /\ media[NewEvent] = Absent /\ NewEvent \notin Posted /\ NewEvent # 0
         /\ media'[NewEvent] = cron.got /\ \A e \in Posted : media'[e] = media[e]
         /\ Posted' = Posted \cup {NewEvent}
<1>1. cron.got \in Content /\ cron.got # Absent /\ media \in [Event -> Content]
  BY DEF Post, Safe, Upload, Uploading, TypeInv, TypeOK, CronOK, CronState, BackupOK
<1> DEFINE n == NewEvent
<1>2. n \in Event /\ media' = [media EXCEPT ![n] = cron.got]
  BY DEF Post
<1>3. media[n] = Absent
  BY <1>1, <1>2, EventsGrow
<1> HIDE DEF n
<1>4. n \notin Posted /\ n # 0
  BY <1>2, <1>3, Numbers DEF Posted
<1>5. media'[n] = cron.got /\ \A e \in Posted : media'[e] = media[e]
  BY <1>1, <1>2, <1>4 DEF Posted
<1>6. Posted' = Posted \cup {n}
  BY <1>1, <1>2 DEF Posted
<1>7. QED
  BY <1>3, <1>4, <1>5, <1>6 DEF n

(* A cron that goes on, or stops, without touching the file. *)
LEMMA CronStartsSafe ==
  ASSUME TypeInv, Safe, StartUpload \/ StartCleanUp("close") \/ StartCleanUp("clean") \/ FailUpload
  PROVE  Safe'
<1>1. file # Absent /\ cron \in CronState
  BY Facts DEF StartUpload, StartCleanUp, FailUpload, TypeInv, TypeOK, CronOK
<1>2. IdleCron.pc = "idle" /\ IdleCron.mode = "upload" /\ IdleCron.got # Corrupt /\ IdleCron.old = 0
  BY Contents DEF IdleCron
<1>3. /\ cron'.pc \in {"idle", "check"} /\ cron'.got \in {cron.got, IdleCron.got}
      /\ cron'.old \in {cron.old, 0}
  BY <1>1, <1>2 DEF StartUpload, GoC, StartCleanUp, FailUpload, IdleCron, CronState
<1>4. UNCHANGED <<file, tracked, conn, handle, download, recovering, request, sum, row, media, redacted, pointer, committed>>
  BY DEF StartUpload, StartCleanUp, FailUpload, local, backup
<1>5. cron.pc # "save"
  BY DEF StartUpload, StartCleanUp, FailUpload
<1>6. NoneCorrupt' /\ AbsentIsUnused'
  BY <1>1, <1>2, <1>3, <1>4 DEF Safe, NoneCorrupt, AbsentIsUnused
<1>7. Downloads' /\ CleanUp' /\ Upload'
  BY <1>3, <1>4 DEF Safe, Downloads, CleanUp, Upload, Uploading, Empty, Source
<1>8. Events' /\ Sums'
  BY <1>3, <1>4, <1>5 DEF Safe, Events, Sums, Posted
<1>9. QED
  BY <1>4, <1>6, <1>7, <1>8, SafeFrame DEF Safe

LEMMA SkipUploadSafe ==
  ASSUME TypeInv, Safe, SkipUpload
  PROVE  Safe'
<1>1. file # Absent
  BY Facts DEF SkipUpload
<1>2. cron.mode = "upload"
  BY <1>1, BusyIsFinite, Facts DEF SkipUpload
<1>3. cron' = IdleCron /\ UNCHANGED <<file, tracked, conn, handle>>
  BY <1>2 DEF SkipUpload, Uploaded
<1>4. UNCHANGED <<download, recovering, request, sum, row, media, redacted, pointer, committed>>
  BY <1>2 DEF SkipUpload, ClearedSum, backup
<1>5. IdleCron.pc = "idle" /\ IdleCron.mode = "upload" /\ IdleCron.got # Corrupt /\ IdleCron.old = 0
  BY Contents DEF IdleCron
<1>6. NoneCorrupt' /\ AbsentIsUnused'
  BY <1>1, <1>3, <1>4, <1>5 DEF Safe, NoneCorrupt, AbsentIsUnused
<1>7. Downloads' /\ CleanUp' /\ Upload'
  BY <1>3, <1>4, <1>5 DEF Safe, Downloads, CleanUp, Upload, Uploading, Empty, Source
<1>8. Events' /\ Sums'
  BY <1>3, <1>4, <1>5 DEF SkipUpload, Safe, Events, Sums, Posted
<1>9. QED
  BY <1>3, <1>4, <1>6, <1>7, <1>8, SafeFrame DEF Safe

LEMMA CloseCachedSafe ==
  ASSUME TypeInv, Safe, CloseCached
  PROVE  Safe'
<1>1. file # Absent /\ conn' = 0 /\ cron \in CronState
  BY DEF CloseCached, TypeInv, TypeOK, CronOK
<1>2. cron'.pc = "sum" /\ cron'.got = cron.got /\ cron'.old = cron.old
  BY <1>1 DEF CloseCached, GoC, CronState
<1>3. UNCHANGED <<file, tracked, download, recovering, request, sum, row, media, redacted, pointer, committed>>
  BY DEF CloseCached, backup
<1>4. conn # 0 => \A r \in Requests : request[r].pc = "idle"
  BY BusyIsFinite DEF CloseCached, Closable, Busy
<1>5. NoneCorrupt' /\ AbsentIsUnused'
  BY <1>1, <1>2, <1>3 DEF Safe, NoneCorrupt, AbsentIsUnused
<1>6. HandlesOpen'
  <2>1. CASE conn = 0
    <3>1. handle' = handle
      BY <2>1, Numbers DEF CloseCached, TypeInv, TypeOK, HandlesOK
    <3>2. QED
      BY <1>1, <1>3, <3>1 DEF Safe, HandlesOpen, At
  <2>2. CASE conn # 0
    BY <1>1, <1>3, <1>4, <2>2 DEF HandlesOpen, At
  <2>3. QED
    BY <2>1, <2>2
<1>7. Downloads'
  <2>1. download.pc \in {"idle", "load", "store"}
    BY DEF TypeInv, TypeOK, DownloadOK
  <2>2. download.pc # "load"
    BY <1>1, <1>4 DEF Safe, Downloads, TypeInv, Awaited, Waiting, At
  <2>3. QED
    BY <1>1, <1>3, <2>1, <2>2 DEF Safe, Downloads, Empty
<1>8. CleanUp' /\ Upload'
  BY <1>1, <1>2 DEF CleanUp, Upload, Uploading
<1>9. Events' /\ Sums'
  BY <1>2, <1>3 DEF CloseCached, Safe, Events, Sums, Posted
<1>10. QED
  BY <1>3, <1>5, <1>6, <1>7, <1>8, <1>9, SafeFrame DEF Safe

LEMMA ComputeChecksumSafe ==
  ASSUME TypeInv, Safe, ComputeChecksum
  PROVE  Safe'
<1>1. /\ file # Absent /\ cron.pc = "sum" /\ download.pc = "idle" /\ cron \in CronState
      /\ committed \subseteq file.data
  BY Facts DEF ComputeChecksum, Safe, Kept, TypeInv, TypeOK, CronOK
<1>2. UNCHANGED <<recent, download, recovering, request, row, media, redacted, pointer, committed>>
  BY DEF ComputeChecksum, backup
<1>3. CASE Unchanged
  <2>1. Uploaded /\ sum' = ClearedSum(sum) /\ file = sum
    BY <1>3 DEF ComputeChecksum, Unchanged
  <2>2. row.event # 0 /\ committed \subseteq media[row.event].data
    BY <1>1, <2>1 DEF Safe, Sums
  <2>3. cron.mode = "clean" => conn = 0
    BY <1>1 DEF Safe, CleanUp
  <2>4. /\ NoneCorrupt' /\ AbsentIsUnused' /\ HandlesOpen' /\ OneRecovers' /\ RecoverEmpty'
        /\ Downloads' /\ Kept' /\ CleanUp' /\ Upload'
    BY <1>1, <1>2, <2>1, <2>2, <2>3, UploadedSafe
  <2>5. cron' = IdleCron /\ IdleCron.old = 0 /\ IdleCron.pc = "idle"
    BY <2>1 DEF Uploaded, IdleCron
  <2>6. sum' \in {sum, Absent}
    BY <2>1 DEF ClearedSum
  <2>7. Events' /\ Sums'
    BY <1>1, <1>2, <2>5, <2>6 DEF Safe, Events, Sums, Posted
  <2>8. QED
    BY <2>4, <2>7 DEF Safe
<1>4. CASE ~Unchanged
  <2>1. cron' = [cron EXCEPT !.pc = "read", !.sum = file] /\ UNCHANGED <<file, tracked, conn, handle, sum>>
    BY <1>4 DEF ComputeChecksum
  <2>2. cron'.pc = "read" /\ cron'.sum = file /\ cron'.got = cron.got /\ cron'.old = cron.old /\ cron'.mode = cron.mode
    BY <1>1, <2>1 DEF CronState
  <2>3. NoneCorrupt' /\ AbsentIsUnused'
    BY <1>1, <1>2, <2>1, <2>2 DEF Safe, NoneCorrupt, AbsentIsUnused
  <2>4. Downloads' /\ CleanUp' /\ Upload'
    BY <1>1, <1>2, <2>1, <2>2 DEF Safe, Downloads, CleanUp, Upload, Uploading
  <2>5. Events' /\ Sums'
    BY <1>1, <1>2, <2>1, <2>2 DEF Safe, Events, Sums, Posted
  <2>6. QED
    BY <1>2, <2>1, <2>3, <2>4, <2>5, SafeFrame DEF Safe
<1>5. QED
  BY <1>3, <1>4

LEMMA ReadFileSafe ==
  ASSUME TypeInv, Safe, ReadFile
  PROVE  Safe'
<1>1. file # Absent /\ cron.pc = "read" /\ download.pc = "idle" /\ cron \in CronState
  BY Facts DEF ReadFile, TypeInv, TypeOK, CronOK
<1>2. UNCHANGED <<file, tracked, conn, handle, download, recovering, request, sum, row, media, redacted, pointer, committed>>
  BY DEF ReadFile, local, backup
<1>3. cron'.pc = "post" /\ cron'.got = file /\ cron'.sum = cron.sum /\ cron'.old = cron.old /\ cron'.mode = cron.mode
  BY <1>1 DEF ReadFile, CronState
<1>4. NoneCorrupt' /\ AbsentIsUnused'
  BY <1>1, <1>2, <1>3 DEF Safe, NoneCorrupt, AbsentIsUnused
<1>5. Downloads' /\ CleanUp' /\ Upload'
  BY <1>1, <1>2, <1>3 DEF Safe, Downloads, CleanUp, Upload, Uploading
<1>6. Events' /\ Sums'
  BY <1>1, <1>2, <1>3 DEF Safe, Events, Sums, Posted
<1>7. QED
  BY <1>2, <1>4, <1>5, <1>6, SafeFrame DEF Safe

LEMMA PostSafe ==
  ASSUME TypeInv, Safe, Post
  PROVE  Safe'
<1> DEFINE n == NewEvent
<1>1. file # Absent /\ cron.pc = "post" /\ download.pc = "idle" /\ cron \in CronState
  BY Facts DEF Post, TypeInv, TypeOK, CronOK
<1>2. UNCHANGED <<file, tracked, conn, handle, download, recovering, request, sum, row, redacted, pointer, committed>>
  BY DEF Post, local
<1>3. cron' = [cron EXCEPT !.pc = "point", !.new = n, !.old = pointer]
  BY DEF Post
<1>4. /\ n \notin Posted /\ n # 0 /\ media'[n] = cron.got /\ \A e \in Posted : media'[e] = media[e]
      /\ Posted' = Posted \cup {n}
  BY NewEventIsNew
<1>5. media \in [Event -> Content] /\ media' \in [Event -> Content]
  BY EventsGrow DEF Post, TypeInv, TypeOK, BackupOK, CronOK, CronState
<1> HIDE DEF n
<1>6. /\ cron'.pc = "point" /\ cron'.new = n /\ cron'.old = pointer /\ cron'.got = cron.got
      /\ cron'.sum = cron.sum /\ cron'.mode = cron.mode
  BY <1>1, <1>3 DEF CronState
<1>7. NoneCorrupt'
  <2>1. \A e \in Event : e \in Posted' => media'[e] # Corrupt
    BY <1>4 DEF Safe, NoneCorrupt, Posted
  <2>2. \A e \in Event : e \notin Posted' => media'[e] = Absent
    BY DEF Posted
  <2>3. QED
    BY <1>2, <1>6, <2>1, <2>2, Contents DEF Safe, NoneCorrupt
<1>8. AbsentIsUnused'
  BY <1>1, <1>2 DEF AbsentIsUnused
<1>9. Downloads' /\ CleanUp'
  BY <1>1, <1>2, <1>6 DEF Downloads, Safe, CleanUp, Uploading
<1>10. Upload'
  BY <1>1, <1>2, <1>4, <1>6 DEF Safe, Upload, Uploading, Events
<1>11. Events'
  BY <1>1, <1>2, <1>4, <1>6 DEF Safe, Events
<1>12. Sums'
  BY <1>1, <1>2, <1>4 DEF Safe, Sums, Events
<1>13. Kept'
  BY <1>1, <1>2 DEF Safe, Kept
<1>14. QED
  BY <1>2, <1>7, <1>8, <1>9, <1>10, <1>11, <1>12, <1>13, SafeFrame DEF Safe

LEMMA PointSafe ==
  ASSUME TypeInv, Safe, Point \/ Redact
  PROVE  Safe'
<1>1. file # Absent /\ cron.pc \in {"point", "redact"} /\ download.pc = "idle" /\ cron \in CronState
  BY Facts DEF Point, Redact, TypeInv, TypeOK, CronOK
<1>2. UNCHANGED <<file, tracked, conn, handle, download, recovering, request, sum, row, media, committed>>
  BY DEF Point, Redact, local
<1>3. /\ cron'.got = cron.got /\ cron'.sum = cron.sum /\ cron'.old = cron.old /\ cron'.new = cron.new
      /\ cron'.mode = cron.mode
  BY <1>1 DEF Point, Redact, GoC, CronState
<1>4. cron.new \in Posted /\ cron.new # 0 /\ cron.new \notin redacted /\ cron.new # cron.old
  <2>1. media[cron.new] # Absent /\ cron.new # 0 /\ cron.new \notin redacted /\ cron.new # cron.old
    BY <1>1 DEF Safe, Upload, Uploading
  <2>2. QED
    BY <1>1, <2>1 DEF CronState, Posted
<1>5. \A r \in Requests : ~Rec(r) /\ ~At(r, "await")
  BY <1>1 DEF Safe, RecoverEmpty
<1>6. NoneCorrupt' /\ AbsentIsUnused' /\ RecoverEmpty' /\ Downloads' /\ Kept'
  BY <1>1, <1>2, <1>3, <1>5 DEF Safe, NoneCorrupt, AbsentIsUnused, RecoverEmpty, Downloads, Kept, Rec, At
<1>7. CASE Point
  <2>1. pointer' = cron.new /\ cron'.pc = "redact" /\ UNCHANGED redacted /\ cron.pc = "point"
    BY <1>1, <1>7 DEF Point, GoC, CronState
  <2>2. CleanUp' /\ Upload'
    BY <1>2, <1>3, <2>1 DEF Safe, CleanUp, Upload, Uploading
  <2>3. Events' /\ Sums'
    BY <1>2, <1>3, <1>4, <2>1 DEF Safe, Events, Sums, Posted
  <2>4. QED
    BY <1>2, <1>6, <2>2, <2>3, SafeFrame DEF Safe
<1>8. CASE Redact
  <2>1. UNCHANGED pointer /\ cron'.pc = "save" /\ cron.pc = "redact"
    BY <1>1, <1>8 DEF Redact, GoC, CronState
  <2>2. redacted \subseteq redacted' /\ redacted' \subseteq redacted \cup ({cron.old} \ {0})
    BY <1>8 DEF Redact
  <2>3. CleanUp' /\ Upload'
    BY <1>2, <1>3, <1>4, <2>1, <2>2 DEF Safe, CleanUp, Upload, Uploading
  <2>4. pointer = cron.new
    BY <2>1 DEF Safe, Upload
  <2>5. Events'
    BY <1>2, <1>3, <1>4, <2>1, <2>2, <2>4 DEF Safe, Events, Posted
  <2>6. Sums'
    BY <2>1 DEF Sums
  <2>7. QED
    BY <1>2, <1>6, <2>3, <2>5, <2>6, SafeFrame DEF Safe
<1>9. QED
  BY <1>7, <1>8

LEMMA SaveEventSafe ==
  ASSUME TypeInv, Safe, SaveEvent
  PROVE  Safe'
<1>1. file # Absent /\ cron.pc = "save" /\ committed \subseteq file.data
  BY Facts DEF SaveEvent, Safe, Kept
<1>2. /\ UNCHANGED <<recent, download, recovering, request, media, redacted, pointer, committed>>
      /\ Uploaded /\ sum' = ClearedSum(cron.sum) /\ row' = [event |-> cron.new, sum |-> cron.sum]
  BY DEF SaveEvent, backup
<1>3. /\ cron.new # 0 /\ media[cron.new] = cron.got /\ cron.new \notin redacted /\ cron.new = pointer
      /\ cron.sum.data \subseteq media[cron.new].data
  BY <1>1 DEF Safe, Upload, Uploading
<1>4. cron.mode = "clean" => conn = 0 /\ cron.got = file
  BY <1>1 DEF Safe, CleanUp, Uploading
<1>5. row'.event = cron.new /\ row'.sum = cron.sum
  BY <1>2
<1>6. /\ NoneCorrupt' /\ AbsentIsUnused' /\ HandlesOpen' /\ OneRecovers' /\ RecoverEmpty'
      /\ Downloads' /\ Kept' /\ CleanUp' /\ Upload'
  BY <1>1, <1>2, <1>3, <1>4, <1>5, UploadedSafe
<1>7. cron' = IdleCron /\ IdleCron.old = 0 /\ IdleCron.pc = "idle"
  BY <1>2 DEF Uploaded, IdleCron
<1>8. sum' \in {cron.sum, Absent}
  BY <1>2 DEF ClearedSum
<1>9. Events'
  BY <1>2, <1>3, <1>5, <1>7 DEF Safe, Events, Posted
<1>10. Sums'
  BY <1>2, <1>3, <1>5, <1>8 DEF Sums
<1>11. QED
  BY <1>6, <1>9, <1>10 DEF Safe

LEMMA OtherMovesSafe ==
  ASSUME ~LateCrash, TypeInv, Safe, Age \/ Crash
  PROVE  Safe'
<1>1. CASE Age
  BY <1>1, SafeFrame DEF Age, backup, Safe
<1>2. CASE Crash
  <2>1. /\ cron.pc # "save" /\ tracked' = (file # Absent) /\ conn' = 0 /\ handle' = [h \in Handle |-> "free"]
        /\ download' = NoDownload /\ request' = [r \in Requests |-> IdleRequest] /\ cron' = IdleCron
        /\ sum' = row.sum /\ UNCHANGED <<file, row, media, redacted, pointer, committed>>
    BY <1>2 DEF Crash, backup
  <2>2. /\ IdleCron.pc = "idle" /\ IdleCron.mode = "upload" /\ IdleCron.got # Corrupt /\ IdleCron.old = 0
        /\ NoDownload.pc = "idle" /\ NoDownload.got # Corrupt /\ IdleRequest.pc = "idle" /\ ~IdleRequest.again
    BY Contents DEF IdleCron, NoDownload, IdleRequest
  <2>3. NoneCorrupt'
    BY <2>1, <2>2 DEF Safe, NoneCorrupt
  <2>4. AbsentIsUnused' /\ HandlesOpen'
    BY <2>1, <2>2 DEF AbsentIsUnused, HandlesOpen, At
  <2>5. OneRecovers' /\ RecoverEmpty'
    BY <2>1, <2>2 DEF OneRecovers, RecoverEmpty, Rec, Recovers, At
  <2>6. Downloads' /\ CleanUp' /\ Upload'
    BY <2>1, <2>2 DEF Downloads, CleanUp, Upload, Uploading
  <2>7. Kept'
    BY <2>1, SafeFrame
  <2>8. Events' /\ Sums'
    BY <2>1, <2>2 DEF Safe, Events, Sums, Posted
  <2>9. QED
    BY <2>3, <2>4, <2>5, <2>6, <2>7, <2>8 DEF Safe
<1>3. QED
  BY <1>1, <1>2

-----------------------------------------------------------------------------
LEMMA InitSafe == Init => Safe
<1> SUFFICES ASSUME Init PROVE Safe
  OBVIOUS
<1>1. /\ IdleCron.pc = "idle" /\ IdleCron.mode = "upload" /\ IdleCron.got # Corrupt /\ IdleCron.old = 0
      /\ NoDownload.pc = "idle" /\ NoDownload.got # Corrupt /\ IdleRequest.pc = "idle" /\ ~IdleRequest.again
  BY Contents DEF IdleCron, NoDownload, IdleRequest
<1>2. /\ NoneCorrupt /\ AbsentIsUnused /\ HandlesOpen
  BY <1>1, Contents DEF Init, NoneCorrupt, AbsentIsUnused, HandlesOpen, At
<1>3. /\ OneRecovers /\ RecoverEmpty
  BY <1>1 DEF Init, OneRecovers, RecoverEmpty, Rec, Recovers, At
<1>4. /\ Downloads /\ Kept /\ CleanUp /\ Upload
  BY <1>1 DEF Init, Downloads, Kept, CleanUp, Upload, Uploading, Source
<1>5. /\ Events /\ Sums
  BY <1>1, Contents DEF Init, Events, Sums, Posted
<1>6. QED
  BY <1>2, <1>3, <1>4, <1>5 DEF Safe

(* Damage is never undone, and only Damage does it. *)
LEMMA DamageStays == [Next]_vars /\ ~damaged' => ~damaged /\ ~Damage
<1>1. ASSUME NEW r \in Requests, RequestStep(r)
      PROVE  UNCHANGED damaged
  BY <1>1 DEF RequestStep, Begin, Sync, UseCached, Open, Recover, Clear, Recovered, NoBackup,
     BadBackup, Purge, Fresh, Commit, Finish
<1>2. DownloadStep => UNCHANGED damaged
  BY DEF DownloadStep, LoadNothing, LoadContent, Store, LoadFails
<1>3. CronStep => UNCHANGED damaged
  BY DEF CronStep, StartUpload, StartCleanUp, SkipUpload, CloseCached, ComputeChecksum, ReadFile,
     Post, Point, Redact, SaveEvent, FailUpload
<1>4. Age \/ Crash => UNCHANGED damaged
  BY DEF Age, Crash
<1>5. UNCHANGED vars => UNCHANGED damaged
  BY DEF vars
<1>6. Damage => damaged'
  BY DEF Damage
<1>7. QED
  BY <1>1, <1>2, <1>3, <1>4, <1>5, <1>6 DEF Next

LEMMA SafeStep ==
  ASSUME ~LateCrash, TypeInv, Safe, [Next]_vars, ~Damage
  PROVE  Safe'
<1>1. CASE UNCHANGED vars
  BY <1>1, SafeFrame DEF vars, local, backup, Safe
<1>2. ASSUME NEW r \in Requests, RequestStep(r)
      PROVE  Safe'
  BY <1>2, RequestMovesSafe, NoBadBackup, PurgeSafe, RequestServedSafe, CommitSafe, FinishSafe
     DEF RequestStep
<1>3. CASE CronStep
  BY <1>3, CronStartsSafe, SkipUploadSafe, CloseCachedSafe, ComputeChecksumSafe, ReadFileSafe,
     PostSafe, PointSafe, SaveEventSafe DEF CronStep
<1>4. QED
  BY <1>1, <1>2, <1>3, DownloadMovesSafe, OtherMovesSafe DEF Next

(* Typing, and as long as the file is not damaged everything above, is an     *)
(* invariant.                                                                 *)
THEOREM Invariance ==
  ASSUME CleanupAlone, ~LateCrash
  PROVE  Spec => []Inv
<1>1. Init => Inv
  BY InitType, InitSafe DEF Inv
<1>2. Inv /\ [Next]_vars => Inv'
  <2> SUFFICES ASSUME TypeInv, ~damaged => Safe, [Next]_vars
               PROVE  TypeInv' /\ (~damaged' => Safe')
    BY DEF Inv
  <2>1. TypeInv'
    BY TypeStep
  <2>2. ASSUME ~damaged' PROVE Safe'
    BY <2>2, DamageStays, SafeStep
  <2>3. QED
    BY <2>1, <2>2
<1>3. QED
  BY <1>1, <1>2, PTL DEF Spec

LEMMA SoundStates ==
  ASSUME Inv
  PROVE  NothingLost /\ HandleKept /\ SkippedIsStored
<1>1. TypeOK
  BY DEF Inv, TypeInv
<1>2. ASSUME ~damaged
      PROVE  /\ \A c \in Reachable : committed \subseteq c.data
             /\ \A r \in Requests : At(r, "use") => handle[request[r].handle] = "open"
             /\ cron.pc # "save" /\ sum # Absent =>
                  /\ row.event \notin redacted \cup {0}
                  /\ sum.data \subseteq media[row.event].data
  <2>1. TypeInv /\ Safe
    BY <1>2 DEF Inv
  <2>2. \A r \in Requests : At(r, "use") => handle[request[r].handle] = "open"
    BY <2>1 DEF Safe, HandlesOpen
  <2>3. ASSUME cron.pc # "save", sum # Absent
        PROVE  row.event \notin redacted \cup {0} /\ sum.data \subseteq media[row.event].data
    BY <2>1, <2>3 DEF Safe, Sums, Events
  <2>4. ASSUME NEW c \in Reachable
        PROVE  committed \subseteq c.data
    <3>1. CASE file # Absent
      BY <2>1, <2>4, <3>1 DEF Reachable, Safe, Kept
    <3>2. CASE file = Absent /\ Source = 0
      BY <2>1, <3>2 DEF Safe, Kept
    <3>3. CASE file = Absent /\ Source # 0
      <4>1. Source \notin redacted
        BY <2>1, <3>3, Facts
      <4>2. c = media[Source]
        BY <2>4, <3>3, <4>1 DEF Reachable, Loaded
      <4>3. QED
        BY <2>1, <3>3, <4>2 DEF Safe, Kept
    <3>4. QED
      BY <3>1, <3>2, <3>3
  <2>5. QED
    BY <2>2, <2>3, <2>4
<1>3. QED
  BY <1>1, <1>2 DEF NothingLost, HandleKept, SkippedIsStored

(* An accepted write is in the local file or in the backup the next download   *)
(* finds, with any number of requests, uploads, failing calls and restarts:    *)
(* the clean-up deletes the file only when the media event the cached row      *)
(* names holds what the file holds, and Matrix never redacts that event.       *)
THEOREM NoWriteIsLost ==
  ASSUME CleanupAlone, ~LateCrash
  PROVE  Spec => []NothingLost
BY Invariance, SoundStates, PTL

(* No cron closes the connection of a request under way, and no download or    *)
(* clean-up takes its file away.                                               *)
THEOREM HandlesStayOpen ==
  ASSUME CleanupAlone, ~LateCrash
  PROVE  Spec => []HandleKept
BY Invariance, SoundStates, PTL

(* Every variable keeps its type, and an upload is skipped for a remembered    *)
(* checksum only when the backup has what the checksum was computed from.      *)
THEOREM SkipsAreSafe ==
  ASSUME CleanupAlone, ~LateCrash
  PROVE  Spec => []SkippedIsStored
BY Invariance, SoundStates, PTL
=============================================================================
