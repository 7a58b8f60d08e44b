------------------------------ MODULE MCMemory ------------------------------
(***************************************************************************)
(* What is kept of a room and of a conversation, and the look-up of home   *)
(* servers, for TLC: what is taken in must be there, or leave again.  They *)
(* share no variable, so that no step of one changes what the others do: a *)
(* behaviour runs one part and leaves the others as they begin.            *)
(***************************************************************************)
EXTENDS ChannelMemory

CONSTANTS
  Dids, Entities, Served, Callers, MaxCache, QueriesFail, MaxLapses,
  Requests, Keep, MaxBreaks, MaxAfter, Delegates

VARIABLES
  part,
  call, dids, resolvers, waiting, batches, cache, lapses,
  table, points, clock, run, puts, controller, sent, mirror, breaks, together, second

servers == <<call, dids, resolvers, waiting, batches, cache, lapses>>
answer == <<table, points, clock, run, puts, controller, sent, mirror, breaks,
            together, second>>

Servers == INSTANCE HomeServers WITH timer <- waiting
Answers == INSTANCE Conversation WITH rows <- table, faults <- breaks, MaxFaults <- MaxBreaks

ASSUME ServersAssumption == Servers!HomeServersAssumption
ASSUME AnswersAssumption == Answers!ConversationAssumption

PartInit == part \in {"memory", "servers", "answer"} /\ Init /\ Servers!Init /\ Answers!Init

PartNext ==
  \/ part = "memory" /\ Next /\ UNCHANGED <<part, servers, answer>>
  \/ part = "servers" /\ Servers!Next /\ UNCHANGED <<part, vars, answer>>
  \/ part = "answer" /\ Answers!Next /\ UNCHANGED <<part, vars, servers>>

(* The fairness of each module, for the behaviours of its part.             *)
InMemory(A) == part = "memory" /\ A
InServers(A) == part = "servers" /\ A

PartSpec ==
  /\ PartInit /\ [][PartNext]_<<part, vars, servers, answer>>
  /\ WF_vars(InMemory(IdleTimer)) /\ WF_vars(InMemory(Summarised)) /\ WF_vars(InMemory(GetRoom))
  /\ WF_vars(InMemory(Restore \/ StartFresh)) /\ WF_vars(InMemory(InsertChunk))
  /\ WF_vars(InMemory(Stopped))
  /\ WF_servers(InServers(Servers!ProcessBatch))
  /\ WF_servers(InServers(\E b \in batches : Servers!Answer(b)))
  /\ WF_servers(InServers(\E c \in Callers : Servers!Collect(c)))

(* The batched look-up (did-matrix-batcher): a caller waits in one batch, and *)
(* what it is told, or the cache keeps, is the server of the DID asked for.   *)
ServersAnswer == Servers!TypeOK /\ Servers!WaitsOnce /\ Servers!OwnServer

(* Answers (sendMessage, abortRequest): a running stream can be aborted, but  *)
(* for one that began during another; none is left registered, "done" ends    *)
(* it, and what is posted is in the database, also when questions overlap.    *)
AnswerIsStored ==
  /\ Answers!TypeOK
  /\ Answers!AbortReaches /\ Answers!NoStaleController
  /\ Answers!DoneIsLast /\ Answers!PostedIsStored

(* A thread read back is the one read before, grown or summarised, until a    *)
(* question is asked while another is answered.                               *)
KeepsHistory == Answers!KeepsHistory

(* All come to rest: a buffer over the threshold is drained, a caller told.  *)
Settles == Drained /\ Servers!Ends
=============================================================================
