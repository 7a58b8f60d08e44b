--------------------------- MODULE SandboxSecrets ---------------------------
(***************************************************************************)
(* The user's secrets and the sandbox (apps/app/src/secrets/               *)
(* secrets.service.ts, the sandbox_run wrapper of createMainAgent).  The   *)
(* index of a room's secrets is read when an agent is built; the values    *)
(* are read when the agent first runs something in the sandbox, through a  *)
(* cache all agents share, and sent as headers of a connection of its own. *)
(***************************************************************************)
EXTENDS FiniteSetsExt, Naturals

CONSTANTS
  Agents, Names,
  Calls,      \* calls of sandbox_run an agent makes
  MaxEvents,  \* bound: secret values ever stored
  MaxFaults   \* bound: requests that fail

VARIABLES
  index,      \* the room's index: the event with each secret's value, 0 for none
  events,     \* timeline events with a value
  cache,      \* the event each secret is cached of, 0 for none
  read,       \* the index an agent has read
  promise,    \* enrichedRunPromise: none, values, tools, then with, without, failed
  todo,       \* entries whose value is still to be read
  values,     \* the event an agent has each value of, 0 for none
  skipped,    \* secrets whose value could not be read
  run,        \* the calls: idle, waiting, or what they were run with
  connected,  \* connections an agent has made
  faults

vars == <<index, events, cache, read, promise, todo, values, skipped, run, connected, faults>>

NoSecrets == [n \in Names |-> 0]
Unbuilt == "unbuilt"

Init ==
  /\ index = NoSecrets /\ events = 0 /\ cache = NoSecrets
  /\ read = [a \in Agents |-> NoSecrets]
  /\ promise = [a \in Agents |-> Unbuilt]
  /\ todo = [a \in Agents |-> {}]
  /\ values = [a \in Agents |-> NoSecrets]
  /\ skipped = [a \in Agents |-> {}]
  /\ run = [a \in Agents |-> [k \in Calls |-> "idle"]]
  /\ connected = [a \in Agents |-> 0]
  /\ faults = 0

Fault == faults < MaxFaults /\ faults' = faults + 1

------------------------------------------------------------------------------
(* The portal: a new value is a new event, and the index points to it.      *)
PutSecret(n) ==
  /\ events < MaxEvents
  /\ events' = events + 1
  /\ index' = [index EXCEPT ![n] = events + 1]
  /\ UNCHANGED <<cache, read, promise, todo, values, skipped, run, connected, faults>>

DeleteSecret(n) ==
  /\ index[n] # 0
  /\ index' = [index EXCEPT ![n] = 0]
  /\ UNCHANGED <<events, cache, read, promise, todo, values, skipped, run, connected, faults>>

(* getSecretIndex: an index that cannot be read is no secrets.              *)
GetSecretIndex(a) ==
  /\ promise[a] = Unbuilt
  /\ promise' = [promise EXCEPT ![a] = "none"]
  /\ \/ read' = [read EXCEPT ![a] = index] /\ UNCHANGED faults
     \/ Fault /\ UNCHANGED read
  /\ UNCHANGED <<index, events, cache, todo, values, skipped, run, connected>>

------------------------------------------------------------------------------
(***************************************************************************)
(* sandbox_run.  The first call makes the promise, whose first step looks  *)
(* the values up in the cache; the others wait for it, or find it settled. *)
(***************************************************************************)
Known(a, n) == read[a][n] # 0 /\ cache[n] = read[a][n]

Enrich(a) ==
  LET listed == {n \in Names : read[a][n] # 0}
      known == {n \in listed : Known(a, n)}
  IN /\ promise' = [promise EXCEPT ![a] = "values"]
     /\ values' = [values EXCEPT ![a] = [n \in Names |-> IF n \in known THEN cache[n] ELSE 0]]
     /\ todo' = [todo EXCEPT ![a] = listed \ known]

SandboxRun(a, k) ==
  /\ promise[a] # Unbuilt /\ run[a][k] = "idle"
  /\ run' = [run EXCEPT ![a][k] = "waiting"]
  /\ IF promise[a] = "none" THEN Enrich(a) ELSE UNCHANGED <<promise, todo, values>>
  /\ UNCHANGED <<index, events, cache, read, skipped, connected, faults>>

(* loadSecretValues: one after the other; a value that was read is cached.  *)
LoadValue(a, n) ==
  /\ promise[a] = "values" /\ n \in todo[a]
  /\ todo' = [todo EXCEPT ![a] = @ \ {n}]
  /\ values' = [values EXCEPT ![a][n] = read[a][n]]
  /\ cache' = [cache EXCEPT ![n] = read[a][n]]
  /\ UNCHANGED <<index, events, read, promise, skipped, run, connected, faults>>

(* It cannot be fetched, or not be decrypted.                               *)
SkipValue(a, n) ==
  /\ promise[a] = "values" /\ n \in todo[a]
  /\ Fault
  /\ todo' = [todo EXCEPT ![a] = @ \ {n}]
  /\ skipped' = [skipped EXCEPT ![a] = @ \cup {n}]
  /\ UNCHANGED <<index, events, cache, read, promise, values, run, connected>>

(* The connection with all secrets; its tools, and sandbox_run among them.  *)
Connect(a) ==
  /\ promise[a] = "values" /\ todo[a] = {}
  /\ promise' = [promise EXCEPT ![a] = "tools"]
  /\ connected' = [connected EXCEPT ![a] = @ + 1]
  /\ UNCHANGED <<index, events, cache, read, todo, values, skipped, run, faults>>

Settle(a) ==
  /\ promise[a] = "tools"
  /\ \/ promise' = [promise EXCEPT ![a] = "with"] /\ UNCHANGED faults
     \/ \E end \in {"without", "failed"} : promise' = [promise EXCEPT ![a] = end] /\ Fault
  /\ UNCHANGED <<index, events, cache, read, todo, values, skipped, run, connected>>

(* A promise that was rejected rejects every call of the agent.             *)
Run(a, k) ==
  /\ run[a][k] = "waiting" /\ promise[a] \in {"with", "without", "failed"}
  /\ run' = [run EXCEPT ![a][k] = promise[a]]
  /\ UNCHANGED <<index, events, cache, read, promise, todo, values, skipped, connected, faults>>

(* A day has passed.                                                        *)
Expire(n) ==
  /\ cache[n] # 0
  /\ cache' = [cache EXCEPT ![n] = 0]
  /\ UNCHANGED <<index, events, read, promise, todo, values, skipped, run, connected, faults>>

Next ==
  \/ \E n \in Names : PutSecret(n) \/ DeleteSecret(n) \/ Expire(n)
  \/ \E a \in Agents :
       \/ GetSecretIndex(a) \/ Connect(a) \/ Settle(a)
       \/ \E n \in Names : LoadValue(a, n) \/ SkipValue(a, n)
       \/ \E k \in Calls : SandboxRun(a, k) \/ Run(a, k)

Spec == Init /\ [][Next]_vars

------------------------------------------------------------------------------
(***************************************************************************)
(* What runs in the sandbox has the secrets of the index its agent has     *)
(* read, each with the value of that event and never one cached of another *)
(* event; only what could not be read is missing (loadSecretValues).       *)
(***************************************************************************)
SecretsAreThose ==
  \A a \in Agents : promise[a] \in {"tools", "with"} =>
    \A n \in Names : values[a][n] = IF n \in skipped[a] THEN 0 ELSE read[a][n]

(* Calls that come at once make one connection, and all run with it.        *)
OneConnection ==
  \A a \in Agents :
    /\ connected[a] <= 1
    /\ \A k, l \in Calls :
         {run[a][k], run[a][l]} \cap {"idle", "waiting"} = {} => run[a][k] = run[a][l]
=============================================================================
