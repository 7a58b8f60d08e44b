------------------------------ MODULE Startup ------------------------------
(***************************************************************************)
(* How the oracle comes up and goes down (apps/app/src/main.ts): the bot's  *)
(* Matrix client, the editor's own client, the listener for messages, and   *)
(* the graceful shutdown that a signal starts.  Tasks and agents ask for the *)
(* editor's client from the moment the server listens.                      *)
(***************************************************************************)
EXTENDS Integers, FiniteSets

CONSTANTS
  Users,        (* tasks and agents that need the editor's client              *)
  Signals,      (* signals that may arrive, each once                         *)
  EarlySignals, (* a signal may arrive while the bot's client is being started  *)
  CronAtExit,   (* the upload cron may run while the process goes down         *)
  MaxClients    (* bound: clients made for the editor                         *)

StartupAssumption ==
  MaxClients \in Nat \ {0} /\ {EarlySignals, CronAtExit} \subseteq BOOLEAN

VARIABLES
  boot,       (* how far bootstrap got                                        *)
  bot,        (* MatrixManager: ready, and its client                         *)
  listener,   (* what onModuleInit is at, and how many listeners it registered *)
  ed,         (* EditorMatrixClient: ready, its client, the initialization     *)
              (* under way (0: none), and how many clients were made           *)
  alive,      (* editor clients that sync                                     *)
  user,       (* user[u]: where a caller of the editor client is               *)
  upload,     (* who runs the upload of checkpoints (cronRunning)              *)
  down,       (* down[s]: how far the graceful shutdown of a signal got        *)
  exited

startupVars == <<boot, bot, listener, ed, alive, user, upload, down, exited>>

NoUpload == "none"
Up == boot = "up"
Running == ~exited

-----------------------------------------------------------------------------
(* SimpleMatrixClient: only a client that was started is stopped.            *)
Stopped(client) == IF client = "live" THEN "stopped" ELSE client

(* performInitialization of MatrixManager creates a client, then starts it,   *)
(* or gives it up.                                                           *)
CreateBot == bot.client = "none" /\ bot' = [bot EXCEPT !.client = "new"]
BotStarts == bot.client = "new" /\ bot' = [ready |-> TRUE, client |-> "live"]
BotFails == bot.client = "new" /\ bot' = [ready |-> FALSE, client |-> "none"]

(* bootstrap: the bot first.                                                 *)
BeginBoot ==
  /\ Running /\ boot = "begin" /\ CreateBot /\ boot' = "bot"
  /\ UNCHANGED <<listener, ed, alive, user, upload, down, exited>>

(* init() of the editor's client.  A run that is under way is shared.         *)
CallInit_each(u) ==
  /\ ed.made < MaxClients
  /\ user' = [user EXCEPT ![u] = "await"]
  /\ ed' = [ed EXCEPT !.made = @ + 1, !.client = ed.made + 1, !.run = ed.made + 1]
  /\ alive' = alive \cup {ed.made + 1}
CallInit(u) ==
  IF ed.ready /\ ed.client # 0
    THEN user' = [user EXCEPT ![u] = "got"] /\ UNCHANGED <<ed, alive>>
  ELSE IF ed.run # 0
    THEN user' = [user EXCEPT ![u] = "await"] /\ UNCHANGED <<ed, alive>>
  ELSE /\ ed.made < MaxClients
       /\ user' = [user EXCEPT ![u] = "await"]
       /\ ed' = [ed EXCEPT !.made = @ + 1, !.client = ed.made + 1, !.run = ed.made + 1]
       /\ alive' = alive \cup {ed.made + 1}

(* When the bot is up its editor client is begun, in the background; then the  *)
(* signing and the encryption key are loaded.  Any failure only skips the rest. *)
Booted ==
  /\ Running /\ boot = "bot"
  /\ \/ BotStarts /\ CallInit("boot") /\ boot' = "keys"
     \/ BotFails /\ boot' = "listen" /\ UNCHANGED <<ed, alive, user>>
  /\ UNCHANGED <<listener, upload, down, exited>>

LoadKeys ==
  /\ Running /\ boot = "keys" /\ boot' = "listen"
  /\ UNCHANGED <<bot, listener, ed, alive, user, upload, down, exited>>

(* app.listen initializes the modules: onModuleInit waits for the bot, or      *)
(* tries once more to start it, and does not hold up the server.              *)
Listen ==
  /\ Running /\ boot = "listen" /\ boot' = "up"
  /\ IF bot.ready
       THEN listener' = [pc |-> "end", on |-> 1] /\ UNCHANGED bot
       ELSE listener' = [pc |-> "wait", on |-> 0] /\ CreateBot
  /\ UNCHANGED <<ed, alive, user, upload, down, exited>>

OnModuleInit ==
  /\ Running /\ listener.pc = "wait"
  /\ \/ BotStarts /\ listener' = [pc |-> "end", on |-> listener.on + 1]
     \/ BotFails /\ listener' = [listener EXCEPT !.pc = "end"]
  /\ UNCHANGED <<boot, ed, alive, user, upload, down, exited>>

-----------------------------------------------------------------------------
(* The editor's client.                                                      *)

Settle(state) == user' = [u \in DOMAIN user |-> IF user[u] = "await" THEN state ELSE user[u]]

(* startAndSync ends with the first sync ...                                  *)
SyncReady ==
  /\ Running /\ ed.run \in alive
  /\ ed' = [ed EXCEPT !.ready = TRUE, !.run = 0] /\ Settle("got")
  /\ UNCHANGED <<boot, bot, listener, alive, upload, down, exited>>

(* ... or with an error or the time limit: cleanup.                           *)
SyncFails ==
  /\ Running /\ ed.run # 0
  /\ alive' = alive \ {ed.client}
  /\ ed' = [ed EXCEPT !.ready = FALSE, !.client = 0, !.run = 0] /\ Settle("failed")
  /\ UNCHANGED <<boot, bot, listener, upload, down, exited>>

Init_(u) ==
  /\ Running /\ Up /\ user[u] \in {"idle", "failed"} /\ CallInit(u)
  /\ UNCHANGED <<boot, bot, listener, upload, down, exited>>

(* waitUntilReady: begins an initialization when there is none, else looks     *)
(* again and again for a while.                                               *)
WaitUntilReady(u) ==
  /\ Running /\ Up /\ user[u] \in {"idle", "failed"}
  /\ IF ~ed.ready /\ ed.run # 0
       THEN user' = [user EXCEPT ![u] = "poll"] /\ UNCHANGED <<ed, alive>>
       ELSE CallInit(u)
  /\ UNCHANGED <<boot, bot, listener, upload, down, exited>>

Poll(u) ==
  /\ Running /\ user[u] = "poll"
  /\ user' = [user EXCEPT ![u] = IF ed.ready /\ ed.client # 0 THEN "got" ELSE "failed"]
  /\ UNCHANGED <<boot, bot, listener, ed, alive, upload, down, exited>>

Done(u) ==
  /\ Running /\ u \in Users /\ user[u] = "got" /\ user' = [user EXCEPT ![u] = "idle"]
  /\ UNCHANGED <<boot, bot, listener, ed, alive, upload, down, exited>>

-----------------------------------------------------------------------------
(* Going down.                                                               *)

CronBegins ==
  /\ Running /\ Up /\ upload = NoUpload /\ upload' = "cron"
  /\ CronAtExit \/ \A s \in Signals : down[s] = "no"
  /\ UNCHANGED <<boot, bot, listener, ed, alive, user, down, exited>>
CronEnds ==
  /\ Running /\ upload = "cron" /\ upload' = NoUpload
  /\ UNCHANGED <<boot, bot, listener, ed, alive, user, down, exited>>

Step(s, to) == down' = [down EXCEPT ![s] = to]

(* Each signal starts a shutdown of its own.  The checkpoints are uploaded      *)
(* unless an upload is under way.                                             *)
GracefulShutdown(s) ==
  /\ Running /\ down[s] = "no"
  /\ EarlySignals \/ (Up /\ listener.pc = "end")
  /\ upload # "cron" \/ CronAtExit
  /\ IF upload = NoUpload THEN upload' = s /\ Step(s, "upload")
     ELSE UNCHANGED upload /\ Step(s, "close")
  /\ UNCHANGED <<boot, bot, listener, ed, alive, user, exited>>

Uploaded(s) ==
  /\ Running /\ down[s] = "upload" /\ Step(s, "close") /\ upload' = NoUpload
  /\ UNCHANGED <<boot, bot, listener, ed, alive, user, exited>>

(* app.close: onModuleDestroy takes the listener away.                        *)
Close(s) ==
  /\ Running /\ down[s] = "close" /\ Step(s, "bot")
  /\ listener' = [listener EXCEPT !.on = 0]
  /\ UNCHANGED <<boot, bot, ed, alive, user, upload, exited>>

ShutdownBot(s) ==
  /\ Running /\ down[s] = "bot" /\ Step(s, "editor")
  /\ bot' = [ready |-> IF bot.client = "none" THEN bot.ready ELSE FALSE,
             client |-> Stopped(bot.client)]
  /\ UNCHANGED <<boot, listener, ed, alive, user, upload, exited>>

(* EditorMatrixClient.destroy, and the end of the process.                     *)
Destroy(s) ==
  /\ Running /\ down[s] = "editor" /\ Step(s, "exit") /\ exited' = TRUE
  /\ alive' = alive \ {ed.client}
  /\ ed' = [ed EXCEPT !.ready = FALSE, !.client = 0]
  /\ UNCHANGED <<boot, bot, listener, user, upload>>

-----------------------------------------------------------------------------
Init ==
  /\ boot = "begin" /\ bot = [ready |-> FALSE, client |-> "none"]
  /\ listener = [pc |-> "no", on |-> 0]
  /\ ed = [ready |-> FALSE, client |-> 0, run |-> 0, made |-> 0] /\ alive = {}
  /\ user = [u \in Users \cup {"boot"} |-> "idle"]
  /\ upload = NoUpload /\ down = [s \in Signals |-> "no"] /\ exited = FALSE

Next ==
  \/ BeginBoot \/ Booted \/ LoadKeys \/ Listen \/ OnModuleInit
  \/ SyncReady \/ SyncFails \/ CronBegins \/ CronEnds
  \/ \E u \in Users : Init_(u) \/ WaitUntilReady(u) \/ Poll(u) \/ Done(u)
  \/ \E s \in Signals :
       GracefulShutdown(s) \/ Uploaded(s) \/ Close(s) \/ ShutdownBot(s) \/ Destroy(s)

Spec == Init /\ [][Next]_startupVars

-----------------------------------------------------------------------------
(* Types of the variables.                                                   *)
TypeOK ==
  /\ boot \in {"begin", "bot", "keys", "listen", "up"}
  /\ bot \in [ready : BOOLEAN, client : {"none", "new", "live", "stopped"}]
  /\ listener \in [pc : {"no", "wait", "end"}, on : 0..1]
  /\ alive \subseteq 1..MaxClients /\ ed.client \in 0..MaxClients /\ ed.run \in 0..MaxClients
  /\ user \in [Users \cup {"boot"} -> {"idle", "await", "poll", "got", "failed"}]

(* "Safe to call multiple times - will only initialize once" (editor-mx.ts:52): *)
(* however callers, failed syncs and retries interleave, one editor client at   *)
(* most syncs, the one the next caller will be given, and a caller that was      *)
(* given a client has one that is synced.                                       *)
OneEditorClient ==
  /\ Cardinality(alive) <= 1 /\ alive \subseteq {ed.client}
  /\ Running => \A u \in Users : user[u] = "got" => ed.ready /\ ed.client \in alive

(* Once the server is up and the bot's client syncs, messages are listened to,  *)
(* once, although the bot may have come up in bootstrap or on the second         *)
(* attempt, until a shutdown takes the listener away.                           *)
IsListening ==
  (\A s \in Signals : down[s] = "no") =>
    /\ Up /\ bot.client = "live" => listener.on = 1
    /\ listener.on = 1 => bot.client = "live"

(* An exit cuts no upload short, and leaves no client syncing and no listener    *)
(* behind ("Gracefully stop the Matrix client to avoid crypto corruption").      *)
(* Restricted by Signals, EarlySignals and CronAtExit.                          *)
ExitIsOrderly ==
  exited => upload \notin Signals \cup {"cron"} /\ bot.client # "live" /\ bot.client # "new"
            /\ alive = {} /\ listener.on = 0
=============================================================================
