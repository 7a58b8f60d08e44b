----------------------------- MODULE SlackLink -----------------------------
(***************************************************************************)
(* The Slack connection (packages/slack, apps/app/src/slack): the socket of *)
(* the Bolt SDK with the restarts that back it up, and the session each     *)
(* thread is answered in.  The SDK itself is external: its socket breaks    *)
(* and comes back on its own.                                              *)
(***************************************************************************)
EXTENDS Integers, FiniteSets

CONSTANTS
  Fallbacks,      (* slots for the timers that connection errors leave         *)
  MaxReconnect,   (* maxReconnectAttempts                                     *)
  MaxDelay,       (* doublings until maxReconnectDelay                        *)
  Overlap,        (* several restarts may be under way, also while it stops    *)
  MaxEvents,      (* bound: errors, starts that fail, expired entries          *)
  Threads, Msgs,  (* threads, and messages in them                            *)
  SerialThreads   (* a thread has one message at a time                       *)

SlackAssumption ==
  /\ MaxReconnect \in Nat /\ MaxDelay \in Nat /\ MaxEvents \in Nat
  /\ {Overlap, SerialThreads} \subseteq BOOLEAN

VARIABLES
  link,      (* Slack: isStarted, reconnectAttempts, reconnectDelay, health     *)
             (* intervals that run, and the one it knows of                    *)
  socket,    (* the SDK's socket                                              *)
  module,    (* SlackService: onModuleInit, running, onModuleDestroy           *)
  fall,      (* fall[f]: a timer of handleConnectionError and what follows      *)
  failed,    (* the last start failed                                         *)
  events,
  session,   (* session[i]: the thread session i was created for               *)
  cached,    (* cached[t]: the session cached for thread t, 0 when none         *)
  msg        (* msg[m]: a message being answered                              *)

slackVars == <<link, socket, module, fall, failed, events, session, cached, msg>>
connection == <<link, socket, module, fall, failed>>
answering == <<session, cached, msg>>

Again == events < MaxEvents /\ events' = events + 1
Free == {f \in Fallbacks : fall[f] = "free"}
Restarting == {f \in Fallbacks : fall[f] \in {"stop", "pause", "start"}}

-----------------------------------------------------------------------------
(* start() and stop() each wait for the SDK in the middle.                    *)

Started ==
  /\ socket' = "up" /\ failed' = FALSE
  /\ link' = [started |-> TRUE, attempts |-> 0, delay |-> 0,
              intervals |-> link.intervals + 1, known |-> TRUE]
StartFails == failed' = TRUE /\ link' = [link EXCEPT !.started = FALSE] /\ UNCHANGED socket

StopHealthMonitoring(l) ==
  [l EXCEPT !.intervals = @ - (IF l.known THEN 1 ELSE 0), !.known = FALSE]
Stopped == socket' = "off" /\ link' = [link EXCEPT !.started = FALSE]

(* handleConnectionError: counted, and looked at again after a delay, unless    *)
(* there were too many.                                                       *)
HandleConnectionError ==
  IF ~link.started THEN UNCHANGED <<link, fall>>
  ELSE /\ link' = [link EXCEPT !.attempts = @ + 1]
       /\ IF link.attempts + 1 > MaxReconnect THEN UNCHANGED fall
          ELSE \E f \in Free : fall' = [fall EXCEPT ![f] = "timer"]

(* 'disconnected' with an error, 'close' with an abnormal code.               *)
Breaks ==
  /\ socket = "up" /\ Again /\ socket' = "down" /\ HandleConnectionError
  /\ UNCHANGED <<module, failed, answering>>

(* 'error', an error of the app: the socket may be well.                      *)
ReportsError ==
  /\ module = "run" /\ Again /\ HandleConnectionError
  /\ UNCHANGED <<socket, module, failed, answering>>

(* 'reconnecting' and 'reconnected'.                                          *)
Reconnecting ==
  /\ socket = "down" /\ link.attempts <= MaxReconnect /\ Again
  /\ link' = [link EXCEPT !.attempts = @ + 1]
  /\ UNCHANGED <<socket, module, fall, failed, answering>>
Reconnected ==
  /\ socket = "down" /\ socket' = "up"
  /\ link' = [link EXCEPT !.attempts = 0, !.delay = 0]
  /\ UNCHANGED <<module, fall, failed, events, answering>>

(* The health interval asks the web API, not the socket.                      *)
HealthCheck ==
  /\ link.intervals > 0 /\ UNCHANGED <<socket, module, failed, answering>>
  /\ \/ link.attempts > 0 /\ link' = [link EXCEPT !.attempts = 0, !.delay = 0]
        /\ UNCHANGED <<fall, events>>
     \/ link.attempts = 0 /\ Again /\ HandleConnectionError

(* The timer: if the web API answers all is taken to be well, else restart.     *)
Goto(f, pc) == fall' = [fall EXCEPT ![f] = pc]
Check(f) ==
  /\ fall[f] = "timer" /\ UNCHANGED <<socket, module, failed, events, answering>>
  /\ \/ Goto(f, "free") /\ link' = [link EXCEPT !.attempts = 0]
     \/ /\ Overlap \/ (Restarting = {} /\ module = "run")
        /\ IF link.started THEN Goto(f, "stop") /\ link' = StopHealthMonitoring(link)
           ELSE Goto(f, "start") /\ UNCHANGED link

RestartStopped(f) ==
  /\ fall[f] = "stop" /\ Stopped /\ Goto(f, "pause")
  /\ UNCHANGED <<module, failed, events, answering>>

RestartBegins(f) ==
  /\ fall[f] = "pause" /\ Goto(f, IF link.started THEN "free" ELSE "start")
  /\ UNCHANGED <<link, socket, module, failed, events, answering>>

Longer(l) == [l EXCEPT !.delay = IF @ < MaxDelay THEN @ + 1 ELSE @]
RestartEnds(f) ==
  /\ fall[f] = "start" /\ Goto(f, "free") /\ UNCHANGED <<module, answering>>
  /\ \/ Started /\ UNCHANGED events
     \/ Again /\ failed' = TRUE /\ UNCHANGED socket
        /\ link' = Longer([link EXCEPT !.started = FALSE])

-----------------------------------------------------------------------------
(* SlackService.                                                             *)

OnModuleInit ==
  /\ module = "init" /\ module' = "run" /\ UNCHANGED <<fall, answering>>
  /\ \/ Started /\ UNCHANGED events
     \/ Again /\ StartFails

OnModuleDestroy ==
  /\ module = "run" /\ (Overlap \/ Restarting = {})
  /\ IF link.started THEN module' = "stop" /\ link' = StopHealthMonitoring(link)
     ELSE module' = "end" /\ UNCHANGED link
  /\ UNCHANGED <<socket, fall, failed, events, answering>>

ModuleStopped ==
  /\ module = "stop" /\ Stopped /\ module' = "end"
  /\ UNCHANGED <<fall, failed, events, answering>>

-----------------------------------------------------------------------------
(* onMessageHandler: the session of the thread, then the answer.              *)

SetMsg(m, r) == msg' = [msg EXCEPT ![m] = r] /\ UNCHANGED connection
InThread(t) == {m \in Msgs : msg[m].pc \notin {"new", "sent"} /\ msg[m].thread = t}

Receive(m, t) ==
  /\ socket = "up" /\ msg[m].pc = "new" /\ (SerialThreads => InThread(t) = {})
  /\ SetMsg(m, IF cached[t] # 0 THEN [pc |-> "send", thread |-> t, session |-> cached[t]]
               ELSE [pc |-> "list", thread |-> t, session |-> 0])
  /\ UNCHANGED <<events, session, cached>>

Of(t) == {i \in DOMAIN session : session[i] = t}
ListSessions(m) ==
  LET t == msg[m].thread IN
  /\ msg[m].pc = "list" /\ UNCHANGED <<events, session>>
  /\ IF Of(t) = {} THEN SetMsg(m, [msg[m] EXCEPT !.pc = "create"]) /\ UNCHANGED cached
     ELSE LET i == CHOOSE i \in Of(t) : \A j \in Of(t) : j <= i IN
          /\ SetMsg(m, [msg[m] EXCEPT !.pc = "send", !.session = i])
          /\ cached' = [cached EXCEPT ![t] = i]

CreateSession(m) ==
  LET t == msg[m].thread  n == Cardinality(DOMAIN session) + 1 IN
  /\ msg[m].pc = "create" /\ UNCHANGED events
  /\ session' = [i \in DOMAIN session \cup {n} |-> IF i = n THEN t ELSE session[i]]
  /\ cached' = [cached EXCEPT ![t] = n]
  /\ SetMsg(m, [msg[m] EXCEPT !.pc = "send", !.session = n])

Answer(m) ==
  /\ msg[m].pc = "send" /\ SetMsg(m, [msg[m] EXCEPT !.pc = "sent"])
  /\ UNCHANGED <<events, session, cached>>

Lapse(t) ==
  /\ cached[t] # 0 /\ Again /\ cached' = [cached EXCEPT ![t] = 0]
  /\ UNCHANGED <<connection, session, msg>>

-----------------------------------------------------------------------------
Init ==
  /\ link = [started |-> FALSE, attempts |-> 0, delay |-> 0, intervals |-> 0, known |-> FALSE]
  /\ socket = "off" /\ module = "init" /\ fall = [f \in Fallbacks |-> "free"]
  /\ failed = FALSE /\ events = 0
  /\ session = << >> /\ cached = [t \in Threads |-> 0]
  /\ msg = [m \in Msgs |-> [pc |-> "new", session |-> 0]]

Next ==
  \/ OnModuleInit \/ OnModuleDestroy \/ ModuleStopped
  \/ Breaks \/ ReportsError \/ Reconnecting \/ Reconnected \/ HealthCheck
  \/ \E f \in Fallbacks :
       Check(f) \/ RestartStopped(f) \/ RestartBegins(f) \/ RestartEnds(f)
  \/ \E m \in Msgs, t \in Threads : Receive(m, t)
  \/ \E m \in Msgs : ListSessions(m) \/ CreateSession(m) \/ Answer(m)
  \/ \E t \in Threads : Lapse(t)

Spec == Init /\ [][Next]_slackVars

-----------------------------------------------------------------------------
(* Types of the variables.                                                   *)
TypeOK ==
  /\ link.started \in BOOLEAN /\ link.known \in BOOLEAN
  /\ link.attempts \in 0..MaxEvents /\ link.delay \in 0..MaxDelay /\ link.intervals \in Nat
  /\ socket \in {"off", "up", "down"} /\ module \in {"init", "run", "stop", "end"}
  /\ \A t \in Threads : cached[t] \in DOMAIN session \cup {0}

(* Restarts, health checks and errors that overtake each other never leave a    *)
(* second health interval behind, and a stopped service has neither an interval *)
(* nor a socket.  Restricted by Overlap: two restarts both pass the test of      *)
(* isStarted (slack.ts:560) before either has set it.                          *)
OneInterval ==
  /\ link.intervals = IF link.known THEN 1 ELSE 0
  /\ module = "end" /\ Restarting = {} => link.intervals = 0 /\ socket = "off"

(* While the service runs, a socket that is not up is one the SDK is bringing    *)
(* back, or a restart is under way, or the last start failed.                   *)
SomeoneRestores ==
  module = "run" /\ socket # "up" =>
    (socket = "down" /\ link.started) \/ Restarting # {} \/ failed

(* A thread is answered in one session, the one created for it, while its cache  *)
(* entry comes and goes.  Restricted by SerialThreads: two messages of a new     *)
(* thread find neither (slack.service.ts:161) and create a session each.         *)
OneSessionPerThread ==
  /\ \A t \in Threads : Cardinality(Of(t)) <= 1 /\ (cached[t] # 0 => cached[t] \in Of(t))
  /\ \A m \in Msgs : msg[m].session # 0 => msg[m].session \in Of(msg[m].thread)
=============================================================================
