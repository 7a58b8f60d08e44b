---------------------------- MODULE FrontendCalls ----------------------------
(***************************************************************************)
(* Tools that run in the user's browser: the oracle calls them over the      *)
(* websocket of a session and waits for their result (apps/app/src/ws,        *)
(* packages/common/src/ai/tools, packages/events), and the tabs of the client *)
(* SDK that show the session run them.  A connection ends on the two sides at *)
(* different moments, and a client that lost it connects again.              *)
(***************************************************************************)
EXTENDS Integers, Sequences, FiniteSets

CONSTANTS
  Sessions, Tabs,
  Calls,         (* the calls of the agents: [id, kind, request, session,      *)
                 (* nested, name]; nested when a sub-agent makes it            *)
  Parts,         (* components of the page that offer actions                  *)
  Names,         (* names of actions                                          *)
  BrowserTools,  (* the browser tools the page was given                      *)
  MaxConns,      (* bound: connections of each tab                            *)
  MaxCalls,      (* bound: calls of one behaviour                             *)
  MaxCommits,    (* bound: renders that change the actions of a tab            *)
  Hasty,         (* a tab may leave before its connection is accepted          *)
  Alike          (* two components may offer an action under one name          *)

FrontendAssumption ==
  /\ {MaxConns, MaxCalls, MaxCommits} \subseteq Nat /\ {Hasty, Alike} \subseteq BOOLEAN
  /\ \A c \in Calls : c.kind \in {"browser", "agui"} /\ c.session \in Sessions

None == "none"

VARIABLES
  tab,          (* the session a tab shows, whether its socket is connected,   *)
                (* its connections so far and the first of the socket's         *)
  conn,         (* conn[x]: a connection on the server, for x = <<tab, number>> *)
  connections,  (* WsService: the connections of each session                 *)
  processed,    (* sessions handed to the history processor, how often         *)
  call,         (* the promise of each call                                    *)
  listeners,    (* of rootEventEmitter: [id, kind, of]                         *)
  down, up,     (* on the way: calls to a connection, results from one         *)
  running,      (* handlers that run in a tab                                  *)
  kept,         (* results a socket holds until it is connected again          *)
  mounted,      (* the name each component offers its action under, or None    *)
  handlers,     (* agActionHandlers: the component that serves a name          *)
  commits

links == <<tab, conn, connections, processed>>
traffic == <<call, listeners, down, up, running, kept>>
page == <<mounted, handlers, commits>>
callVars == <<links, traffic, page>>

Conns == Tabs \X (1 .. MaxConns)
Current(t) == <<t, tab[t].n>>
Joined == {x \in Conns : conn[x].pc \in {"joined", "tracked"}}

-----------------------------------------------------------------------------
(* The connection (useWebSocketEvents, handleConnection, handleDisconnect).   *)

(* The effect opens a socket for the session; the listener of browser tools is *)
(* registered then, if there are any.  The server caches the delegation first. *)
Connects(t) ==
  /\ tab[t].n < MaxConns
  /\ conn' = [conn EXCEPT ![t, tab[t].n + 1] = [session |-> tab'[t].session, pc |-> "caching"]]
Open(t) ==
  \E s \in Sessions :
    /\ tab[t].session = None
    /\ tab' = [tab EXCEPT ![t] = [session |-> s, up |-> TRUE, n |-> @.n + 1, first |-> @.n + 1]]
    /\ Connects(t) /\ UNCHANGED <<connections, processed, traffic, page>>

Reconnect(t) ==
  /\ tab[t].session # None /\ ~tab[t].up
  /\ tab' = [tab EXCEPT ![t].up = TRUE, ![t].n = @ + 1]
  /\ Connects(t)
  /\ up' = [up EXCEPT ![t, tab[t].n + 1] = kept[t]] /\ kept' = [kept EXCEPT ![t] = {}]
  /\ UNCHANGED <<connections, processed, call, listeners, down, running, page>>

(* The client loses the connection; the server learns of it on its own.       *)
Drop(t) ==
  /\ tab[t].up /\ (Hasty \/ conn[Current(t)].pc = "tracked")
  /\ tab' = [tab EXCEPT ![t].up = FALSE]
  /\ down' = [down EXCEPT ![Current(t)] = {}]
  /\ UNCHANGED <<conn, connections, processed, call, listeners, up, running, kept, page>>

(* Cleanup on unmount: the socket goes, and with it what it still holds.      *)
Close(t) ==
  /\ tab[t].session # None /\ (Hasty \/ conn[Current(t)].pc = "tracked")
  /\ tab' = [tab EXCEPT ![t].session = None, ![t].up = FALSE]
  /\ down' = [down EXCEPT ![Current(t)] = {}] /\ kept' = [kept EXCEPT ![t] = {}]
  /\ UNCHANGED <<conn, connections, processed, call, listeners, up, running, page>>

Alive(x) == tab[x[1]].up /\ x = Current(x[1])

(* cacheDelegation and join return one after the other; the connection is      *)
(* tracked even if it was lost in between.                                    *)
HandleConnection(x) ==
  \/ /\ conn[x].pc \in {"caching", "cut"}
     /\ conn' = [conn EXCEPT ![x].pc = IF @ = "cut" THEN "ghost" ELSE "joined"]
     /\ UNCHANGED <<tab, connections, processed, traffic, page>>
  \/ /\ conn[x].pc \in {"joined", "ghost"}
     /\ conn' = [conn EXCEPT ![x].pc = IF @ = "ghost" THEN "over" ELSE "tracked"]
     /\ connections' = [connections EXCEPT ![conn[x].session] = @ \cup {x}]
     /\ UNCHANGED <<tab, processed, traffic, page>>

(* removeClientConnection: the last connection of a session hands its history  *)
(* to the processor.                                                          *)
RemoveClientConnection(x) ==
  LET s == conn[x].session
      left == connections[s] \ {x}
  IN  /\ connections' = [connections EXCEPT ![s] = left]
      /\ processed' = [processed EXCEPT ![s] =
           IF left = {} /\ connections[s] # {} THEN @ + 1 ELSE @]
HandleDisconnect(x) ==
  /\ conn[x].pc \in {"caching", "joined", "tracked"} /\ ~Alive(x)
  /\ conn' = [conn EXCEPT ![x].pc =
       CASE @ = "caching" -> "cut" [] @ = "joined" -> "ghost" [] OTHER -> "over"]
  /\ RemoveClientConnection(x)
  /\ up' = [up EXCEPT ![x] = {}]
  /\ UNCHANGED <<tab, call, listeners, down, running, kept, page>>

-----------------------------------------------------------------------------
(* A call (parserBrowserTool, parserActionTool, callFrontendTool): the event   *)
(* goes to the room of a session, the listener waits for a result of its id.   *)

(* The thread of a sub-agent is its own; an action is told the session too.     *)
ThreadId(c) == IF c.nested THEN <<c.session, "agent">> ELSE <<c.session>>
ParserBrowserTool(c) == [id |-> <<"tc", c.request>>, session |-> ThreadId(c)]
ParserActionTool(c) == [id |-> <<"ag", c.id>>, session |-> <<c.session>>]
Requested(c) == IF c.kind = "browser" THEN ParserBrowserTool(c) ELSE ParserActionTool(c)

Present(s) == \E x \in Joined : Alive(x) /\ conn[x].session = s
Room(c) == {x \in Joined : <<conn[x].session>> = Requested(c).session}
CallFrontendTool(c) ==
  /\ call[c].pc = "idle" /\ Cardinality({d \in Calls : call[d].pc # "idle"}) < MaxCalls
  /\ down' = [x \in Conns |-> IF x \in Room(c) /\ Alive(x) THEN down[x] \cup {c} ELSE down[x]]
  /\ call' = [call EXCEPT ![c].pc = "waiting",
                          ![c].missed = ~(\E x \in Room(c) : Alive(x)) /\ Present(c.session)]
  /\ listeners' = listeners \cup {[id |-> Requested(c).id, kind |-> c.kind, of |-> c]}
  /\ UNCHANGED <<links, up, running, kept, page>>

Timeout(c) ==
  /\ call[c].pc = "waiting"
  /\ call' = [call EXCEPT ![c].pc = "timeout"]
  /\ listeners' = {l \in listeners : l.of # c}
  /\ UNCHANGED <<links, down, up, running, kept, page>>

(* handleFrontendToolResult: every listener of the kind looks at the id.       *)
Resolve(r) == {l \in listeners : l.kind = r.of.kind /\ l.id = Requested(r.of).id}
HandleToolResult(x) ==
  \E r \in up[x] :
    /\ up' = [up EXCEPT ![x] = @ \ {r}]
    /\ call' = [c \in Calls |->
         IF \E l \in Resolve(r) : l.of = c
         THEN [call[c] EXCEPT !.pc = IF r.ok THEN "resolved" ELSE "rejected", !.by = r.of]
         ELSE call[c]]
    /\ listeners' = listeners \ Resolve(r)
    /\ UNCHANGED <<links, down, running, kept, page>>

-----------------------------------------------------------------------------
(* In the tab: the tool is looked up when the call arrives, and its result is   *)
(* emitted on the socket the call came over.                                  *)

Emit(t, first, r) ==
  IF first # tab[t].first \/ tab[t].session = None THEN UNCHANGED <<up, kept>>
  ELSE IF tab[t].up
       THEN up' = [up EXCEPT ![Current(t)] = @ \cup {r}] /\ UNCHANGED kept
       ELSE kept' = [kept EXCEPT ![t] = @ \cup {r}] /\ UNCHANGED up

ToolOf(t, c) ==
  IF c.kind = "browser" THEN IF c.name \in BrowserTools THEN c.name ELSE None
  ELSE handlers[t][c.name]

(* Browser tools without a listener are not answered at all.                  *)
Receive(x, c) ==
  LET t == x[1] IN
  /\ c \in down[x] /\ Alive(x)
  /\ down' = [down EXCEPT ![x] = @ \ {c}]
  /\ IF c.kind = "browser" /\ BrowserTools = {} THEN UNCHANGED <<running, up, kept>>
     ELSE IF ToolOf(t, c) = None
     THEN Emit(t, tab[t].first, [of |-> c, ok |-> FALSE]) /\ UNCHANGED running
     ELSE running' = running \cup {[tab |-> t, first |-> tab[t].first, of |-> c]}
          /\ UNCHANGED <<up, kept>>
  /\ UNCHANGED <<links, call, listeners, page>>

(* executeToolAndEmitResult: what the handler throws is the result as well.    *)
ExecuteToolAndEmitResult(h) ==
  /\ h \in running /\ running' = running \ {h}
  /\ \E ok \in BOOLEAN : Emit(h.tab, h.first, [of |-> h.of, ok |-> ok])
  /\ UNCHANGED <<links, call, listeners, down, page>>

-----------------------------------------------------------------------------
(* The actions of a page (useAgAction): in one commit React first cleans up     *)
(* every component whose name changed, then runs the effects of all of them.    *)

Distinct(m) == \A p, q \in Parts : m[p] = m[q] /\ m[p] # None => p = q
Changed(t, m) == {p \in Parts : m[p] # mounted[t][p]}
UnregisterAgAction(t, m) ==
  LET gone == {mounted[t][p] : p \in Changed(t, m)}
  IN  [a \in Names |-> IF a \in gone THEN None ELSE handlers[t][a]]
RegisterAgAction(t, m, left) ==
  {h \in [Names -> Parts \cup {None}] :
     \A a \in Names :
       LET offer == {p \in Changed(t, m) : m[p] = a}
       IN  IF offer = {} THEN h[a] = left[a] ELSE h[a] \in offer}
Commit(t) ==
  \E m \in [Parts -> Names \cup {None}] :
    /\ commits < MaxCommits /\ m # mounted[t] /\ (Alike \/ Distinct(m))
    /\ mounted' = [mounted EXCEPT ![t] = m]
    /\ \E h \in RegisterAgAction(t, m, UnregisterAgAction(t, m)) :
         handlers' = [handlers EXCEPT ![t] = h]
    /\ commits' = commits + 1
    /\ UNCHANGED <<links, traffic>>

-----------------------------------------------------------------------------
Init ==
  /\ tab = [t \in Tabs |-> [session |-> None, up |-> FALSE, n |-> 0, first |-> 0]]
  /\ conn = [x \in Conns |-> [session |-> None, pc |-> "new"]]
  /\ connections = [s \in Sessions |-> {}] /\ processed = [s \in Sessions |-> 0]
  /\ call = [c \in Calls |-> [pc |-> "idle", by |-> c, missed |-> FALSE]]
  /\ listeners = {} /\ running = {}
  /\ down = [x \in Conns |-> {}] /\ up = [x \in Conns |-> {}]
  /\ kept = [t \in Tabs |-> {}]
  /\ mounted = [t \in Tabs |-> [p \in Parts |-> None]]
  /\ handlers = [t \in Tabs |-> [a \in Names |-> None]]
  /\ commits = 0

Next ==
  \/ \E t \in Tabs : Open(t) \/ Reconnect(t) \/ Drop(t) \/ Close(t) \/ Commit(t)
  \/ \E x \in Conns :
       \/ HandleConnection(x) \/ HandleDisconnect(x) \/ HandleToolResult(x)
       \/ \E c \in Calls : Receive(x, c)
  \/ \E c \in Calls : CallFrontendTool(c) \/ Timeout(c)
  \/ \E h \in running : ExecuteToolAndEmitResult(h)

Spec == Init /\ [][Next]_callVars

-----------------------------------------------------------------------------
TypeOK ==
  /\ \A t \in Tabs : tab[t].session \in Sessions \cup {None} /\ tab[t].n \in 0 .. MaxConns
  /\ \A c \in Calls : call[c].pc \in {"idle", "waiting", "resolved", "rejected", "timeout"}
  /\ handlers \in [Tabs -> [Names -> Parts \cup {None}]]

(* A call is settled by a result of its own, and leaves no listener behind.     *)
OwnResult ==
  /\ \A c \in Calls : call[c].pc \in {"resolved", "rejected"} => call[c].by = c
  /\ {l.of : l \in listeners} = {c \in Calls : call[c].pc = "waiting"}

(* An action that is called while a tab of its session is connected reaches     *)
(* that tab, also out of a sub-agent.                                         *)
ReachesTab(kinds) == \A c \in Calls : c.kind \in kinds => ~call[c].missed
ActionsAreHeard == ReachesTab({"agui"})
ToolsAreHeard == ReachesTab({"browser"})

(* The history of a session whose connections are all closed was handed over,    *)
(* and a session is listed exactly as long as it has one.                      *)
ProcessedWhenGone ==
  \A s \in Sessions :
    LET tracked == {x \in Conns : conn[x].session = s /\ conn[x].pc = "tracked"}
        over == {x \in Conns : conn[x].session = s /\ conn[x].pc = "over"}
    IN  connections[s] = tracked /\ (over # {} /\ tracked = {} => processed[s] > 0)

(* What serves an action is the component that offers it now: none that is      *)
(* gone, and none under the name it had before.                               *)
ServedByItsOwner ==
  \A t \in Tabs, a \in Names :
    handlers[t][a] = (IF \E p \in Parts : mounted[t][p] = a
                      THEN CHOOSE p \in Parts : mounted[t][p] = a ELSE None)
=============================================================================
