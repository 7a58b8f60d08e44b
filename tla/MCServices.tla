----------------------------- MODULE MCServices -----------------------------
(***************************************************************************)
(* What serves every conversation, for TLC: a recurring task when nothing   *)
(* fails, the files attached to a message, the start and the end of the     *)
(* process, the Slack connection, the delegations services are called with  *)
(* (Authorization), the tools of the browser, and voice calls.  They share   *)
(* no variable, so that no step of one changes what the others do: a         *)
(* behaviour runs one part and leaves the others as they begin.             *)
(***************************************************************************)
EXTENDS Attachments, Authorization

CONSTANTS
  Delivers, Users, Ops, MaxWork, MaxPosts, MaxFailures, WorkTries, DeliverTries,
  RequiresApproval, AgentFails, MayFail, Overlap, Stale,
  Callers, Signals, EarlySignals, CronAtExit, MaxClients,
  Fallbacks, MaxReconnect, MaxDelay, Restarts, MaxBreaks, Threads, Msgs, SerialThreads,
  Chats, Tabs, ToolCalls, Parts, Names, BrowserTools, MaxConns, MaxCalls, MaxCommits, Hasty, Alike,
  VoiceCalls, Impatient, Repeats, Leaves, StatusFails, MaxFails, MaxReloads

VARIABLES
  part,
  meta, copies, cron, made, work, deliver, user, answer, delivered, posted, expired, detected,
  misled,
  boot, bot, listener, ed, alive, caller, upload, down, exited,
  link, socket, module, fall, failed, events, session, cached, msg,
  tab, conn, connections, processed, toolCall, listeners, toTab, up, running, kept,
  mounted, handlers, commits,
  event, changes, rows, requests, ref, key, details, fetching, room, shown, starting, ending,
  fails, reloads

recurring == <<meta, copies, cron, made, work, deliver, user, answer, delivered, posted, expired,
               detected, misled>>
process == <<boot, bot, listener, ed, alive, caller, upload, down, exited>>
slack == <<link, socket, module, fall, failed, events, session, cached, msg>>
tools == <<tab, conn, connections, processed, toolCall, listeners, toTab, up, running, kept,
           mounted, handlers, commits>>
voice == <<event, changes, rows, requests, ref, key, details, fetching, room, shown, starting,
           ending, fails, reloads>>

Flow == INSTANCE RecurringFlow
Process == INSTANCE Startup WITH Users <- Callers, user <- caller
Slack == INSTANCE SlackLink WITH Overlap <- Restarts, MaxEvents <- MaxBreaks
Tools == INSTANCE FrontendCalls WITH Sessions <- Chats, Calls <- ToolCalls, call <- toolCall,
                                     down <- toTab
Voice == INSTANCE LiveCall WITH Calls <- VoiceCalls, start <- starting, end <- ending

ASSUME Process!StartupAssumption /\ Slack!SlackAssumption
       /\ Tools!FrontendAssumption /\ Voice!LiveCallAssumption

(* Attachments from each source, of each kind, with and without a size.      *)
File(name, kind, plain, source, size) ==
  [name |-> name, stem |-> name, kind |-> kind, plain |-> plain, source |-> source, size |-> size]
SomeUploads ==
  { <<File("a", "image", FALSE, "http", 1), File("b", "document", FALSE, "event", 0)>>,
    <<File("a", "audio", FALSE, "mxc", 0), File("b", "document", TRUE, "event", 2)>>,
    <<File("a", "other", FALSE, "mxc", 0), File("b", "video", FALSE, "mxc", 0),
      File("c", "document", TRUE, "none", 1)>> }
SomeNamed ==
  { File("d", "other", FALSE, "http", 0), File("d", "image", FALSE, "http", 0),
    File("d", "document", FALSE, "event", 0) }

(* A user with a key of another type, a device of the user, the oracle, and a  *)
(* service; tokens of two branches, one of them signed with the wrong key.     *)
Key(k, type, form) == [key |-> k, type |-> type, form |-> form]
SomeDocuments ==
  [user   |-> [method |-> "ixo", keys |-> <<Key("k1", "other", "z"), Key("k2", "ed25519", "hex"),
                                            Key("k3", "ed25519", "z")>>],
   phone  |-> [method |-> "key", keys |-> <<Key("k3", "ed25519", "z")>>],
   oracle |-> [method |-> "ixo", keys |-> <<Key("k4", "ed25519", "z")>>],
   svc    |-> [method |-> "web", keys |-> <<Key("k5", "ed25519", "hex"), Key("k6", "ed25519", "z")>>]]
Token(issuer, audience, k, exp, from, with) ==
  [issuer |-> issuer, audience |-> audience, key |-> k, exp |-> exp, proofs |-> from, with |-> with]
SomeTokens ==
  << Token("user", "oracle", "k2", 3, << >>, <<"user", "*">>),
     Token("oracle", "svc", "k4", 0, <<1>>, <<"user", "box">>),
     Token("user", "phone", "k3", 2, << >>, <<"user", "*">>),
     Token("user", "svc", "k3", 4, <<3>>, <<"user", "*">>),
     Token("oracle", "svc", "k4", 3, <<3>>, <<"user", "box">>),
     Token("user", "oracle", "k1", 4, <<3>>, <<"user", "*">>),
     Token("oracle", "svc", "k4", 4, <<6>>, <<"user", "box">>) >>
SomeResources == {<<"user", "box">>, <<"user", "mail">>}

(* Two actions asked for in one request, by a sub-agent and by the agent, and a   *)
(* browser tool.                                                              *)
ToolCall(id, kind, nested, name) ==
  [id |-> id, kind |-> kind, request |-> "r", session |-> "s", nested |-> nested, name |-> name]
SomeToolCalls ==
  {ToolCall(1, "agui", TRUE, "x"), ToolCall(2, "agui", FALSE, "x"),
   ToolCall(3, "browser", FALSE, "b")}

PartInit ==
  /\ part \in {"flow", "files", "process", "slack", "ucan", "proofs", "tools", "voice"}
  /\ Init /\ Flow!Init /\ Process!Init /\ Slack!Init
  /\ Ucan!Init /\ Proofs!Init /\ Tools!Init /\ Voice!Init
  /\ part # "files" => files = CHOOSE u \in Uploads : TRUE

PartNext ==
  \/ /\ part = "files" /\ Next
     /\ UNCHANGED <<part, recurring, process, slack, ucan, proofs, tools, voice>>
  \/ /\ part = "flow" /\ Flow!Next
     /\ UNCHANGED <<part, fileVars, process, slack, ucan, proofs, tools, voice>>
  \/ /\ part = "process" /\ Process!Next
     /\ UNCHANGED <<part, fileVars, recurring, slack, ucan, proofs, tools, voice>>
  \/ /\ part = "slack" /\ Slack!Next
     /\ UNCHANGED <<part, fileVars, recurring, process, ucan, proofs, tools, voice>>
  \/ /\ part = "ucan" /\ Ucan!Next
     /\ UNCHANGED <<part, fileVars, recurring, process, slack, proofs, tools, voice>>
  \/ /\ part = "proofs" /\ Proofs!Next
     /\ UNCHANGED <<part, fileVars, recurring, process, slack, ucan, tools, voice>>
  \/ /\ part = "tools" /\ Tools!Next
     /\ UNCHANGED <<part, fileVars, recurring, process, slack, ucan, proofs, voice>>
  \/ /\ part = "voice" /\ Voice!Next
     /\ UNCHANGED <<part, fileVars, recurring, process, slack, ucan, proofs, tools>>

(* The fairness of the recurring task, for the behaviours of its part.        *)
InFlow(A) == part = "flow" /\ A

PartSpec ==
  /\ PartInit /\ [][PartNext]_<<part, fileVars, recurring, process, slack, ucan, proofs, tools, voice>>
  /\ \A w \in Flow!WorkId :
       WF_recurring(InFlow(Flow!StartWork(w))) /\ WF_recurring(InFlow(Flow!FinishWork(w)))
  /\ \A d \in Delivers :
       WF_recurring(InFlow(Flow!CronTick(d))) /\ WF_recurring(InFlow(Flow!DeliverStep(d)))
  /\ \A u \in Users : WF_recurring(InFlow(user[u].pc # "idle" /\ Flow!UserStep(u)))

(* A recurring task keeps running: every work job is delivered unless its user *)
(* stops it.                                                                  *)
RunsGoOn == part = "flow" => Flow!RunsGoOn

(* Connections (bootstrap, EditorMatrixClient, Slack, websockets, voice calls):  *)
(* callers, failed starts, restarts and signals that overtake each other leave   *)
(* one client, one listener and one health check, none after the end, and a      *)
(* thread has one session; a browser answers what it was asked and a session     *)
(* without connections is processed; a caller is in the room of the call whose   *)
(* key it holds, and not in one that ended.                                    *)
StaysConnected ==
  /\ part = "process" =>
       Process!TypeOK /\ Process!OneEditorClient /\ Process!IsListening /\ Process!ExitIsOrderly
  /\ part = "slack" =>
       Slack!TypeOK /\ Slack!OneInterval /\ Slack!SomeoneRestores /\ Slack!OneSessionPerThread
  /\ part = "tools" =>
       Tools!TypeOK /\ Tools!OwnResult /\ Tools!ActionsAreHeard /\ Tools!ProcessedWhenGone
       /\ Tools!ServedByItsOwner
  /\ part = "voice" =>
       Voice!TypeOK /\ Voice!EndedStays /\ Voice!EndedIsLeft /\ Voice!OwnRoom
       /\ Voice!HeardIsShown /\ Voice!ChangedIsListed
=============================================================================
