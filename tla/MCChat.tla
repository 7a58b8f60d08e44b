------------------------------- MODULE MCChat -------------------------------
(***************************************************************************)
(* The way of a question and its answer, for TLC: the room it is asked in, *)
(* the client that shows the answer, the stream that brings it there, and   *)
(* what the agent is given for it: a token to prove itself with,  *)
(* the user's preferences and secrets, its tools and its prompt, and what   *)
(* its tools show it.  They share no variable, so that no step of one       *)
(* changes what the others do: a behaviour runs one part and leaves the     *)
(* others as they begin.                                                    *)
(***************************************************************************)
EXTENDS RoomInbox

CONSTANTS
  Requests, Sessions, Nobody, Chunks, Stops, MaxMoves,
  MaxWrites,
  Askers, Life, Margin, Attempts, Delay, MaxTime, MaxRefusals,
  Callers, Fields, Versions,
  Agents, Names, Calls,
  PerPage, MaxPages, Ahead, MostRaw, Limits, MaxRoom, MaxRows, Words

VARIABLES
  part,
  session, status, shown, send, read, cut, aborter, aborting, thrown,
  server, served, fetch, cache, failed, moves, hasty,
  written, writes, wire, line, got, closed, broken,
  now, known, turn, asker, tries, openId, minted, told, refusals,
  stored, prefs, caller, fields, base, view, said, before, done, torn, version, misses,
  index, secrets, values, listed, promise, todo, loads, skipped, ran, connected, losses,
  building, request, token, ucan, loaded, degraded, prompt, tools,
  room, tool, limit, media, top, pos, pages, out, clipped, given

client == <<session, status, shown, send, read, cut, aborter, aborting, thrown,
            server, served, fetch, cache, failed, moves, hasty>>
stream == <<written, writes, wire, line, got, closed, broken>>
proof == <<now, known, turn, asker, tries, openId, minted, told, refusals>>
preferences == <<stored, prefs, caller, fields, base, view, said, before, done, torn, version,
                 misses>>
sandbox == <<index, secrets, values, listed, promise, todo, loads, skipped, ran, connected, losses>>
agent == <<building, request, token, ucan, loaded, degraded, prompt, tools>>
lists == <<room, tool, limit, media, top, pos, pages, out, clipped, given>>
context == <<proof, preferences, sandbox, agent, lists>>

Client == INSTANCE ChatClient WITH
            controller <- aborter, run <- served, events <- moves,
            None <- Nobody, MaxEvents <- MaxMoves
Stream == INSTANCE SseStream WITH buffer <- line

Proof == INSTANCE OpenIdToken WITH pc <- asker, cached <- openId
Preferences == INSTANCE UserPreferences WITH
                 cache <- prefs, pc <- caller, shown <- view, writes <- version,
                 faults <- misses, None <- Nobody, MaxWrites <- Versions
Sandbox == INSTANCE SandboxSecrets WITH
             events <- secrets, cache <- values, read <- listed, values <- loads, run <- ran,
             faults <- losses
Agent == INSTANCE MainAgent WITH pc <- building
Lists == INSTANCE AgentTools WITH cut <- clipped

ASSUME InboxAssumption /\ Proof!OpenIdTokenAssumption

(* What one part may begin with, while another part is looked at.           *)
AtRest ==
  /\ part # "room" => direct
  /\ part # "client" => session = CHOOSE s \in Sessions : TRUE
  /\ part # "proof" => known
  /\ part # "preferences" => stored = Preferences!Unset
  /\ part # "agent" => request = CHOOSE r \in Agent!AnyRequest : TRUE

PartInit ==
  /\ part \in {"room", "client", "stream",
               "proof", "preferences", "sandbox", "agent", "lists"}
  /\ Init /\ Client!Init /\ Stream!Init
  /\ Proof!Init /\ Preferences!Init /\ Sandbox!Init /\ Agent!Init /\ Lists!Init
  /\ AtRest

talk == <<vars, client, stream>>

(* What the agent is given.                                                 *)
ContextNext ==
  \/ part = "proof" /\ Proof!Next /\ UNCHANGED <<preferences, sandbox, agent, lists>>
  \/ part = "preferences" /\ Preferences!Next /\ UNCHANGED <<proof, sandbox, agent, lists>>
  \/ part = "sandbox" /\ Sandbox!Next /\ UNCHANGED <<proof, preferences, agent, lists>>
  \/ part = "agent" /\ Agent!Next /\ UNCHANGED <<proof, preferences, sandbox, lists>>
  \/ part = "lists" /\ Lists!Next /\ UNCHANGED <<proof, preferences, sandbox, agent>>

PartNext ==
  \/ part = "room" /\ Next /\ UNCHANGED <<part, client, stream, context>>
  \/ part = "client" /\ Client!Next /\ UNCHANGED <<part, vars, stream, context>>
  \/ part = "stream" /\ Stream!Next /\ UNCHANGED <<part, vars, client, context>>
  \/ ContextNext /\ UNCHANGED <<part, talk>>

PartSpec == PartInit /\ [][PartNext]_<<part, talk, context>>

(***************************************************************************)
(* What is shown is true, to the user and to the agent.  The client        *)
(* (useChat, useSendMessage, parseSSEStream): events arrive in order, and  *)
(* none is missing but one that a read of the network broke behind its     *)
(* event: line; a refetch does not cut the stream that is shown, and the   *)
(* list shows the open session's messages and all of them, until the user  *)
(* sends or leaves before an answer is in.  The agent (createMainAgent,    *)
(* its tools, user preferences, secrets): what its prompt speaks of is     *)
(* there; a change of the preferences that was acknowledged is in the next *)
(* prompt, until a read of them fails or two calls are in each other's     *)
(* way; the sandbox has the secrets that were listed; pages of messages    *)
(* follow each other, and lack only what a page had read beyond its limit; *)
(* and the token it shows is one that lives.                               *)
(***************************************************************************)
ShownIsTrue ==
  /\ part = "client" => Client!TypeOK /\ Client!StreamIsWhole /\ Client!OwnSession
                        /\ Client!NothingHidden
  /\ part = "stream" => Stream!TypeOK /\ Stream!EveryEvent
  /\ part = "proof" => Proof!TokenOnce /\ Proof!TokenLives /\ Proof!InTurn
  /\ part = "preferences" =>
       Preferences!FieldsAreKept /\ Preferences!CacheIsTrue /\ Preferences!ChangeIsSeen
  /\ part = "sandbox" => Sandbox!SecretsAreThose /\ Sandbox!OneConnection
  /\ part = "agent" => Agent!PromisedIsThere /\ Agent!ListedIsGone /\ Agent!OnlyAuthorised
  /\ part = "lists" =>
       Lists!NewestFiles /\ Lists!PagesFollow /\ Lists!OwnSkillWins /\ Lists!AllWordsFound
=============================================================================
