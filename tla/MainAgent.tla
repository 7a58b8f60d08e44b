----------------------------- MODULE MainAgent -----------------------------
(***************************************************************************)
(* createMainAgent (apps/app/src/graph/agents/main-agent.ts): for each     *)
(* request, the tools the model may call and the prompt that tells it      *)
(* about them are put together from services that may refuse, be missing   *)
(* or fail.  A service that fails is listed in the prompt.                 *)
(***************************************************************************)
EXTENDS Naturals, FiniteSets

VARIABLES
  pc,        \* token, mint, load, editor, prompt, database, then built or failed
  request,   \* what the request and its room bring along
  token,     \* the oracle's OpenID token was given
  ucan,      \* services an invocation was minted for
  loaded,    \* what the loaders came back with
  degraded,  \* unavailableServices
  prompt,    \* what the prompt speaks of
  tools      \* what the model may call

vars == <<pc, request, token, ucan, loaded, degraded, prompt, tools>>

AnyRequest ==
  [openId : BOOLEAN,                   \* the user's OpenID token
   named : BOOLEAN,                    \* a DID and a thread
   key : BOOLEAN,                      \* ucanService?.hasSigningKey()
   room : {"none", "direct", "group"}, \* matrix.roomId, groupChatContext
   page : {"none", "entity", "editor", "space"},
                                       \* currentEntityDid, editorRoomId, spaceId
   actions : BOOLEAN,                  \* agActions
   task : BOOLEAN]                     \* taskExecutionContext

Unloaded == [memory |-> "empty", firecrawl |-> "empty", sandbox |-> "empty", composio |-> "empty"]

Init ==
  /\ pc = "token" /\ request \in AnyRequest
  /\ token = FALSE /\ ucan = {} /\ loaded = Unloaded
  /\ degraded = {} /\ prompt = {} /\ tools = {}

(* Only a request that has a token of the user's needs one of the oracle's, *)
(* and fails when there is none.                                            *)
GetToken ==
  /\ pc = "token"
  /\ \/ token' = request.openId /\ pc' = "mint"
     \/ request.openId /\ pc' = "failed" /\ UNCHANGED token
  /\ UNCHANGED <<request, ucan, loaded, degraded, prompt, tools>>

------------------------------------------------------------------------------
(* Invocations, each of which may not be had: mintInvocationHeader and the  *)
(* memory engine's and Composio's own.  Without a DID there is no request.  *)
Services == {"sandbox", "skills", "memory", "composio"}
Refused == ~request.named

MintInvocationHeader ==
  /\ pc = "mint"
  /\ ucan' \in IF request.key /\ request.named THEN SUBSET Services ELSE {{}}
  /\ pc' = IF Refused THEN "failed" ELSE "load"
  /\ UNCHANGED <<request, token, loaded, degraded, prompt, tools>>

(* How a service is spoken to: by an invocation, or by the two tokens.      *)
Auth(service) == CASE service \in ucan -> "ucan"
                   [] service \notin ucan /\ token -> "matrix"
                   [] OTHER -> "none"

(* What a loader can come back with.  Only sandbox and Composio can reject: *)
(* the others return no tools when they fail.  No other server is known.    *)
GetMemoryEngineMcpTools == IF Auth("memory") = "none" THEN {"empty"} ELSE {"tools", "empty"}
GetFirecrawlMcpTools == {"tools", "empty"}
GetMcpTools == {}
GetSandboxTools ==
  IF Auth("sandbox") = "none" THEN {"empty"} ELSE {"empty", "run", "other", "rejected"}
GetComposioTools == IF "composio" \in ucan THEN {"tools", "empty", "rejected"} ELSE {"empty"}

(* Promise.allSettled and settled.                                          *)
Load ==
  /\ pc = "load"
  /\ loaded' \in [memory : GetMemoryEngineMcpTools, firecrawl : GetFirecrawlMcpTools,
                  sandbox : GetSandboxTools, composio : GetComposioTools]
  /\ degraded' = {s \in DOMAIN loaded' : loaded'[s] = "rejected"}
  /\ pc' = "prompt"
  /\ UNCHANGED <<request, token, ucan, prompt, tools>>

------------------------------------------------------------------------------
OperationalMode ==
  IF request.task THEN "task" ELSE
  IF request.page # "none" THEN request.page ELSE "general"

Editing == request.page \in {"editor", "space"}

(* The system prompt, which is written before the editor is opened.         *)
Prompt ==
  /\ pc = "prompt"
  /\ prompt' = {OperationalMode}
       \cup {c \in {"composio"} : loaded.composio = "tools"}
       \cup {c \in {"editing"} : Editing}
  /\ pc' = "editor"
  /\ UNCHANGED <<request, token, ucan, loaded, degraded, tools>>

(* createEditorAgent, when a page is open.                                  *)
CreateEditorAgent ==
  /\ pc = "editor"
  /\ \/ UNCHANGED degraded
     \/ request.page = "editor" /\ degraded' = degraded \cup {"editor"}
  /\ pc' = "database"
  /\ UNCHANGED <<request, token, ucan, loaded, prompt, tools>>

(***************************************************************************)
(* A sub-agent is a tool; what only it may call is counted with the rest.  *)
(* Portal, memory, Firecrawl and domain indexer are made for every request, *)
(* with the tools there are.                                               *)
(***************************************************************************)
Given(condition, names) == IF condition THEN names ELSE {}

PortalAgent == {"call_portal_agent"}
MemoryAgent == {"call_memory_agent"} \cup Given(loaded.memory = "tools", {"memory"})
                                     \cup Given(loaded.firecrawl = "tools", {"firecrawl"})
FirecrawlAgent == {"call_firecrawl_agent"} \cup Given(loaded.firecrawl = "tools", {"firecrawl"})
DomainIndexerAgent == {"call_domain_indexer_agent", "domain_indexer_search"}
AguiAgent == Given(request.actions, {"call_agui_agent"})
TaskManagerAgent == Given(request.room # "none", {"call_task_manager_agent", "create_task"})

(* The page's agent writes; a space has one that opens a page for each call. *)
EditorAgent == Given(request.page = "editor" /\ "editor" \notin degraded,
                     {"call_editor_agent", "edit_block", "update_page"})
StandaloneEditor == Given(request.page = "space", {"call_editor_agent"})

SubAgents == PortalAgent \cup MemoryAgent \cup FirecrawlAgent \cup DomainIndexerAgent
             \cup AguiAgent \cup TaskManagerAgent \cup EditorAgent \cup StandaloneEditor

SkillsTools == {"list_skills", "search_skills"} \cup Given("skills" \in ucan, {"private_skills"})

SandboxTools ==
  Given(loaded.sandbox \in {"run", "other"}, {"sandbox"})
    \cup Given(loaded.sandbox = "run", {"sandbox_run"})
ApplySandboxOutputToBlock ==
  Given(request.page = "editor" /\ loaded.sandbox = "run", {"apply_sandbox_output_to_block"})

RoomTools ==
  Given(request.room # "none", {"list_room_files", "set_user_preferences"})
    \cup Given(request.room = "group", {"recall_channel_memory"})

Tools ==
  SubAgents \cup SkillsTools \cup SandboxTools \cup ApplySandboxOutputToBlock
    \cup RoomTools \cup GetMcpTools \cup Given(loaded.composio = "tools", {"composio"})

(* createAgent, with the checkpointer on the user's database, which may not *)
(* be had.  The list of failed services and the group's context are added.  *)
Build ==
  /\ pc = "database"
  /\ \/ /\ pc' = "built"
        /\ tools' = Tools
        /\ prompt' = prompt \cup Given(degraded # {}, {"degraded"})
                            \cup Given(request.room = "group", {"group"})
     \/ pc' = "failed" /\ UNCHANGED <<tools, prompt>>
  /\ UNCHANGED <<request, token, ucan, loaded, degraded>>

Next ==
  GetToken \/ MintInvocationHeader \/ Load \/ Prompt \/ CreateEditorAgent \/ Build

Spec == Init /\ [][Next]_vars

------------------------------------------------------------------------------
Built == pc = "built"

(* The tools that come with what the prompt speaks of.                      *)
ToolsOf(topic) ==
  CASE topic = "composio" -> {"composio"}
    [] topic = "editing" -> {"call_editor_agent"}
    [] topic = "group" -> {"recall_channel_memory", "list_room_files"}
    [] topic = "entity" -> {"call_domain_indexer_agent", "call_portal_agent", "call_memory_agent"}
    [] topic \in {"general", "task"} -> {"call_memory_agent", "call_firecrawl_agent"}
    [] OTHER -> {}

(***************************************************************************)
(* What the prompt tells the model to use is there, or is listed among the *)
(* services that failed; and nothing that is listed is there ("Do NOT      *)
(* attempt to use their tools").                                           *)
(***************************************************************************)
PromisedIsThere ==
  Built => \A topic \in prompt :
    \/ ToolsOf(topic) \subseteq tools
    \/ "degraded" \in prompt /\ topic = "editing" /\ "editor" \in degraded

ListedIsGone ==
  Built => /\ "sandbox" \in degraded => {"sandbox", "sandbox_run"} \cap tools = {}
           /\ "composio" \in degraded => "composio" \notin tools
           /\ "editor" \in degraded => "call_editor_agent" \notin tools
           /\ degraded # {} <=> "degraded" \in prompt

(* No tool of a service that the agent has nothing to show to.              *)
OnlyAuthorised ==
  Built => /\ {"sandbox", "sandbox_run"} \cap tools # {} => "sandbox" \in ucan \/ request.openId
           /\ "memory" \in tools => "memory" \in ucan \/ request.openId
           /\ "apply_sandbox_output_to_block" \in tools => {"sandbox", "sandbox_run"} \subseteq tools
           /\ ~request.named => tools = {}
=============================================================================
