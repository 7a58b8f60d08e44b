------------------------------ MODULE SubAgent ------------------------------
(***************************************************************************)
(* A sub-agent that the main agent calls as a tool                         *)
(* (apps/app/src/graph/agents/subagent-as-tool.ts).  Its runs share a      *)
(* thread of their own, which the checkpointer keeps; before each call of  *)
(* the model a long thread is summarised                                   *)
(* (graph/middlewares/summarization-middleware.ts); and the calls of       *)
(* chosen tools are forwarded to the main agent's thread with the reply.   *)
(***************************************************************************)
EXTENDS Naturals, FiniteSets, SequencesExt

CONSTANTS
  Trigger,      \* TRIGGER_MESSAGE_COUNT
  Keep,         \* MESSAGES_TO_KEEP
  Reach,        \* SEARCH_RANGE_FOR_TOOL_PAIRS
  Fan,          \* the most tools called at once
  Once,         \* only the first task is given
  MaxMessages,  \* bound: messages ever added to the thread
  MaxFails      \* bound: runs that fail

VARIABLES
  thread,       \* the sub-agent's messages
  next,         \* the number of the next message
  pc,           \* idle, model, answer, tools
  task,         \* tasks given so far
  retried,      \* this task was asked again after a refusal
  left,         \* messages with calls that were never answered
  lost,         \* history: messages that a summary was written without
  parent,       \* the main agent's thread
  fails

vars == <<thread, next, pc, task, retried, left, lost, parent, fails>>

NoCall == <<0, 0>>
Message(kind, calls, of, covers) ==
  [id |-> next, kind |-> kind, calls |-> calls, of |-> of, covers |-> covers]
Plain(kind) == Message(kind, {}, NoCall, {})

(* The first of the tools called at once is one that is forwarded.          *)
Forwarded(call) == call[2] = 1

Init ==
  /\ thread = <<>> /\ next = 1 /\ pc = "idle"
  /\ task = 0 /\ retried = FALSE
  /\ left = {} /\ lost = {} /\ parent = <<>> /\ fails = 0

------------------------------------------------------------------------------
(* Where to cut.  A cutoff is the number of messages that are summarised.   *)

IsResult(m, c) == c < Len(m) /\ m[c + 1].kind = "result"

FindSafeCutoffPoint_split(m, c) == c
FindSafeCutoffPoint(m, c) ==
  IF ~IsResult(m, c) THEN c
  ELSE LET past == CHOOSE i \in c..Len(m) : ~IsResult(m, i) /\ \A j \in c..(i - 1) : IsResult(m, j)
           ids == {m[i].of : i \in (c + 1)..past}
           owners == {i \in 0..(c - 1) : m[i + 1].calls \cap ids # {}}
       IN IF owners # {} THEN Max(owners) ELSE past

CutoffSeparatesToolPair(m, i, c) ==
  \E j \in (i + 1)..(Len(m) - 1) : m[j + 1].of \in m[i + 1].calls /\ (i < c) # (j < c)

IsSafeCutoffPoint(m, c) ==
  \/ c >= Len(m)
  \/ /\ m[c + 1].calls = {}
     /\ \A i \in 0..(Len(m) - 1) :
          c <= i + Reach /\ i < c + Reach => ~CutoffSeparatesToolPair(m, i, c)

FindSafeCutoff(m) ==
  LET target == Len(m) - Keep
      safe == FindSafeCutoffPoint(m, target)
      others == {i \in 0..target : IsSafeCutoffPoint(m, i)}
  IN CASE Len(m) <= Keep -> 0
       [] Len(m) > Keep /\ safe <= target -> safe
       [] OTHER -> IF others = {} THEN 0 ELSE Max(others)

(***************************************************************************)
(* The summary says what the last of the messages it replaces said, as far *)
(* back as they fit into one call, and what earlier summaries among them   *)
(* said.  Messages are of any length, so that any number of them may fit.  *)
(***************************************************************************)
Says(m) == UNION {({m[i].id} \ {0}) \cup m[i].covers : i \in DOMAIN m}

Trimmed(m, fit) == SubSeq(m, Len(m) - fit + 1, Len(m))

(***************************************************************************)
(* beforeModel: a thread that is long enough is replaced by a summary and  *)
(* the messages from the cutoff on.  A summary that could not be written   *)
(* is replaced by the text of the error, and says nothing.                 *)
(***************************************************************************)
Summary(covers) == [Message("summary", {}, NoCall, covers) EXCEPT !.id = 0]
Summarised(c, covers) == <<Summary(covers)>> \o SubSeq(thread, c + 1, Len(thread))

BeforeModel ==
  /\ pc = "model"
  /\ pc' = "answer"
  /\ LET c == FindSafeCutoff(thread)
         old == SubSeq(thread, 1, c)
     IN IF Len(thread) < Trigger \/ c = 0
        THEN UNCHANGED <<thread, lost>>
        ELSE \E fit \in 0..c :
               /\ thread' = Summarised(c, Says(Trimmed(old, fit)))
               /\ lost' = lost \cup Says(SubSeq(old, 1, c - fit))
  /\ UNCHANGED <<next, task, retried, left, parent, fails>>

------------------------------------------------------------------------------
(* A run.                                                                   *)

Room(n) == next + n <= MaxMessages
Add(messages) ==
  /\ Room(Len(messages))
  /\ thread' = thread \o messages
  /\ next' = next + Len(messages)

(* invoke: the task is added to the thread the checkpointer has.            *)
Invoke ==
  /\ pc = "idle"
  /\ Once => task = 0
  /\ Add(<<Plain("task")>>)
  /\ task' = task + 1
  /\ retried' = FALSE
  /\ pc' = "model"
  /\ UNCHANGED <<left, lost, parent, fails>>

(* The model calls tools.                                                   *)
CallTools ==
  /\ pc = "answer"
  /\ \E n \in 1..Fan :
       /\ Room(n + 1)
       /\ Add(<<Message("calls", {<<next, k>> : k \in 1..n}, NoCall, {})>>)
  /\ pc' = "tools"
  /\ UNCHANGED <<task, retried, left, lost, parent, fails>>

(* The tools have run; their results are added in the order of the calls.   *)
Results(last) ==
  [k \in 1..Cardinality(last.calls) |->
     [Message("result", {}, <<last.id, k>>, {}) EXCEPT !.id = next + k - 1]]

RunTools ==
  /\ pc = "tools"
  /\ Add(Results(thread[Len(thread)]))
  /\ pc' = "model"
  /\ UNCHANGED <<task, retried, left, lost, parent, fails>>

(***************************************************************************)
(* filterForwardedMessages: of all the messages the run returns, the calls *)
(* of forwarded tools and their results, with ids of this run of the tool. *)
(***************************************************************************)
Renamed(call) == <<task, call>>
ForwardOne(known, m) ==
  LET calls == {c \in m.calls : Forwarded(c)} IN
  CASE calls # {} ->
         [ids |-> known.ids \cup calls,
          out |-> Append(known.out, [kind |-> "calls", ids |-> {Renamed(c) : c \in calls}])]
    [] m.of \in known.ids ->
         [known EXCEPT !.out = Append(@, [kind |-> "result", ids |-> {Renamed(m.of)}])]
    [] OTHER -> known

FilterForwardedMessages(m) == FoldLeft(ForwardOne, [ids |-> {}, out |-> <<>>], m).out

Reply == [kind |-> "reply", ids |-> {}]

(* The model's last reply; a refusal is answered once with another attempt. *)
Answer ==
  /\ pc = "answer"
  /\ Add(<<Plain("reply")>>)
  /\ pc' = "idle"
  /\ parent' = parent \o FilterForwardedMessages(thread) \o <<Reply>>
  /\ UNCHANGED <<task, retried, left, lost, fails>>

Refuse ==
  /\ pc = "answer" /\ ~retried
  /\ Add(<<Plain("reply"), [Plain("task") EXCEPT !.id = next + 1]>>)
  /\ retried' = TRUE
  /\ pc' = "model"
  /\ UNCHANGED <<task, left, lost, parent, fails>>

(* An error ends the run: its text is the reply, the thread stays as it is. *)
Fail ==
  /\ pc \in {"answer", "tools"}
  /\ fails < MaxFails
  /\ fails' = fails + 1
  /\ left' = IF pc = "tools" THEN left \cup {thread[Len(thread)].id} ELSE left
  /\ pc' = "idle"
  /\ parent' = Append(parent, Reply)
  /\ UNCHANGED <<thread, next, task, retried, lost>>

Next == Invoke \/ BeforeModel \/ CallTools \/ RunTools \/ Answer \/ Refuse \/ Fail

Spec == Init /\ [][Next]_vars

------------------------------------------------------------------------------
TypeOK ==
  /\ next \in Nat
  /\ pc \in {"idle", "model", "answer", "tools"}
  /\ \A i \in DOMAIN thread :
       /\ thread[i].id < next
       /\ thread[i].covers \subseteq 1..(next - 1)
       /\ (thread[i].calls # {}) <=> (thread[i].kind = "calls")
  /\ left \subseteq 1..next

(***************************************************************************)
(* A cut never separates a call from its result: every result the thread   *)
(* has comes after its call, and every call that was answered still has    *)
(* its results (findSafeCutoff).                                           *)
(***************************************************************************)
PairsKept ==
  /\ \A j \in DOMAIN thread : thread[j].of # NoCall =>
       \E i \in 1..(j - 1) : thread[j].of \in thread[i].calls
  /\ \A i \in DOMAIN thread : thread[i].id \notin left /\ (pc = "tools" => i < Len(thread)) =>
       \A c \in thread[i].calls : \E j \in (i + 1)..Len(thread) : thread[j].of = c

(***************************************************************************)
(* What was said is in the thread or in the summary in it, but for what a  *)
(* summary was written without, because it did not fit into the call or    *)
(* the call failed; and the older is forgotten before the newer.           *)
(***************************************************************************)
Remembered ==
  /\ Says(thread) \cup lost = 1..(next - 1)
  /\ \A n \in lost, k \in Says(thread) : n < k

(* The last messages are always left as they were said, whatever is cut.    *)
Recent(m) == SubSeq(m, Len(m) - Keep + 1, Len(m))
RecentKept ==
  [][pc = "model" /\ Len(thread) >= Keep =>
       Len(thread') >= Keep /\ Recent(thread') = Recent(thread)]_vars

(* A forwarded result follows the call it belongs to in the main thread.    *)
ForwardedInPairs ==
  \A j \in DOMAIN parent : parent[j].kind = "result" =>
    \E i \in 1..(j - 1) : parent[i].kind = "calls" /\ parent[j].ids \subseteq parent[i].ids

(***************************************************************************)
(* A call of a forwarded tool is forwarded once.                           *)
(***************************************************************************)
ForwardedOnce ==
  \A i, j \in DOMAIN parent : \A a \in parent[i].ids, b \in parent[j].ids :
    parent[i].kind = "calls" /\ parent[j].kind = "calls" /\ a[2] = b[2] => i = j

=============================================================================
