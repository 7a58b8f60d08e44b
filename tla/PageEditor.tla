----------------------------- MODULE PageEditor -----------------------------
(***************************************************************************)
(* The editing of a page by the tools of the editor agent                  *)
(* (apps/app/src/graph/agents/editor): each call opens a copy of its own   *)
(* of the shared document, reads and changes it, and closes it after its   *)
(* changes were sent to the room.  Copies are merged as Yjs merges them:   *)
(* a document is the set of the writes it has seen.                        *)
(***************************************************************************)
EXTENDS Naturals, FiniteSets, FiniteSetsExt, TLC

CONSTANTS
  Calls,        \* tool calls, numbers from 1: the numbers order their documents
  Blocks,       \* ids of blocks
  Made,         \* the blocks the page has at first
  Keys,         \* properties of a block
  UserKeys,     \* those of them a user sets in the browser
  Asks,         \* what calls may be asked for (see Ask)
  Attempts,     \* retryAttempts of the provider
  Reinserts,    \* an element can be inserted again after it was deleted
  MaxUser       \* bound: properties the user sets

(* The tools, by when they ask whether the client is in the room: before they   *)
(* open a copy, after, or never.                                              *)
JoinFirst == {"edit_block", "delete_block", "execute_action", "find_and_replace",
              "move_block", "bulk_edit_blocks"}
JoinAfter == {"list_blocks", "create_block", "read_survey", "fill_survey_answers",
              "validate_survey_answers", "read_flow_context", "read_flow_status",
              "read_block_history", "read_permissions", "search_blocks"}
JoinNever == {"read_block_by_id", "read_page", "apply_sandbox_output_to_block"}

WholePage == {"find_and_replace", "update_page", "append_output"}

(* on: the blocks named, at: the block of reference; up, rm: properties set,  *)
(* removed; text, run: whether a text, a runtime update is given.             *)
Ask == [tool : JoinFirst \cup JoinAfter \cup JoinNever \cup WholePage,
        on : SUBSET Blocks, at : SUBSET Blocks, up : SUBSET Keys, rm : SUBSET Keys,
        text : BOOLEAN, run : BOOLEAN]

PageAssumption ==
  /\ Calls \subseteq Nat \ {0} /\ Made \subseteq Blocks /\ UserKeys \subseteq Keys
  /\ Attempts \in Nat \ {0} /\ MaxUser \in Nat /\ Asks \subseteq Ask
  /\ Reinserts \in BOOLEAN

VARIABLES
  call,     \* a call: pc, what it is asked, its copy, attempts, answers read, outcome
  room,     \* the writes the room has
  member,   \* the client's store shows it as a member; it has joined
  want,     \* <<block, key>> -> the value acknowledged last
  aside,    \* history: those set last in the content element alone
  astray,   \* history: those that changed in two copies at once, or whose change was
            \* never sent
  edits     \* properties set by the user so far

vars == <<call, room, member, want, aside, astray, edits>>

(***************************************************************************)
(* Documents.  A write sets one register, over the writes of it seen.      *)
(***************************************************************************)
Id(o) == <<o.by, o.step, o.reg>>
Reg(kind, b, k) == <<kind, b, k>>
Attrs(b) == Reg("attrs", b, "")         \* attrs of the container, one value
Child(b, k) == Reg("child", b, k)       \* an attribute of its content element
TextOf(b) == Reg("text", b, "")
Runtime(b) == Reg("runtime", b, "")
Place(b) == Reg("block", b, "")
Root == Reg("root", 0, "")
All(D, r) == {o \in D : o.reg = r}
Heads(D, r) == {o \in All(D, r) : ~\E p \in All(D, r) : Id(o) \in p.over}

(* Of concurrent writes to a map entry one wins, on every copy the same.      *)
Value(D, r) ==
  IF All(D, r) = {} THEN {} ELSE (CHOOSE o \in Heads(D, r) : \A p \in Heads(D, r) : p.by <= o.by).val

(* Texts inserted concurrently stay side by side, and so do root groups.      *)
Values(D, r) == UNION {o.val : o \in Heads(D, r)}

Own(D, c) == {o \in D : o.by = c}
Put(D, c, w) ==
  D \cup {[by |-> c, step |-> 1 + Cardinality({o.step : o \in Own(D, c)}), reg |-> r, val |-> w[r],
           over |-> {Id(o) : o \in All(D, r)}] : r \in DOMAIN w}

(***************************************************************************)
(* block-actions.ts and blocknote-helper.ts.                               *)
(***************************************************************************)
Gone(D, b) == \E o \in All(D, Place(b)) : o.val = {}
Exists(D, b) ==
  /\ All(D, Place(b)) # {} /\ ~Gone(D, b)
  /\ Values(D, Place(b)) \cap Values(D, Root) # {}

HasProps(D, b) == <<"props", 0>> \in Value(D, Attrs(b))
PropsOf(D, b, k) == {p \in Value(D, Attrs(b)) : p[1] = k}

(* extractBlockProperties: attrs.props first, the content element for the rest *)
Prop(D, b, k) ==
  IF PropsOf(D, b, k) # {} THEN PropsOf(D, b, k) ELSE Value(D, Child(b, k))

(* applyAttributeUpdates: attrs is read, merged and written as one value;      *)
(* without an update of props the mirroring throws after that.                *)
Merged(D, c, b, up, rm) ==
  {p \in Value(D, Attrs(b)) : p[1] \notin up \cup rm}
    \cup {<<k, c>> : k \in up} \cup (IF up # {} THEN {<<"props", 0>>} ELSE {})
ApplyAttributeUpdates_unmirrored(D, c, b, up, rm) ==
  [doc |-> Put(D, c, [r \in {Attrs(b)} |-> Merged(D, c, b, up, rm)]),
   ok |-> ~(up = {} /\ HasProps(D, b))]
ApplyAttributeUpdates(D, c, b, up, rm) ==
  LET throws == up = {} /\ HasProps(D, b)
      mirrored == IF throws THEN {} ELSE {Child(b, k) : k \in up \cup rm}
  IN [doc |-> Put(D, c, [r \in {Attrs(b)} \cup mirrored |->
                           IF r = Attrs(b) THEN Merged(D, c, b, up, rm)
                           ELSE IF r[3] \in rm THEN {} ELSE {<<r[3], c>>}]),
      ok |-> ~throws]

SetText(D, c, b) == Put(D, c, [r \in {TextOf(b)} |-> {<<"text", c>>}])

(* editBlock: one transaction, that keeps what was written before a throw.     *)
EditBlock(D, c, b, up, rm, text) ==
  IF ~Exists(D, b) THEN [doc |-> D, ok |-> FALSE]
  ELSE LET n == ApplyAttributeUpdates(D, c, b, up, rm)
       IN [n EXCEPT !.doc = IF n.ok /\ text THEN SetText(n.doc, c, b) ELSE n.doc]

(* updateRuntimeState.                                                          *)
UpdateRuntimeState(D, c, b) ==
  Put(D, c, [r \in {Runtime(b)} |-> Value(D, r) \cup {<<"run", c>>}])

(* createBlockStructure in the first root group (appendBlock makes one), or     *)
(* beside a block (insertBlock).                                               *)
EnsureRootGroup(D, c) ==
  IF Heads(D, Root) # {} THEN D ELSE Put(D, c, [r \in {Root} |-> {<<"root", c>>}])
CreateBlock(D, c, b, up, text) ==
  LET top == CHOOSE g \in Values(D, Root) : TRUE
      regs == {Place(b), Attrs(b)} \cup {Child(b, k) : k \in up}
                \cup (IF text THEN {TextOf(b)} ELSE {})
  IN Put(D, c, [r \in regs |->
       IF r = Place(b) THEN {top}
       ELSE IF r = Attrs(b) THEN Merged({}, c, b, up, {})
       ELSE IF r = TextOf(b) THEN {<<"text", c>>} ELSE {<<r[3], c>>}])

Delete(D, c, b) == Put(D, c, [r \in {Place(b)} |-> {}])

(* moveBlock: the block is taken out before the reference is looked for; a      *)
(* transaction is not rolled back.                                             *)
MoveBlock(D, c, b, at) ==
  IF at = {b} \/ ~Exists(D, b) THEN [doc |-> D, ok |-> FALSE]
  ELSE IF Reinserts /\ \A x \in at : Exists(D, x)
       THEN [doc |-> Put(D, c, [r \in {Place(b)} |-> Value(D, r)]), ok |-> TRUE]
       ELSE [doc |-> Delete(D, c, b), ok |-> FALSE]

(* findAndReplaceInDoc, in the texts that match.                                *)
FindAndReplace(D, c, bs) ==
  Put(D, c, [r \in {TextOf(b) : b \in bs} |-> {<<"text", c>>}])

(* The blocks in the fragment are made anew from parsed markdown (updatePage)   *)
(* or from what was in it (appendOutputToPage): BlockNote knows no attrs.       *)
Replaced(D, c) == Put(D, c, [r \in {Root} |-> {<<"root", c>>}])
Rebuilt(D, c) ==
  LET bs == {b \in Blocks : Exists(D, b)}
      elements == {Place(b) : b \in bs} \cup {Attrs(b) : b \in bs}
      contents == {Child(b, k) : b \in bs, k \in Keys} \cup {TextOf(b) : b \in bs}
  IN Put(D, c, [r \in {Root} \cup elements \cup contents |->
                  IF r \in contents THEN Value(D, r)
                  ELSE IF r[1] = "attrs" THEN {} ELSE {<<"root", c>>}])

(***************************************************************************)
(* The tools: what each makes of its copy D of the page, and what it       *)
(* answers.  All but two do it in one go.                                  *)
(***************************************************************************)
The(S) == CHOOSE x \in S : TRUE
Found(D, a) == \A b \in a.on : Exists(D, b)
Seen(D, ok) == [doc |-> D, ok |-> ok]

ListBlocks(D, c, a) == Seen(D, TRUE)
ReadBlockById(D, c, a) == Seen(D, Found(D, a))
ReadSurvey(D, c, a) == Seen(D, Found(D, a))
ValidateSurveyAnswers(D, c, a) == Seen(D, Found(D, a))
ReadFlowContext(D, c, a) == Seen(D, TRUE)
ReadFlowStatus(D, c, a) == Seen(D, TRUE)
ReadBlockHistory(D, c, a) == Seen(D, TRUE)
ReadPermissions(D, c, a) == Seen(D, TRUE)
SearchBlocks(D, c, a) == Seen(D, TRUE)
ReadPage(D, c, a) == Seen(D, TRUE)

EditBlockTool(D, c, a) ==
  LET n == EditBlock(D, c, The(a.on), a.up, a.rm, a.text)
  IN [n EXCEPT !.doc = IF n.ok /\ a.run THEN UpdateRuntimeState(n.doc, c, The(a.on)) ELSE n.doc]

ApplySandboxOutputToBlock(D, c, a) == EditBlock(D, c, The(a.on), a.up, {}, a.text)

(* Properties, text and runtime of a block by turns; what fails is reported,    *)
(* what was done before stays.                                                 *)
BulkEditBlocks(D, c, a) ==
  LET One(b, acc) ==
        LET n == IF a.up = {} THEN Seen(acc.doc, TRUE) ELSE EditBlock(acc.doc, c, b, a.up, {}, FALSE)
            t == IF ~n.ok \/ ~a.text THEN n ELSE EditBlock(n.doc, c, b, {}, {}, TRUE)
        IN [doc |-> IF t.ok /\ a.run THEN UpdateRuntimeState(t.doc, c, b) ELSE t.doc,
            ok |-> acc.ok /\ t.ok, done |-> IF t.ok THEN acc.done \cup {b} ELSE acc.done]
  IN FoldSet(One, [doc |-> D, ok |-> TRUE, done |-> {}], a.on)

CreateBlockTool(D, c, a) ==
  LET from == IF a.at = {} THEN EnsureRootGroup(D, c) ELSE D
  IN IF \A x \in a.at : Exists(D, x) THEN Seen(CreateBlock(from, c, The(a.on), a.up, a.text), TRUE)
     ELSE Seen(D, FALSE)

DeleteBlockTool(D, c, a) ==
  IF Found(D, a) THEN Seen(Delete(D, c, The(a.on)), TRUE) ELSE Seen(D, FALSE)

MoveBlockTool(D, c, a) == MoveBlock(D, c, The(a.on), a.at)

FindAndReplaceTool(D, c, a) ==
  LET bs == {b \in Blocks : Exists(D, b) /\ Values(D, TextOf(b)) # {}}
  IN Seen(FindAndReplace(D, c, bs), bs # {})

UpdatePage(D, c, a) == Seen(IF a.text THEN Replaced(D, c) ELSE D, TRUE)
AppendOutputToPage(D, c, a) == Seen(Rebuilt(D, c), TRUE)

Effect(D, c, a) ==
  CASE a.tool = "list_blocks" -> ListBlocks(D, c, a)
    [] a.tool = "read_block_by_id" -> ReadBlockById(D, c, a)
    [] a.tool = "read_survey" -> ReadSurvey(D, c, a)
    [] a.tool = "validate_survey_answers" -> ValidateSurveyAnswers(D, c, a)
    [] a.tool = "read_flow_context" -> ReadFlowContext(D, c, a)
    [] a.tool = "read_flow_status" -> ReadFlowStatus(D, c, a)
    [] a.tool = "read_block_history" -> ReadBlockHistory(D, c, a)
    [] a.tool = "read_permissions" -> ReadPermissions(D, c, a)
    [] a.tool = "search_blocks" -> SearchBlocks(D, c, a)
    [] a.tool = "read_page" -> ReadPage(D, c, a)
    [] a.tool = "edit_block" -> EditBlockTool(D, c, a)
    [] a.tool = "apply_sandbox_output_to_block" -> ApplySandboxOutputToBlock(D, c, a)
    [] a.tool = "bulk_edit_blocks" -> BulkEditBlocks(D, c, a)
    [] a.tool = "create_block" -> CreateBlockTool(D, c, a)
    [] a.tool = "delete_block" -> DeleteBlockTool(D, c, a)
    [] a.tool = "move_block" -> MoveBlockTool(D, c, a)
    [] a.tool = "find_and_replace" -> FindAndReplaceTool(D, c, a)
    [] a.tool = "update_page" -> UpdatePage(D, c, a)
    [] a.tool = "append_output" -> AppendOutputToPage(D, c, a)

(***************************************************************************)
(* The calls.                                                              *)
(***************************************************************************)
NoAsk == [tool |-> "read_page", on |-> {}, at |-> {}, up |-> {}, rm |-> {}, text |-> FALSE, run |-> FALSE]
Page ==
  {[by |-> 0, step |-> 1, reg |-> Root, val |-> {<<"root", 0>>}, over |-> {}]}
    \cup {[by |-> 0, step |-> 1, reg |-> Place(b), val |-> {<<"root", 0>>}, over |-> {}] : b \in Made}

Init ==
  /\ call = [c \in Calls |-> [pc |-> "new", ask |-> NoAsk, doc |-> {}, attempt |-> 1,
                              answers |-> {}, ok |-> FALSE]]
  /\ room = Page /\ member \in {"no", "yes"}
  /\ want = [x \in Blocks \X Keys |-> {}] /\ aside = {} /\ astray = {} /\ edits = 0

Active(c) == call[c].pc \notin {"new", "over"}
Touches(a) == IF a.tool \in WholePage THEN Blocks ELSE a.on \cup a.at
Moves(c, r) == call' = [call EXCEPT ![c] = r @@ call[c]]

(* A tool is called.                                                           *)
Invoke(c, a) ==
  /\ call[c].pc = "new" /\ \A d \in Calls : d < c => call[d].pc # "new"
  /\ Moves(c, [pc |-> IF a.tool \in JoinFirst THEN "joins" ELSE "loads", ask |-> a])
  /\ astray' = astray \cup {x \in Blocks \X Keys : \E d \in Calls :
                              Active(d) /\ x[1] \in Touches(a) \cap Touches(call[d].ask)}
  /\ UNCHANGED <<room, member, want, aside, edits>>

(* checkIfInRoomAndJoinPublicRoom: it joins, and says how it was before.       *)
CheckIfInRoom(c) ==
  /\ call[c].pc = "joins"
  /\ member' = IF member = "no" THEN "joined" ELSE member
  /\ LET loaded == call[c].doc # {}
     IN Moves(c, [pc |-> IF member = "yes" THEN IF loaded THEN "acts" ELSE "loads"
                         ELSE IF loaded THEN "closes" ELSE "over"])
  /\ UNCHANGED <<room, want, aside, astray, edits>>

(* The sync of the client shows the room.                                       *)
Synced ==
  /\ member = "joined" /\ member' = "yes"
  /\ UNCHANGED <<call, room, want, aside, astray, edits>>

(* MatrixProviderManager.init: the room's history is read into the copy; an     *)
(* attempt that fails, with the history read or not, is followed by another.    *)
Load(c) ==
  /\ call[c].pc = "loads"
  /\ Moves(c, [pc |-> IF call[c].ask.tool \in JoinAfter THEN "joins" ELSE "acts",
               doc |-> call[c].doc \cup room])
  /\ member' = IF member = "no" THEN "joined" ELSE member
  /\ UNCHANGED <<room, want, aside, astray, edits>>

LoadFails(c) ==
  /\ call[c].pc = "loads"
  /\ \E seen \in {{}, room} :
       Moves(c, [doc |-> call[c].doc \cup seen, attempt |-> call[c].attempt + 1,
                 pc |-> IF call[c].attempt < Attempts THEN "loads" ELSE "over"])
  /\ UNCHANGED <<room, member, want, aside, astray, edits>>

(* The room's changes reach an open copy.                                       *)
Receive(c) ==
  /\ call[c].pc \in {"joins", "acts", "fills", "runs"} /\ call[c].doc # {}
  /\ ~room \subseteq call[c].doc
  /\ Moves(c, [doc |-> call[c].doc \cup room])
  /\ UNCHANGED <<room, member, want, aside, astray, edits>>

(* What the caller is told was set, block by block.                             *)
Done(a, n) == IF a.tool = "bulk_edit_blocks" THEN n.done ELSE IF n.ok THEN a.on ELSE {}
Wanted(c, a, n) ==
  [x \in Blocks \X Keys |->
     IF x[1] \notin Done(a, n) THEN want[x]
     ELSE IF x[2] \in a.up THEN {<<x[2], c>>} ELSE IF x[2] \in a.rm THEN {} ELSE want[x]]

Act(c) ==
  /\ call[c].pc = "acts" /\ call[c].ask.tool \notin {"fill_survey_answers", "execute_action"}
  /\ LET n == Effect(call[c].doc, c, call[c].ask)
     IN /\ Moves(c, [pc |-> "closes", doc |-> n.doc, ok |-> n.ok])
        /\ want' = Wanted(c, call[c].ask, n)
        /\ aside' = aside \ {x \in Done(call[c].ask, n) \X Keys : x[2] \in call[c].ask.up \cup call[c].ask.rm}
  /\ UNCHANGED <<room, member, astray, edits>>

(* fill_survey_answers: the answers are read, validated over the network, and   *)
(* written to the content element alone.                                       *)
FillRead(c) ==
  /\ call[c].pc = "acts" /\ call[c].ask.tool = "fill_survey_answers"
  /\ LET D == call[c].doc
         b == The(call[c].ask.on)
         merge == call[c].ask.rm = {}
     IN IF Exists(D, b)
        THEN Moves(c, [pc |-> "fills", answers |-> IF merge THEN Prop(D, b, "answers") ELSE {}])
        ELSE Moves(c, [pc |-> "closes"])
  /\ UNCHANGED <<room, member, want, aside, astray, edits>>

FillWrite(c) ==
  /\ call[c].pc = "fills"
  /\ LET D == call[c].doc
         b == The(call[c].ask.on)
         all == call[c].answers \cup {<<"answers", c>>}
     IN IF Exists(D, b)
        THEN /\ Moves(c, [pc |-> "closes", ok |-> TRUE,
                          doc |-> Put(D, c, [r \in {Child(b, "answers")} |-> all])])
             /\ want' = [want EXCEPT ![<<b, "answers">>] = all]
             /\ aside' = aside \cup {<<b, "answers">>}
        ELSE Moves(c, [pc |-> "closes"]) /\ UNCHANGED <<want, aside>>
  /\ UNCHANGED <<room, member, astray, edits>>

(* execute_action: the flow engine runs the action, and the runtime state is    *)
(* merged into what it is then.                                                *)
ExecuteStart(c) ==
  /\ call[c].pc = "acts" /\ call[c].ask.tool = "execute_action"
  /\ Moves(c, [pc |-> IF \A b \in call[c].ask.on : Exists(call[c].doc, b) THEN "runs" ELSE "closes"])
  /\ UNCHANGED <<room, member, want, aside, astray, edits>>

ExecuteEnd(c) ==
  /\ call[c].pc = "runs"
  /\ \E ok, thrown \in BOOLEAN :
       /\ thrown => ~ok
       /\ Moves(c, [pc |-> "closes", ok |-> ok,
                    doc |-> IF thrown THEN call[c].doc
                            ELSE UpdateRuntimeState(call[c].doc, c, The(call[c].ask.on))])
  /\ UNCHANGED <<room, member, want, aside, astray, edits>>

(* The provider sends the copy's changes.                                       *)
Send(c) ==
  /\ call[c].pc = "closes" /\ ~Own(call[c].doc, c) \subseteq room
  /\ room' = room \cup Own(call[c].doc, c)
  /\ UNCHANGED <<call, member, want, aside, astray, edits>>

(* dispose waits for the changes to be sent; that they could not be is logged.  *)
Dispose(c) ==
  /\ call[c].pc = "closes"
  /\ Moves(c, [pc |-> "over"])
  /\ astray' = IF Own(call[c].doc, c) \subseteq room THEN astray
               ELSE astray \cup (Touches(call[c].ask) \X Keys)
  /\ UNCHANGED <<room, member, want, aside, edits>>

(* The browser sets a property on the content element.                          *)
Sets(c, b, k) ==
  /\ b \in Touches(call[c].ask)
  /\ k \in call[c].ask.up \cup call[c].ask.rm \/ call[c].ask.tool \in WholePage
UserEdits(b, k) ==
  /\ Exists(room, b)
  /\ edits < MaxUser /\ edits' = edits + 1
  /\ room' = Put(room, 0, [r \in {Child(b, k)} |-> {<<k, 0>>}])
  /\ want' = [want EXCEPT ![<<b, k>>] = {<<k, 0>>}]
  /\ aside' = aside \cup {<<b, k>>}
  /\ astray' = IF \E c \in Calls : Active(c) /\ Sets(c, b, k) THEN astray \cup {<<b, k>>} ELSE astray
  /\ UNCHANGED <<call, member>>

Next ==
  \/ \E c \in Calls : (\E a \in Asks : Invoke(c, a)) \/ CheckIfInRoom(c) \/ Load(c) \/ LoadFails(c)
       \/ Receive(c) \/ Act(c) \/ FillRead(c) \/ FillWrite(c) \/ ExecuteStart(c) \/ ExecuteEnd(c)
       \/ Send(c) \/ Dispose(c)
  \/ Synced \/ \E b \in Blocks, k \in UserKeys : UserEdits(b, k)

Spec == Init /\ [][Next]_vars

(***************************************************************************)
(* Properties.                                                             *)
(***************************************************************************)
TypeOK ==
  /\ \A c \in Calls : /\ call[c].pc \in {"new", "joins", "loads", "acts", "fills", "runs", "closes", "over"}
                      /\ call[c].attempt \in 1..(Attempts + 1) /\ call[c].ok \in BOOLEAN
  /\ member \in {"no", "joined", "yes"} /\ edits \in 0..MaxUser

Quiet(b) == \A c \in Calls : Active(c) => b \notin Touches(call[c].ask)

(***************************************************************************)
(* While no call is at work on a block, it has every property as it was    *)
(* acknowledged last, by an agent or the user, in the content element,     *)
(* which the browser shows, and in attrs.props, which the tools read       *)
(* first, unless it was last set in the content element alone.  It is left *)
(* open for what changed in two copies at once, or was not sent: a failed  *)
(* flush is logged, and the call still reports success.                    *)
(***************************************************************************)
LastValueShows ==
  \A b \in Blocks, k \in Keys : Quiet(b) /\ Exists(room, b) /\ <<b, k>> \notin astray =>
    /\ Value(room, Child(b, k)) = want[<<b, k>>]
    /\ <<b, k>> \notin aside => Prop(room, b, k) = want[<<b, k>>]

(* A block of the page is gone only when a deletion of it, or a new content of *)
(* the page, was acknowledged.                                                *)
BlocksAreKept ==
  \A b \in Made : Quiet(b) /\ ~Exists(room, b) =>
    \E c \in Calls : /\ call[c].ok
                    /\ \/ call[c].ask.tool = "delete_block" /\ b \in call[c].ask.on
                       \/ call[c].ask.tool = "update_page"

(* The page keeps one root group, under which every block is found, unless it *)
(* was rebuilt in two copies at once.                                         *)
OneRoot == ~(Blocks \X Keys \subseteq astray) => Cardinality(Heads(room, Root)) = 1

EditsAreKept == LastValueShows /\ BlocksAreKept /\ OneRoot

(* An edit of a block that is there is carried out, as the tool's description   *)
(* says of a new text or a new runtime state alone.                           *)
EditIsTaken ==
  \A c \in Calls : call[c].pc = "closes" /\ call[c].ask.tool = "edit_block"
                     /\ (\A b \in call[c].ask.on : Exists(call[c].doc, b))
                     => call[c].ok
=============================================================================
