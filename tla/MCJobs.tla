------------------------------- MODULE MCJobs -------------------------------
(***************************************************************************)
(* What the oracle does besides answering, for TLC: a reminder, the memory *)
(* of ended sessions, a task handed to a sub-agent, checkpoints saved in a  *)
(* room, and a page edited by tools.  They share no variable, so that no step of one changes what *)
(* the others do: a behaviour runs one part and leaves the others as they  *)
(* begin.                                                                  *)
(***************************************************************************)
EXTENDS SessionMemory

CONSTANTS
  Ticks, Attempts, MaxFailures, MaxCalls,
  Trigger, Keep, Reach, Fan, Once, MaxMessages, MaxFails,
  Threads, Workers, Tasks, MaxPuts, MaxFaults,
  Tools, Blocks, OnPage, Keys, UserKeys, Asks, Loads, Reinserts, MaxUser

VARIABLES
  part,
  page, meta, indexed, cache, seen, scheduler, due, job, proc, stopped, torn, calls,
  history, next, pc, task, retried, left, lost, parent, fails,
  of, stored, index, object, cached, copies, writes, copied, worker,
  acked, doomed, kept, gone, broken, misread, unread, dropped, faults,
  call, room, member, want, aside, astray, edits

reminder == <<page, meta, indexed, cache, seen, scheduler, due, job, proc, stopped, torn, calls>>
agent == <<history, next, pc, task, retried, left, lost, parent, fails>>

saver == <<of, stored, index, object, cached, copies, writes, copied, worker,
           acked, doomed, kept, gone, broken, misread, unread, dropped, faults>>

pages == <<call, room, member, want, aside, astray, edits>>

Reminder == INSTANCE SimpleTask WITH events <- calls, MaxEvents <- MaxCalls
Agent == INSTANCE SubAgent WITH thread <- history
Saver == INSTANCE MatrixSaver WITH events <- faults, MaxEvents <- MaxFaults
Pages == INSTANCE PageEditor WITH Calls <- Tools, Made <- OnPage, Attempts <- Loads

ASSUME SessionAssumption /\ Reminder!SimpleAssumption /\ Pages!PageAssumption

(* The reminder while another part is looked at.                            *)
OneReminder ==
  /\ page = FALSE
  /\ proc[Reminder!Maker].view = CHOOSE m \in Reminder!New : ~(m.cron /\ m.deadline)

(* What the tools of the page are asked for: each tool that writes, and one that reads *)
(* a whole page.  An edit that only removes is left out: it is half done.       *)
Plain(tool, on) ==
  [tool |-> tool, on |-> on, at |-> {}, up |-> {}, rm |-> {}, text |-> FALSE, run |-> FALSE]
PageAsks ==
  { [Plain("edit_block", {1}) EXCEPT !.up = {"x"}, !.run = TRUE],
    [Plain("apply_sandbox_output_to_block", {1}) EXCEPT !.up = {"y"}, !.text = TRUE],
    [Plain("edit_block", {2}) EXCEPT !.up = {"x"}, !.rm = {"y"}, !.text = TRUE],
    [Plain("create_block", {3}) EXCEPT !.up = {"x"}, !.text = TRUE],
    Plain("delete_block", {1}),
    [Plain("move_block", {1}) EXCEPT !.at = {2}],
    [Plain("bulk_edit_blocks", {1, 2}) EXCEPT !.up = {"x"}],
    [Plain("fill_survey_answers", {1}) EXCEPT !.up = {"answers"}],
    Plain("execute_action", {1}), Plain("find_and_replace", {}),
    Plain("read_page", {}),
    Plain("append_output", {}), [Plain("update_page", {}) EXCEPT !.text = TRUE] }

PartInit ==
  /\ part \in {"sessions", "reminder", "agent", "saver", "pages"}
  /\ Init /\ Reminder!Init /\ Agent!Init /\ Saver!Init /\ Pages!Init
  /\ part # "reminder" => OneReminder
  /\ member = "no"

PartNext ==
  \/ part = "sessions" /\ Next /\ UNCHANGED <<part, reminder, agent, saver, pages>>
  \/ part = "reminder" /\ Reminder!Next /\ UNCHANGED <<part, vars, agent, saver, pages>>
  \/ part = "agent" /\ Agent!Next /\ UNCHANGED <<part, vars, reminder, saver, pages>>
  \/ part = "saver" /\ Saver!Next /\ UNCHANGED <<part, vars, reminder, agent, pages>>
  \/ part = "pages" /\ Pages!Next /\ UNCHANGED <<part, vars, reminder, agent, saver>>

PartSpec == PartInit /\ [][PartNext]_<<part, vars, reminder, agent, saver, pages>>

(* Session upkeep (createSession, deleteSession, SessionHistoryProcessor): a  *)
(* background task holds the database exactly as long as it runs, no message  *)
(* is counted before the memory engine has it, no lock outlives its holder.   *)
SessionsAreKept == part = "sessions" => TypeOK /\ HoldsDatabase /\ NothingSkipped /\ LockIsReleased

(* Reminders (SimpleProcessor, TasksService): no attempt repeats a message it *)
(* knows was sent, nothing runs before the task is stored, and the runs in    *)
(* the metadata are those that ended well, unless one was recorded between    *)
(* another's read and its write, over a copy out of date, or by an attempt    *)
(* that failed after it (torn).                                               *)
RemindersAreSent ==
  part = "reminder" =>
    /\ Reminder!TypeOK
    /\ Reminder!AtMostOnce /\ Reminder!CreatedFirst /\ Reminder!RunRecorded

(* A sub-agent's history (summarization middleware, filterForwardedMessages): *)
(* a tool call is never cut from its results, each message is in the history  *)
(* or in its summary, but for older ones a summary was written without        *)
(* (lost), and what is forwarded comes in pairs.                              *)
HistoryIsUsable ==
  part = "agent" =>
    /\ Agent!TypeOK
    /\ Agent!PairsKept /\ Agent!Remembered /\ Agent!ForwardedInPairs

(* Checkpoints in a room (MatrixCheckpointSaver): what was acknowledged is    *)
(* found with its ancestors and its writes, through failed writes, lapsed     *)
(* caches, rebuilds and restarts, and what was deleted is gone.  Failed reads *)
(* are recorded where they break this: of the map (misread), of a checkpoint  *)
(* (unread), of its writes (dropped).                                         *)
CheckpointsAreFound ==
  part = "saver" =>
    /\ Saver!TypeOK
    /\ Saver!AckedIsFound /\ Saver!ChainIsWhole /\ Saver!WritesKept /\ Saver!DeletedIsGone

(* Pages (the tools of the editor agent): while no call is at work on a block  *)
(* the page shows for it what was acknowledged last, to the agents or the      *)
(* user, but for what changed in two copies at once or was never sent          *)
(* (astray); blocks are gone only as asked, and the page has one root.         *)
EditsAreKept ==
  part = "pages" => Pages!TypeOK /\ Pages!EditsAreKept

(* What no step may do: run a reminder whose task was stopped, or let a       *)
(* summary take a message among the last ones kept.                           *)
StoppedIsQuiet == Reminder!StoppedIsQuiet
RecentKept == Agent!RecentKept
StepsAreSafe == StoppedIsQuiet /\ RecentKept
=============================================================================
