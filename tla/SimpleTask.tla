---------------------------- MODULE SimpleTask ----------------------------
(* A reminder (a "simple" task): its creation, its job, the 30 s copy of its *)
(* metadata, and the operations of its user (simple.processor.ts and         *)
(* task.service.ts).  Metadata live in a page, which merges fields, or in a  *)
(* state event of the main room, which is read, changed and written back.    *)
EXTENDS Naturals, FiniteSets, TLC

CONSTANTS
    Ticks,          \* bound: jobs the cron creates
    Attempts,       \* attempts of a job
    MaxFailures,    \* MAX_CONSECUTIVE_FAILURES
    MaxEvents       \* bound: operations and look-ups of the user, and calls that fail

SimpleAssumption ==
    /\ {Ticks, MaxEvents} \subseteq Nat
    /\ {Attempts, MaxFailures} \subseteq Nat \ {0}

VARIABLES
    page,           \* the task has a page
    meta,           \* TaskMeta; Absent until stored
    indexed,        \* the task is in the index
    cache,          \* tasks:meta, the copy; Absent when there is none
    seen,           \* get_task_status between its read and its cache.set
    scheduler,      \* text of the repeatable job, "off" without one
    due,            \* the deadline has come
    job,            \* jobs: 0 has the fixed id, the others are the cron's
    proc,           \* whoever works on the task
    stopped,        \* a pause or cancellation has returned, with no read under way
    torn,           \* history: a run was recorded twice, or over or under metadata that
                    \* somebody had read before, or was computed from a copy out of date
    events          \* operations of the user and failed calls so far

queue == <<scheduler, due, job>>
store == <<meta, indexed, cache>>
vars == <<page, store, seen, queue, proc, stopped, torn, events>>

Jobs == 0..Ticks
Maker == Ticks + 1
User == Ticks + 2
Procs == Jobs \cup {Maker, User}

Texts == {"given", "blank"}
Metas == [status : {"none", "active", "paused", "cancelled", "completed"},
          runs : 0..(Ticks + 1) * Attempts, failures : 0..MaxEvents,
          key : BOOLEAN, cron : BOOLEAN, deadline : BOOLEAN]
Absent == [status |-> "none", runs |-> 0, failures |-> 0, key |-> FALSE,
           cron |-> FALSE, deadline |-> FALSE]
NoChange == [f \in {} |-> 0]
NoJob == [state |-> "none", text |-> "given", tries |-> 0, sent |-> FALSE,
          posts |-> 0]
Idle == [pc |-> "idle", op |-> "none", view |-> Absent, upd |-> NoChange,
         replan |-> FALSE, failed |-> FALSE, after |-> FALSE]

(* Every variable keeps its type. *)
TypeOK ==
    /\ {page, indexed, due, stopped, torn} \subseteq BOOLEAN
    /\ {meta, cache, seen} \subseteq Metas
    /\ scheduler \in Texts \cup {"off"}
    /\ job \in [Jobs -> [state : {"none", "waiting", "active", "done", "skipped", "failed"},
                         text : Texts, tries : 0..Attempts, sent : BOOLEAN,
                         posts : 0..Attempts]]
    /\ DOMAIN proc = Procs
    /\ \A x \in Procs : proc[x].view \in Metas /\ proc[x].upd @@ proc[x].view \in Metas
    /\ events \in 0..MaxEvents

(* buildTaskMeta: an immediate task, one with a deadline, or a recurring one. *)
New == {[Absent EXCEPT !.status = "active", !.cron = c, !.deadline = d] :
            c \in BOOLEAN, d \in BOOLEAN}

Init ==
    /\ page \in BOOLEAN
    /\ meta = Absent /\ cache = Absent /\ seen = Absent
    /\ indexed = FALSE /\ stopped = FALSE /\ torn = FALSE
    /\ scheduler = "off" /\ due = FALSE
    /\ job = [j \in Jobs |-> NoJob]
    /\ \E m \in {n \in New : ~(n.cron /\ n.deadline)} :
          proc = [x \in Procs |-> IF x = Maker THEN [Idle EXCEPT !.pc = "store", !.view = m]
                                  ELSE Idle]
    /\ events = 0

Happens == events < MaxEvents /\ events' = events + 1
Goto(x, pc) == proc' = [proc EXCEPT ![x].pc = pc]
Runnable(m) == m.status = "active"
Known == cache # Absent \/ indexed

(* getTask: the copy while there is one, else what is stored, copied. *)
Read == IF cache # Absent THEN cache ELSE meta
Copied == cache' = Read
Forget == cache' = Absent

-----------------------------------------------------------------------------
(* The queue. *)

(* scheduleSimpleTask: a repeatable job, or the one job of the fixed id, which *)
(* is not added while a finished one is kept.                                  *)
Schedule(m, text) ==
    IF m.cron
    THEN scheduler' = text /\ UNCHANGED <<due, job>>
    ELSE /\ job' = IF job[0].state # "none" THEN job
                   ELSE [job EXCEPT ![0] = [NoJob EXCEPT !.state = "waiting", !.text = text]]
         /\ due' = ~m.deadline
         /\ UNCHANGED scheduler

(* cancelAllJobsForTask: a job being worked on stays, and so does a repeatable *)
(* job whose key is not known.                                                 *)
Drop(m) ==
    /\ job' = IF job[0].state = "waiting" THEN [job EXCEPT ![0] = NoJob] ELSE job
    /\ scheduler' = IF m.key THEN "off" ELSE scheduler
    /\ UNCHANGED due

(* BullMQ runs a job that threw again, 10 s later, while attempts last. *)
Thrown(j) == [job[j] EXCEPT !.tries = @ + 1,
                            !.state = IF job[j].tries + 1 < Attempts THEN "waiting" ELSE "failed"]

CronTick(j) ==
    /\ scheduler # "off"
    /\ j # 0 /\ job[j].state = "none"
    /\ \A i \in 1..j - 1 : job[i].state # "none"
    /\ job' = [job EXCEPT ![j] = [NoJob EXCEPT !.state = "waiting", !.text = scheduler]]
    /\ UNCHANGED <<page, store, seen, scheduler, due, proc, stopped, torn, events>>

DeadlineComes ==
    /\ ~due /\ job[0].state = "waiting"
    /\ due' = TRUE
    /\ UNCHANGED <<page, store, seen, scheduler, job, proc, stopped, torn, events>>

-----------------------------------------------------------------------------
(* createTask: metadata, job, references, index, copy. *)

Store ==
    /\ proc[Maker].pc = "store"
    /\ meta' = proc[Maker].view
    /\ Goto(Maker, "schedule")
    /\ UNCHANGED <<page, indexed, cache, seen, queue, stopped, torn, events>>

MakeJob ==
    LET m == proc[Maker].view IN
    /\ proc[Maker].pc = "schedule"
    /\ Schedule(m, "given")
    /\ proc' = [proc EXCEPT ![Maker].pc = "refs", ![Maker].view.key = m.cron]
    /\ UNCHANGED <<page, store, seen, stopped, torn, events>>

StoreRefs ==
    LET m == proc[Maker].view IN
    /\ proc[Maker].pc = "refs"
    /\ meta' = IF page THEN [meta EXCEPT !.key = m.key] ELSE m
    /\ Goto(Maker, "index")
    /\ UNCHANGED <<page, indexed, cache, seen, queue, stopped, torn, events>>

Index ==
    /\ proc[Maker].pc = "index"
    /\ indexed' = TRUE
    /\ Goto(Maker, "warm")
    /\ UNCHANGED <<page, meta, cache, seen, queue, stopped, torn, events>>

Warm ==
    /\ proc[Maker].pc = "warm"
    /\ cache' = proc[Maker].view
    /\ proc' = [proc EXCEPT ![Maker] = [Idle EXCEPT !.pc = "done"]]
    /\ UNCHANGED <<page, meta, indexed, seen, queue, stopped, torn, events>>

-----------------------------------------------------------------------------
(* updateTask, called by jobs and by the user; copies have been invalidated. *)

(* Who is to write the number of runs it has read, or counted on, before.    *)
Holds(x) == proc[x].pc \in {"send", "event", "merge", "write"} /\ "runs" \in DOMAIN proc[x].upd
Tears(x, m) == m.runs # meta.runs /\ \E y \in Procs \ {x} : Holds(y)

(* A page takes the fields; a state event is read first ...                  *)
Merge(x) ==
    /\ proc[x].pc = "merge"
    /\ IF page
       THEN /\ meta' = proc[x].upd @@ meta
            /\ torn' = (torn \/ Tears(x, proc[x].upd @@ meta))
            /\ Goto(x, "wrote")
            /\ UNCHANGED cache
       ELSE /\ proc' = [proc EXCEPT ![x].pc = "write", ![x].upd = @ @@ Read]
            /\ torn' = (torn \/ Read.runs # meta.runs)
            /\ Copied
            /\ UNCHANGED meta
    /\ UNCHANGED <<page, indexed, seen, queue, stopped, events>>

(* ... and written as a whole. *)
Write(x) ==
    /\ proc[x].pc = "write"
    /\ meta' = proc[x].upd
    /\ torn' = (torn \/ Tears(x, proc[x].upd))
    /\ Goto(x, "wrote")
    /\ UNCHANGED <<page, indexed, cache, seen, queue, stopped, events>>

(* Copies are invalidated after the write, so the next read is fresh.  Mutant: *)
(* they are not.                                                               *)
Fresh_copied == Read
Fresh == meta

(* The final read, for the index, and the return to the caller. *)
Return(x) ==
    /\ proc[x].pc = "wrote" /\ ~proc[x].replan
    /\ cache' = Fresh
    /\ proc' = [proc EXCEPT ![x] = Idle]
    /\ IF x = User THEN UNCHANGED job
       ELSE job' = [job EXCEPT ![x] = IF proc[x].failed THEN Thrown(x)
                                      ELSE [job[x] EXCEPT !.state = "done"]]
    /\ stopped' = (stopped \/ (proc[x].op \in {"pause", "cancel"} /\ seen = Absent))
    /\ UNCHANGED <<page, meta, indexed, seen, scheduler, due, torn, events>>

(* A new schedule: its jobs replace the old ones ... *)
DropOld ==
    /\ proc[User].pc = "wrote" /\ proc[User].replan
    /\ cache' = Fresh
    /\ Drop(Fresh)
    /\ proc' = [proc EXCEPT ![User].pc = "replan", ![User].view = Fresh]
    /\ UNCHANGED <<page, meta, indexed, seen, stopped, torn, events>>

(* ... without their message. *)
Replan ==
    LET m == proc[User].view IN
    /\ proc[User].pc = "replan"
    /\ Schedule(m, "blank")
    /\ proc' = [proc EXCEPT ![User].pc = "merge", ![User].replan = FALSE,
                            ![User].upd = [key |-> m.cron]]
    /\ UNCHANGED <<page, store, seen, stopped, torn, events>>

-----------------------------------------------------------------------------
(* SimpleProcessor.process *)

Taken(j) ==
    /\ job[j].state = "waiting"
    /\ j = 0 => due

(* Where a job goes on.  Mutant: a retry starts over. *)
Resumed_again(j) == "send"
Resumed(j) == IF job[j].sent THEN "event" ELSE "send"

(* getTask; what the run will record is computed from it. *)
Start(j) ==
    LET ran == [runs |-> Read.runs + 1, failures |-> 0] IN
    /\ Taken(j) /\ Known
    /\ Copied
    /\ IF Runnable(Read)
       THEN /\ job' = [job EXCEPT ![j].state = "active"]
            /\ proc' = [proc EXCEPT ![j] = [Idle EXCEPT !.pc = Resumed(j), !.after = stopped,
                   !.upd = IF Read.cron THEN ran ELSE [status |-> "completed"] @@ ran]]
            /\ torn' = (torn \/ Read.runs # meta.runs)
       ELSE /\ job' = [job EXCEPT ![j].state = "skipped"]
            /\ UNCHANGED <<proc, torn>>
    /\ UNCHANGED <<page, meta, indexed, seen, scheduler, due, stopped, events>>

(* A task that is not indexed yet is not found, and its failures not counted. *)
StartTooSoon(j) ==
    /\ Taken(j) /\ ~Known
    /\ job' = [job EXCEPT ![j] = Thrown(j)]
    /\ UNCHANGED <<page, store, seen, scheduler, due, proc, stopped, torn, events>>

(* sendTaskNotification and updateProgress; when creating the session or the *)
(* progress fails, the message is out and the job does not know it ("posts"  *)
(* counts the messages it knows of).                                         *)
Send(j) ==
    /\ proc[j].pc = "send"
    /\ \E slip \in {FALSE} \cup {events < MaxEvents} :
          /\ job' = [job EXCEPT ![j].sent = ~slip, ![j].posts = IF slip THEN @ ELSE @ + 1]
          /\ Goto(j, IF slip THEN "failure" ELSE "event")
          /\ IF slip THEN Happens ELSE UNCHANGED events
    /\ UNCHANGED <<page, store, seen, scheduler, due, stopped, torn>>

(* The run event; updateTask begins and invalidates the copies. *)
PostEvent(j) ==
    /\ proc[j].pc = "event"
    /\ Forget
    /\ Goto(j, "merge")
    /\ UNCHANGED <<page, meta, indexed, seen, queue, stopped, torn, events>>

(* A call fails: nothing is sent, or nothing written, or it is written and the *)
(* index or the final read fails.                                              *)
Fail(j) ==
    /\ Happens
    /\ proc[j].pc \in {"send", "event", IF page THEN "merge" ELSE "write", "wrote"}
    /\ torn' = (torn \/ (proc[j].pc = "wrote" /\ ~proc[j].failed))
    /\ IF proc[j].failed
       THEN /\ job' = [job EXCEPT ![j] = Thrown(j)]
            /\ proc' = [proc EXCEPT ![j] = Idle]
       ELSE Goto(j, "failure") /\ UNCHANGED job
    /\ UNCHANGED <<page, store, seen, scheduler, due, stopped>>

(* handleJobFailure reads past the copy, counts, and stops the task in the end. *)
CountFailure(j) ==
    LET n == meta.failures + 1
        counted == [failures |-> n] IN
    /\ proc[j].pc = "failure"
    /\ Forget
    /\ proc' = [proc EXCEPT ![j].pc = "merge", ![j].failed = TRUE,
           ![j].upd = IF n >= MaxFailures THEN [status |-> "paused"] @@ counted ELSE counted]
    /\ UNCHANGED <<page, meta, indexed, seen, queue, stopped, torn, events>>

-----------------------------------------------------------------------------
(* The user, once createTask has returned the task's id. *)

Begin(op) ==
    /\ proc[Maker].pc = "done" /\ proc[User].pc = "idle"
    /\ Happens
    /\ Forget
    /\ UNCHANGED <<page, meta, indexed, seen, torn>>

Ask(op, upd, replan) ==
    proc' = [proc EXCEPT ![User] = [Idle EXCEPT !.pc = "merge", !.op = op,
                                                !.upd = upd, !.replan = replan]]

(* pauseTask and cancelTask: refused for a task that has ended, and the former *)
(* for an immediate one; the jobs go first.                                    *)
Stop(op) ==
    /\ Begin(op)
    /\ Read.status \notin {"cancelled", "completed"}
    /\ op = "pause" => Read.status # "paused" /\ (Read.cron \/ Read.deadline)
    /\ Drop(Read)
    /\ Ask(op, [status |-> IF op = "pause" THEN "paused" ELSE "cancelled", key |-> FALSE],
           FALSE)
    /\ UNCHANGED stopped
PauseTask == Stop("pause")
CancelTask == Stop("cancel")

ResumeTask ==
    /\ Begin("resume")
    /\ Read.status = "paused"
    /\ ~(Read.deadline /\ ~Read.cron /\ due)
    /\ Ask("resume", [status |-> "active"], Read.cron \/ Read.deadline)
    /\ stopped' = FALSE
    /\ UNCHANGED queue

(* update_task_schedule *)
Reschedule(field) ==
    /\ Begin("schedule")
    /\ Ask("schedule", [f \in {field} |-> TRUE], TRUE)
    /\ UNCHANGED <<stopped, queue>>

(* update_notification_policy, set_approval_gate: fields no property is about. *)
UpdatePolicy ==
    /\ Begin("policy")
    /\ Ask("policy", NoChange, FALSE)
    /\ UNCHANGED <<stopped, queue>>

(* An operation of the user fails, and leaves what it has done. *)
FailAsk ==
    /\ Happens
    /\ proc[User].pc \in {"replan", IF page THEN "merge" ELSE "write", "wrote"}
    /\ proc' = [proc EXCEPT ![User] = Idle]
    /\ UNCHANGED <<page, store, seen, queue, stopped, torn>>

(* get_task_status: the read, and the copy it keeps. *)
Look ==
    /\ indexed
    /\ seen = Absent /\ cache = Absent
    /\ Happens
    /\ seen' = meta
    /\ UNCHANGED <<page, store, queue, proc, stopped, torn>>

KeepCopy ==
    /\ seen # Absent
    /\ cache' = seen
    /\ seen' = Absent
    /\ UNCHANGED <<page, meta, indexed, queue, proc, stopped, torn, events>>

ExpireCopy ==
    /\ cache # Absent
    /\ Forget
    /\ UNCHANGED <<page, meta, indexed, seen, queue, proc, stopped, torn, events>>

-----------------------------------------------------------------------------
Make == Store \/ MakeJob \/ StoreRefs \/ Index \/ Warm
UpdateStep(x) == Merge(x) \/ Write(x) \/ Return(x)
JobStep(j) ==
    \/ Start(j) \/ StartTooSoon(j) \/ Send(j) \/ PostEvent(j) \/ Fail(j)
    \/ CountFailure(j) \/ UpdateStep(j)
Ask_ == \/ PauseTask \/ CancelTask \/ ResumeTask \/ UpdatePolicy \/ FailAsk
        \/ \E f \in {"cron", "deadline"} : Reschedule(f)

Next ==
    \/ Make \/ Ask_ \/ UpdateStep(User) \/ DropOld \/ Replan
    \/ \E j \in Jobs : CronTick(j) \/ JobStep(j)
    \/ DeadlineComes \/ Look \/ KeepCopy \/ ExpireCopy

Spec == Init /\ [][Next]_vars

-----------------------------------------------------------------------------
(* A job sends no message again that it knows it has sent: the retries that the *)
(* run event or the metadata need send nothing.                                 *)
AtMostOnce == \A j \in Jobs : job[j].posts <= 1

(* Nothing is sent or recorded for a task before its references are stored, *)
(* although its job is queued first: what a run recorded would be lost.      *)
CreatedFirst ==
    proc[Maker].pc \in {"store", "schedule", "refs"} =>
        /\ \A j \in Jobs : job[j].posts = 0
        /\ meta.runs = 0 /\ meta.failures = 0

(* A job that starts once a pause or a cancellation has returned sends nothing  *)
(* until the task is resumed: for a task with a page, and if no read of the     *)
(* task overlaps the stop, as getTask would then keep what it read before.      *)
StoppedIsQuiet ==
    [][\A j \in Jobs : page /\ proc[j].after /\ stopped => job'[j].posts = job[j].posts]_vars

(* The runs that are recorded are those of the jobs that ended well, each once, *)
(* whatever the user writes meanwhile and whichever attempt it                 *)
(* took, unless a run was recorded between another's read and its write (page:  *)
(* of the runs, state event: of anything), was computed from a copy out of      *)
(* date, or was recorded by an attempt that failed after its write.             *)
Recorded == {j \in Jobs : job[j].state = "done" \/ (proc[j].pc = "wrote" /\ ~proc[j].failed)}
RunRecorded == ~torn => meta.runs = Cardinality(Recorded)

(* What a reminder says is the message it was created with: create_task asks *)
(* for "the literal message to send at the scheduled time".                  *)
MessageIsKept == \A j \in Jobs : job[j].posts > 0 => job[j].text = "given"
=============================================================================
