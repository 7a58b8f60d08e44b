-------------------------- MODULE UserPreferences --------------------------
(***************************************************************************)
(* What the user wants the agent to be like                                *)
(* (apps/app/src/user-preferences, graph/nodes/tools-node/                 *)
(* user-preferences-tool.ts, matrix-state-manager.ts): a state event of    *)
(* the room, read into every prompt and into the portal through a cache,   *)
(* and changed by the set_user_preferences tool, which merges the fields   *)
(* it is given into what it reads.                                         *)
(***************************************************************************)
EXTENDS Naturals

CONSTANTS
  Callers, Fields,
  None,
  MaxWrites,  \* bound: versions ever made
  MaxFaults   \* bound: calls of the homeserver that fail

VARIABLES
  stored,     \* the state event: the version of each field, 0 for none
  cache,      \* what is cached for the room, or None
  pc, fields, \* a caller's step, and the fields it sets; None for a reader
  base,       \* what a caller has read
  shown,      \* what a reader was last given
  said,       \* the version each field was last set to
  before,     \* the versions acknowledged when a caller began
  done,       \* the versions acknowledged
  torn,       \* calls were in each other's way, or one has failed
  writes, faults

vars == <<stored, cache, pc, fields, base, shown, said, before, done, torn, writes, faults>>

Unset == [f \in Fields |-> 0]

(* The room has no preferences yet, or some of an earlier day.              *)
Init ==
  /\ stored \in {Unset, [f \in Fields |-> 1]} /\ cache = None
  /\ pc = [c \in Callers |-> "idle"] /\ fields = [c \in Callers |-> None]
  /\ base = [c \in Callers |-> Unset] /\ shown = base /\ before = base
  /\ said = stored /\ done = stored
  /\ torn = FALSE /\ writes = 1 /\ faults = 0

Setter(c) == fields[c] # None
Writing == \E c \in Callers : pc[c] = "written"
To(c, p) == pc' = [pc EXCEPT ![c] = p]

(* The call is over; what it has read is gone.                              *)
End(c) == /\ To(c, "idle")
          /\ base' = [base EXCEPT ![c] = Unset]

------------------------------------------------------------------------------
(***************************************************************************)
(* get: what is cached, or the state event.  Only what was found is        *)
(* cached; a read that fails, or that cannot be parsed, is no preferences. *)
(***************************************************************************)
Begin(c, fs) ==
  /\ pc[c] = "idle"
  /\ fields' = [fields EXCEPT ![c] = fs]
  /\ before' = [before EXCEPT ![c] = IF fs = None THEN done ELSE Unset]
  /\ shown' = [shown EXCEPT ![c] = Unset]
  /\ base' = [base EXCEPT ![c] = IF cache = None THEN Unset ELSE cache]
  /\ To(c, IF cache = None THEN "reading" ELSE "got")
  /\ torn' = (torn \/ (fs # None /\ cache # None /\ Writing))
  /\ UNCHANGED <<stored, cache, said, done, writes, faults>>

Get(c) == Begin(c, None)
Set(c) == \E fs \in SUBSET Fields : Begin(c, fs)

GetState(c) ==
  /\ pc[c] = "reading"
  /\ base' = [base EXCEPT ![c] = stored]
  /\ To(c, "answered")
  /\ UNCHANGED <<stored, cache, fields, shown, said, before, done, torn, writes, faults>>

Arrive(c) ==
  /\ pc[c] = "answered"
  /\ cache' = IF base[c] = Unset THEN cache ELSE base[c]
  /\ To(c, "got")
  /\ UNCHANGED <<stored, fields, base, shown, said, before, done, torn, writes, faults>>

FailRead(c) ==
  /\ pc[c] \in {"reading", "answered"}
  /\ faults < MaxFaults
  /\ faults' = faults + 1
  /\ base' = [base EXCEPT ![c] = Unset]
  /\ To(c, "got")
  /\ torn' = TRUE
  /\ UNCHANGED <<stored, cache, fields, shown, said, before, done, writes>>

(* A prompt or the portal shows what was read.                              *)
Show(c) ==
  /\ pc[c] = "got" /\ ~Setter(c)
  /\ shown' = [shown EXCEPT ![c] = base[c]]
  /\ End(c)
  /\ UNCHANGED <<stored, cache, fields, said, before, done, torn, writes, faults>>

------------------------------------------------------------------------------
(* set: an empty change returns what was read.                              *)
SetNothing(c) ==
  /\ pc[c] = "got" /\ fields[c] = {}
  /\ End(c)
  /\ UNCHANGED <<stored, cache, fields, shown, said, before, done, torn, writes, faults>>

Changed(c, versions) == [f \in Fields |-> IF f \in fields[c] THEN writes + 1 ELSE versions[f]]

(* A caller that has read, and has not yet used what it read.               *)
Between(c) == pc[c] = "answered" \/ (pc[c] = "got" /\ Setter(c) /\ fields[c] # {})

Store(c) ==
  /\ pc[c] = "got" /\ Setter(c) /\ fields[c] # {}
  /\ writes < MaxWrites
  /\ writes' = writes + 1
  /\ stored' = Changed(c, base[c])
  /\ said' = Changed(c, said)

SetState(c) ==
  /\ Store(c)
  /\ To(c, "written")
  /\ torn' = (torn \/ \E d \in Callers \ {c} : Between(d))
  /\ UNCHANGED <<cache, fields, base, shown, before, done, faults>>

(***************************************************************************)
(* A write that was slowed down is made again after ten seconds, and       *)
(* throws all the same: the tool reports an error, and the cache stays.    *)
(***************************************************************************)
SetStateLate(c) ==
  /\ Store(c)
  /\ faults < MaxFaults
  /\ faults' = faults + 1
  /\ End(c)
  /\ torn' = TRUE
  /\ UNCHANGED <<cache, fields, shown, before, done>>

FailWrite(c) ==
  /\ pc[c] = "got" /\ Setter(c) /\ fields[c] # {}
  /\ faults < MaxFaults
  /\ faults' = faults + 1
  /\ End(c)
  /\ UNCHANGED <<stored, cache, fields, shown, said, before, done, torn, writes>>

Invalidate(c) ==
  /\ pc[c] = "written"
  /\ cache' = None
  /\ done' = [f \in Fields |-> IF f \in fields[c] THEN stored[f] ELSE done[f]]
  /\ End(c)
  /\ UNCHANGED <<stored, fields, shown, said, before, torn, writes, faults>>

(* Sixty seconds have passed.                                               *)
Expire ==
  /\ cache # None
  /\ cache' = None
  /\ UNCHANGED <<stored, pc, fields, base, shown, said, before, done, torn, writes, faults>>

Next ==
  \/ Expire
  \/ \E c \in Callers :
       \/ Get(c) \/ Set(c) \/ GetState(c) \/ Arrive(c) \/ FailRead(c) \/ Show(c)
       \/ SetNothing(c) \/ SetState(c) \/ SetStateLate(c) \/ FailWrite(c) \/ Invalidate(c)

Spec == Init /\ [][Next]_vars

------------------------------------------------------------------------------
(***************************************************************************)
(* "Other fields are kept as-is" (set_user_preferences): a field has the   *)
(* version it was last set to, unless a read had failed or two calls were  *)
(* in each other's way.  set reads, merges and writes without a lock.      *)
(***************************************************************************)
FieldsAreKept == ~torn => stored = said

(* Nothing older than the state event is cached once a change is through.   *)
CacheIsTrue == ~torn /\ ~Writing => cache \in {None, stored}

(***************************************************************************)
(* "Changes apply from the NEXT message": a prompt that is built after a   *)
(* change was acknowledged has it.                                         *)
(***************************************************************************)
ChangeIsSeen ==
  ~torn => \A c \in Callers : pc[c] = "idle" /\ fields[c] = None =>
             \A f \in Fields : shown[c][f] >= before[c][f]
=============================================================================
