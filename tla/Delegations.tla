---------------------------- MODULE Delegations ----------------------------
(***************************************************************************)
(* The life of a user's UCAN delegations.  A device makes one for the      *)
(* oracle and keeps it (oracles-client-sdk/src/utils/delegation-cache.ts); *)
(* the oracle checks it, keeps the last one it saw                         *)
(* (apps/app/src/middleware/auth-header.middleware.ts) and makes from it   *)
(* invocations of other services, which it keeps too                       *)
(* (apps/app/src/ucan/ucan.service.ts).  One user; time passes in ticks.   *)
(***************************************************************************)
EXTENDS Naturals, SequencesExt

CONSTANTS
  Devices,
  Lives,        \* how long a device may make a delegation last
  Services,
  RenewBefore,  \* EXPIRY_BUFFER_MS: a device renews before the end
  Week,         \* how long a delegation is cached when no end is given
  Hour,         \* MAX_INVOCATION_TTL_SECONDS
  MaxTime,      \* bound: ticks
  MaxMade       \* bound: delegations, and invocations, made

(* Times are counted in ticks; nothing is asked of how long the buffers are.  *)
DelegationsAssumption ==
  /\ Lives \subseteq Nat /\ {RenewBefore, Week, Hour, MaxMade} \subseteq Nat
  /\ MaxTime \in Nat \ {0}

VARIABLES
  now,
  ends,         \* delegation -> its expiration, in the order they were made
  held,         \* device -> the delegation in its local storage, or None
  known,        \* the cached delegation of the user and the end of its entry
  asked,        \* service -> the delegation a call for an invocation has read
  minted,       \* invocations, in the order they were made
  ready,        \* service -> the cached invocation for it, or None
  handed        \* the last invocation handed out: for what, and when

vars == <<now, ends, held, known, asked, minted, ready, handed>>

None == 0
Forever == MaxTime + Week + Hour
Issued == DOMAIN ends
Made == DOMAIN minted

Init ==
  /\ now = 1
  /\ ends = <<>> /\ held = [d \in Devices |-> None]
  /\ known = [id |-> None, until |-> 0] /\ asked = [s \in Services |-> None]
  /\ minted = <<>> /\ ready = [s \in Services |-> None]
  /\ handed = [id |-> None, to |-> None, at |-> 0]

Tick ==
  /\ now < MaxTime
  /\ now' = now + 1
  /\ UNCHANGED <<ends, held, known, asked, minted, ready, handed>>

------------------------------------------------------------------------------
(* The device.                                                              *)

(* getCachedDelegation: one that does not last long enough is given up.     *)
Lasts(d) == held[d] # None /\ ends[held[d]] >= now + RenewBefore

(* getDelegation: the device makes a new one, with an end or without.       *)
GetDelegation(d) ==
  /\ ~Lasts(d)
  /\ Len(ends) < MaxMade
  /\ \E end \in {now + life : life \in Lives} \cup {Forever} : ends' = Append(ends, end)
  /\ held' = [held EXCEPT ![d] = Len(ends) + 1]
  /\ UNCHANGED <<now, known, asked, minted, ready, handed>>

------------------------------------------------------------------------------
(* The oracle.                                                              *)

(***************************************************************************)
(* cacheDelegation: the entry ends with the delegation, or after a week    *)
(* when no expiration is told; what has ended is not cached.               *)
(***************************************************************************)
Until(id, told) == IF told /\ ends[id] < Forever THEN ends[id] ELSE now + Week
CacheDelegation(id, told) ==
  known' = IF Until(id, told) <= now THEN known ELSE [id |-> id, until |-> Until(id, told)]

(***************************************************************************)
(* use: a request arrives with its delegation, some time after it was      *)
(* sent; whether it was checked now or its check was cached, it has not    *)
(* ended.                                                                  *)
(***************************************************************************)
Use(id) ==
  /\ id \in Issued /\ ends[id] >= now
  /\ CacheDelegation(id, TRUE)
  /\ UNCHANGED <<now, ends, held, asked, minted, ready, handed>>

(* handleConnection: the delegation of the device is kept, and its end is   *)
(* not told.                                                                *)
HandleConnection(d) ==
  /\ Lasts(d)
  /\ CacheDelegation(held[d], FALSE)
  /\ UNCHANGED <<now, ends, held, asked, minted, ready, handed>>

(* createServiceInvocation starts with the cached delegation ...            *)
GetCachedDelegation(s) ==
  /\ asked[s] = None
  /\ known.id # None /\ now < known.until
  /\ asked' = [asked EXCEPT ![s] = known.id]
  /\ UNCHANGED <<now, ends, held, known, minted, ready, handed>>

(* ... takes the cached invocation while it lasts ...                       *)
Usable_kept(s) == ready[s] # None
Usable(s) == ready[s] # None /\ minted[ready[s]].ends > now

(* ... or makes one for an hour, but not for longer than the delegation.    *)
Lifetime(id) == IF ends[id] < Forever THEN Min({now + Hour, ends[id]}) ELSE now + Hour

Cached(s, i) == [ready EXCEPT ![s] = i]

CreateServiceInvocation(s) ==
  /\ asked[s] # None
  /\ asked' = [asked EXCEPT ![s] = None]
  /\ IF Usable(s)
     THEN /\ handed' = [id |-> ready[s], to |-> s, at |-> now]
          /\ UNCHANGED <<minted, ready>>
     ELSE /\ Len(minted) < MaxMade
          /\ minted' = Append(minted, [to |-> s, proof |-> asked[s], ends |-> Lifetime(asked[s])])
          /\ handed' = [id |-> Len(minted) + 1, to |-> s, at |-> now]
          /\ ready' = IF Lifetime(asked[s]) > now THEN Cached(s, Len(minted) + 1) ELSE ready
  /\ UNCHANGED <<now, ends, held, known>>

------------------------------------------------------------------------------
Next ==
  \/ Tick
  \/ \E d \in Devices : GetDelegation(d) \/ HandleConnection(d)
  \/ \E id \in 1..MaxMade : Use(id)
  \/ \E s \in Services : GetCachedDelegation(s) \/ CreateServiceInvocation(s)

Spec == Init /\ [][Next]_vars

------------------------------------------------------------------------------
(* Types; what is cached for a service was made for it.                     *)
TypeOK ==
  /\ now \in 1..MaxTime
  /\ Range(held) \subseteq Issued \cup {None} /\ Range(asked) \subseteq Issued \cup {None}
  /\ known.id \in Issued \cup {None}
  /\ \A i \in Made :
       minted[i].to \in Services /\ minted[i].proof \in Issued /\ minted[i].ends \in 1..(MaxTime + Hour)
  /\ \A s \in Services : ready[s] # None => ready[s] \in Made /\ minted[ready[s]].to = s

(***************************************************************************)
(* An invocation that is handed out has not ended unless its proof has,    *)
(* and never outlasts its proof, however the three caches, on the device,  *)
(* of delegations and of invocations, age against each other.              *)
(***************************************************************************)
InForce ==
  handed.id # None =>
    LET i == minted[handed.id] IN
    /\ i.ends <= ends[i.proof]
    /\ handed.at <= i.ends \/ ends[i.proof] <= handed.at
=============================================================================
