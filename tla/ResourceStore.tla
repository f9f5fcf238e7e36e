---------------------------- MODULE ResourceStore ----------------------------
(***************************************************************************)
(* The store of audio and choreographies the rabbit downloads by URL       *)
(* (store_resource, _res_evict_locked and GET /res/ of server.py): three   *)
(* bounds, oldest out first, many threads that store.                      *)
(*                                                                         *)
(* A token is the number of the resource in the order they were stamped.   *)
(* What happens under RES_LOCK is one action per turn of the eviction      *)
(* loop; the clock is read before the lock is taken, as in the code.       *)
(***************************************************************************)
EXTENDS Integers, Sequences

CONSTANTS Writers,                      \* the threads that store resources
          MaxAge, MaxItems, MaxBytes    \* RES_MAX_AGE, RES_MAX_ITEMS, RES_MAX_BYTES

ASSUME ResourceStoreAssumption ==
  /\ MaxAge \in Nat /\ MaxItems \in Nat \ {0} /\ MaxBytes \in Nat
  /\ "free" \notin Writers

VARIABLES RESOURCES,   \* the entries, oldest first: token, size, when stamped
          RES_BYTES, RES_DROPPED,
          RES_LOCK,    \* the thread that holds it, or "free"
          pending,     \* per thread: the entries it has stamped and not yet stored
          tokens,      \* how many tokens were drawn
          clock,       \* time.time()
          stored       \* history: every entry ever stored, in the order of storing

storeVars == <<RESOURCES, RES_BYTES, RES_DROPPED, RES_LOCK, pending, tokens, clock, stored>>

Entry == [token : Nat, size : Nat, at : Nat]
\* In the store an entry also carries the bytes stored before it, a history.
Stored == [token : Nat, size : Nat, at : Nat, before : Nat]

\* All the bytes ever stored.
Total == IF stored = <<>> THEN 0
         ELSE stored[Len(stored)].before + stored[Len(stored)].size

StoreInit ==
  /\ RESOURCES = <<>> /\ stored = <<>>
  /\ RES_BYTES = 0 /\ RES_DROPPED = 0 /\ tokens = 0 /\ clock = 0
  /\ RES_LOCK = "free"
  /\ pending = [w \in Writers |-> <<>>]

\* store_resource, up to the lock.
Stamp(w, size) ==
  /\ pending[w] = <<>>
  /\ tokens' = tokens + 1
  /\ pending' = [pending EXCEPT ![w] = <<[token |-> tokens + 1, size |-> size, at |-> clock]>>]
  /\ UNCHANGED <<RESOURCES, RES_BYTES, RES_DROPPED, RES_LOCK, clock, stored>>

NewEntry(w) ==
  LET e == pending[w][1]
  IN  [token |-> e.token, size |-> e.size, at |-> e.at, before |-> Total]

\* It takes the lock and enters the resource.
Insert(w) ==
  /\ RES_LOCK = "free" /\ pending[w] # <<>>
  /\ RES_LOCK' = w
  /\ RESOURCES' = Append(RESOURCES, NewEntry(w))
  /\ RES_BYTES' = RES_BYTES + pending[w][1].size
  /\ stored' = Append(stored, NewEntry(w))
  /\ UNCHANGED <<RES_DROPPED, pending, tokens, clock>>

\* Mutant: the age is compared with the wrong side.
OverBoundsEager(now) ==
  /\ RESOURCES # <<>>
  /\ \/ now - RESOURCES[1].at >= MaxAge
     \/ Len(RESOURCES) > MaxItems
     \/ RES_BYTES > MaxBytes

\* Mutant: only the age is looked at.
OverBoundsByAge(now) == RESOURCES # <<>> /\ now - RESOURCES[1].at > MaxAge

\* Does the oldest entry have to go?
OverBounds(now) ==
  /\ RESOURCES # <<>>
  /\ \/ now - RESOURCES[1].at > MaxAge
     \/ Len(RESOURCES) > MaxItems
     \/ RES_BYTES > MaxBytes

\* Mutant: an evicted entry's bytes stay on the account.
EvictKeepsBytes(w) ==
  /\ RES_LOCK = w
  /\ OverBounds(pending[w][1].at)
  /\ RESOURCES' = Tail(RESOURCES)
  /\ RES_DROPPED' = RES_DROPPED + 1
  /\ UNCHANGED <<RES_BYTES, RES_LOCK, pending, tokens, clock, stored>>

\* One turn of _res_evict_locked.
Evict(w) ==
  /\ RES_LOCK = w
  /\ OverBounds(pending[w][1].at)
  /\ RESOURCES' = Tail(RESOURCES)
  /\ RES_BYTES' = RES_BYTES - RESOURCES[1].size
  /\ RES_DROPPED' = RES_DROPPED + 1
  /\ UNCHANGED <<RES_LOCK, pending, tokens, clock, stored>>

\* No bound is exceeded any more: the token is returned.
Release(w) ==
  /\ RES_LOCK = w
  /\ ~OverBounds(pending[w][1].at)
  /\ RES_LOCK' = "free"
  /\ pending' = [pending EXCEPT ![w] = <<>>]
  /\ UNCHANGED <<RESOURCES, RES_BYTES, RES_DROPPED, tokens, clock, stored>>

Tick ==
  /\ clock' = clock + 1
  /\ UNCHANGED <<RESOURCES, RES_BYTES, RES_DROPPED, RES_LOCK, pending, tokens, stored>>

\* RESOURCES.get(token), under the lock.
Holds(token) == \E i \in DOMAIN RESOURCES : RESOURCES[i].token = token
-----------------------------------------------------------------------------
\* The store alone, with threads that may always store again.
StoreNext ==
  \/ \E w \in Writers :
       \/ \E size \in Nat : Stamp(w, size)
       \/ Insert(w) \/ Evict(w) \/ Release(w)
  \/ Tick

StoreSpec == StoreInit /\ [][StoreNext]_storeVars

\* The bounds hold whenever nobody is storing: not one entry too many, not one
\* byte too many, whatever the sizes and the order in which the threads come.
WithinBounds ==
  RES_LOCK = "free" => Len(RESOURCES) <= MaxItems /\ RES_BYTES <= MaxBytes

\* The store forgets from the old end only, and its account is exact: it holds
\* the last entries stored, and RES_BYTES is what they weigh.
KeepsTheNewest ==
  /\ Len(stored) = RES_DROPPED + Len(RESOURCES)
  /\ \A i \in DOMAIN RESOURCES : RESOURCES[i] = stored[RES_DROPPED + i]
  /\ RES_BYTES = IF RESOURCES = <<>> THEN 0 ELSE Total - RESOURCES[1].before

\* Nothing is dropped early: what the rabbit has been told to fetch is gone only
\* once it is older than two minutes, or has enough newer entries behind it, or
\* weighs too much together with them; however late a thread that read the clock
\* came to its turn.
NeverDroppedEarly ==
  \A i \in 1..RES_DROPPED :
    \/ clock - stored[i].at > MaxAge
    \/ Len(stored) - i >= MaxItems
    \/ Total - stored[i].before > MaxBytes
=============================================================================
