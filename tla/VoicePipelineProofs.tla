------------------------- MODULE VoicePipelineProofs -------------------------
(***************************************************************************)
(* What a button recording leaves behind and makes the rabbit say, and     *)
(* what the rabbit is refused, for any number of recordings and requests   *)
(* at once, phrases of any length and any number of failures; and before   *)
(* it the bounds and the accounts of the resource store they share, for any*)
(* number of threads, any sizes and bounds.                                *)
(***************************************************************************)
EXTENDS VoicePipeline, TLAPS, SequenceTheorems, FiniteSetTheorems
-----------------------------------------------------------------------------
(* The resource store: its bounds, its accounts and its promise never to   *)
(* drop a resource early.                                                  *)

\* The types, and a thread's entry stamped in the past.
TypeInv ==
  /\ RESOURCES \in Seq(Stored) /\ stored \in Seq(Stored)
  /\ RES_BYTES \in Int /\ {RES_DROPPED, tokens, clock} \subseteq Nat
  /\ RES_LOCK \in Writers \cup {"free"}
  /\ pending \in [Writers -> Seq(Entry)]

\* The thread in the critical section has an entry, and no thread stamped one in
\* the future.
LockInv ==
  /\ RES_LOCK # "free" => pending[RES_LOCK] # <<>>
  /\ \A w \in Writers : pending[w] # <<>> => pending[w][1].at <= clock

\* Each entry was stored behind the bytes of the one before it.
Chained ==
  \A i \in 1..(Len(stored) - 1) : stored[i + 1].before = stored[i].before + stored[i].size

\* The store is the end of the history.
Suffix ==
  /\ Len(stored) = RES_DROPPED + Len(RESOURCES)
  /\ \A i \in 1..Len(RESOURCES) : RESOURCES[i] = stored[RES_DROPPED + i]

Account == RES_BYTES = IF RESOURCES = <<>> THEN 0 ELSE Total - RESOURCES[1].before

Inv == TypeInv /\ LockInv /\ Chained /\ Suffix /\ Account /\ WithinBounds /\ NeverDroppedEarly
-----------------------------------------------------------------------------
\* What is entered under the lock is well typed and lies behind all the bytes
\* stored so far.
LEMMA NewEntryType ==
  ASSUME TypeInv, NEW w \in Writers, pending[w] # <<>>
  PROVE  /\ NewEntry(w) \in Stored
         /\ NewEntry(w).before = Total
         /\ NewEntry(w).size = pending[w][1].size
         /\ NewEntry(w).size \in Nat /\ Total \in Nat
<1>1. pending[w][1] \in Entry
  BY DEF TypeInv
<1>2. Total \in Nat
  <2>1. CASE stored = <<>>
    BY <2>1 DEF Total
  <2>2. CASE stored # <<>>
    <3>1. stored[Len(stored)] \in Stored
      BY <2>2 DEF TypeInv
    <3> QED  BY <2>2, <3>1 DEF Total, Stored
  <2> QED  BY <2>1, <2>2
<1> QED  BY <1>1, <1>2 DEF NewEntry, Entry, Stored

\* The store is empty and within every bound at first.
LEMMA StoreInitInv == StoreInit => Inv
<1> SUFFICES ASSUME StoreInit PROVE Inv
  OBVIOUS
<1> USE ResourceStoreAssumption DEF StoreInit
<1>1. TypeInv
  BY DEF TypeInv
<1>2. LockInv /\ Chained /\ Suffix /\ Account
  BY DEF LockInv, Chained, Suffix, Account
<1>3. WithinBounds /\ NeverDroppedEarly
  BY DEF WithinBounds, NeverDroppedEarly
<1> QED  BY <1>1, <1>2, <1>3 DEF Inv

\* Stamping an entry touches nothing but the thread's own.
LEMMA StampInv ==
  ASSUME Inv, NEW w \in Writers, NEW size \in Nat, Stamp(w, size)
  PROVE  Inv'
<1>1. TypeInv'
  BY DEF Inv, TypeInv, Stamp, Entry
<1>2. LockInv'
  <2> DEFINE e == [token |-> tokens + 1, size |-> size, at |-> clock]
  <2>1. pending' = [pending EXCEPT ![w] = <<e>>] /\ clock \in Nat /\ clock' = clock
    BY DEF Inv, TypeInv, Stamp
  <2>2. e.at <= clock
    BY DEF Inv, TypeInv
  <2> HIDE DEF e
  <2>3. \A v \in Writers : v # w => pending'[v] = pending[v]
    BY <2>1 DEF Inv, TypeInv
  <2>4. pending'[w] = <<e>> /\ pending'[w] # <<>>
    BY <2>1 DEF Inv, TypeInv
  <2> QED  BY <2>1, <2>2, <2>3, <2>4 DEF Inv, TypeInv, LockInv, Stamp
<1>3. UNCHANGED <<RESOURCES, RES_BYTES, RES_DROPPED, RES_LOCK, clock, stored>>
  BY DEF Stamp
<1>4. (Chained /\ Suffix /\ Account /\ WithinBounds /\ NeverDroppedEarly)'
  BY <1>3 DEF Inv, Chained, Suffix, Account, Total, WithinBounds, NeverDroppedEarly
<1> QED  BY <1>1, <1>2, <1>4 DEF Inv

\* What was too heavy with the bytes stored since stays so as more are stored.
LEMMA StillOverBytes ==
  ASSUME NEW total \in Nat, NEW more \in Nat, NEW before \in Nat, NEW bound \in Nat,
         total - before > bound
  PROVE  (total + more) - before > bound
OBVIOUS

\* Entering a resource puts it, and its bytes, behind all the others.
LEMMA InsertInv ==
  ASSUME Inv, NEW w \in Writers, Insert(w)
  PROVE  Inv'
<1> DEFINE e == NewEntry(w)
<1>1. /\ e \in Stored /\ e.before = Total /\ e.size = pending[w][1].size
      /\ e.size \in Nat /\ Total \in Nat
  BY NewEntryType DEF Inv, Insert
<1>2. /\ RES_LOCK' = w /\ RESOURCES' = Append(RESOURCES, e) /\ stored' = Append(stored, e)
      /\ RES_BYTES' = RES_BYTES + e.size
      /\ UNCHANGED <<RES_DROPPED, pending, tokens, clock>>
      /\ pending[w] # <<>> /\ w # "free"
  BY <1>1, ResourceStoreAssumption DEF Insert
<1> HIDE DEF e
<1>3. TypeInv'
  BY <1>1, <1>2, SMTT(20) DEF Inv, TypeInv
<1>4. LockInv'
  BY <1>2 DEF Inv, LockInv
<1>6. /\ Len(stored') = Len(stored) + 1 /\ stored'[Len(stored) + 1] = e
      /\ \A i \in 1..Len(stored) : stored'[i] = stored[i]
      /\ Len(RESOURCES') = Len(RESOURCES) + 1 /\ RESOURCES'[Len(RESOURCES) + 1] = e
      /\ \A i \in 1..Len(RESOURCES) : RESOURCES'[i] = RESOURCES[i]
      /\ Len(stored) \in Nat /\ Len(RESOURCES) \in Nat
  BY <1>1, <1>2, SMTT(20) DEF Inv, TypeInv
<1>5. Total' = Total + e.size
  <2>1. stored' # <<>> /\ Len(stored') = Len(stored) + 1
    BY <1>1, <1>2, <1>6
  <2>2. Total' = stored'[Len(stored')].before + stored'[Len(stored')].size
    BY <2>1 DEF Total
  <2> QED  BY <2>1, <2>2, <1>1, <1>6
<1>7. Chained'
  <2> SUFFICES ASSUME NEW i \in 1..(Len(stored') - 1)
               PROVE  stored'[i + 1].before = stored'[i].before + stored'[i].size
    BY DEF Chained
  <2>1. CASE i < Len(stored)
    BY <2>1, <1>6 DEF Inv, Chained
  <2>2. CASE i = Len(stored)
    BY <2>2, <1>1, <1>6 DEF Total
  <2> QED  BY <2>1, <2>2, <1>6
<1>8. Suffix'
  <2>1. RES_DROPPED' = RES_DROPPED /\ RES_DROPPED \in Nat
        /\ Len(stored) = RES_DROPPED + Len(RESOURCES)
    BY <1>2 DEF Inv, TypeInv, Suffix
  <2>2. \A i \in 1..Len(RESOURCES) : RESOURCES'[i] = stored'[RES_DROPPED + i]
    BY <2>1, <1>6 DEF Inv, Suffix
  <2>3. RESOURCES'[Len(RESOURCES) + 1] = stored'[RES_DROPPED + (Len(RESOURCES) + 1)]
    BY <2>1, <1>6
  <2>4. \A i \in 1..(Len(RESOURCES) + 1) : i \in 1..Len(RESOURCES) \/ i = Len(RESOURCES) + 1
    BY <1>6
  <2>5. \A i \in 1..(Len(RESOURCES) + 1) : RESOURCES'[i] = stored'[RES_DROPPED + i]
    BY <2>2, <2>3, <2>4
  <2> QED  BY <2>1, <2>5, <1>6 DEF Suffix
<1>9. Account'
  <2>1. CASE RESOURCES = <<>>
    BY <2>1, <1>1, <1>2, <1>5, <1>6 DEF Inv, Account
  <2>2. CASE RESOURCES # <<>>
    <3>1. RESOURCES[1] \in Stored /\ 1 \in 1..Len(RESOURCES)
      BY <2>2 DEF Inv, TypeInv
    <3>2. RESOURCES'[1] = RESOURCES[1] /\ RESOURCES[1].before \in Nat
      BY <3>1, <1>6 DEF Stored
    <3>3. RESOURCES' # <<>>
      BY <1>1, <1>2, <1>6
    <3>4. RES_BYTES = Total - RESOURCES[1].before
      BY <2>2 DEF Inv, Account
    <3>5. RES_BYTES' = RES_BYTES + e.size /\ e.size \in Nat /\ Total \in Nat
      BY <1>1, <1>2
    <3>6. RES_BYTES' = Total' - RESOURCES'[1].before
      BY <3>2, <3>4, <3>5, <1>5
    <3> QED  BY <3>3, <3>6 DEF Account
  <2> QED  BY <2>1, <2>2
<1>10. WithinBounds'
  BY <1>2 DEF WithinBounds
<1>11. NeverDroppedEarly'
  <2> SUFFICES ASSUME NEW i \in 1..RES_DROPPED
               PROVE  \/ clock - stored'[i].at > MaxAge
                      \/ Len(stored') - i >= MaxItems
                      \/ Total' - stored'[i].before > MaxBytes
    BY <1>2 DEF NeverDroppedEarly
  <2>1. i \in 1..Len(stored) /\ stored'[i] = stored[i] /\ stored[i] \in Stored
    BY <1>6 DEF Inv, TypeInv, Suffix
  <2>2. \/ clock - stored[i].at > MaxAge
        \/ Len(stored) - i >= MaxItems
        \/ Total - stored[i].before > MaxBytes
    BY DEF Inv, NeverDroppedEarly
  <2>3. /\ stored[i].before \in Nat /\ stored[i].at \in Nat
        /\ clock \in Nat /\ RES_DROPPED \in Nat
    BY <2>1 DEF Inv, TypeInv, Stored
  <2>4. /\ Total \in Nat /\ e.size \in Nat /\ Total' = Total + e.size
        /\ Len(stored) \in Nat /\ Len(stored') = Len(stored) + 1
        /\ {MaxAge, MaxItems, MaxBytes} \subseteq Nat
    BY <1>1, <1>5, <1>6, ResourceStoreAssumption
  <2>5. CASE clock - stored[i].at > MaxAge
    BY <2>5, <2>1
  <2>6. CASE Len(stored) - i >= MaxItems
    BY <2>6, <2>3, <2>4
  <2>7. CASE Total - stored[i].before > MaxBytes
    <3>1. MaxBytes \in Nat /\ e.size \in Nat /\ Total \in Nat /\ stored[i].before \in Nat
      BY <2>3, <2>4
    <3>2. (Total + e.size) - stored[i].before > MaxBytes
      BY <3>1, <2>7, StillOverBytes
    <3> QED  BY <3>2, <2>1, <2>4
  <2> QED  BY <2>2, <2>5, <2>6, <2>7
<1> QED  BY <1>3, <1>4, <1>7, <1>8, <1>9, <1>10, <1>11 DEF Inv

\* An eviction takes the oldest entry, and one that exceeds a bound.
LEMMA EvictInv ==
  ASSUME Inv, NEW w \in Writers, Evict(w)
  PROVE  Inv'
<1>1. /\ RES_LOCK = w /\ w # "free" /\ RESOURCES # <<>>
      /\ RESOURCES' = Tail(RESOURCES) /\ RES_BYTES' = RES_BYTES - RESOURCES[1].size
      /\ RES_DROPPED' = RES_DROPPED + 1
      /\ UNCHANGED <<RES_LOCK, pending, tokens, clock, stored>>
  BY ResourceStoreAssumption DEF Evict, OverBounds
<1>2. /\ RESOURCES[1] \in Stored /\ RESOURCES[1].size \in Nat /\ RESOURCES[1].before \in Nat
      /\ Len(RESOURCES) \in Nat /\ Len(RESOURCES) >= 1 /\ RES_DROPPED \in Nat
  <2>1. Len(RESOURCES) \in Nat /\ Len(RESOURCES) >= 1 /\ RES_DROPPED \in Nat
    BY <1>1 DEF Inv, TypeInv
  <2>2. RESOURCES[1] \in Stored
    BY <2>1 DEF Inv, TypeInv
  <2> QED  BY <2>1, <2>2 DEF Stored
<1>3. /\ Len(RESOURCES') = Len(RESOURCES) - 1
      /\ \A i \in 1..Len(RESOURCES') : RESOURCES'[i] = RESOURCES[i + 1]
  BY <1>1, <1>2 DEF Inv, TypeInv
<1>4. RESOURCES[1] = stored[RES_DROPPED + 1]
  BY <1>2 DEF Inv, Suffix
<1>5. TypeInv'
  BY <1>1, <1>2 DEF Inv, TypeInv
<1>6. LockInv' /\ Chained' /\ WithinBounds'
  BY <1>1 DEF Inv, LockInv, Chained, WithinBounds
<1>7. Suffix'
  <2>0. Len(RESOURCES) \in Nat /\ RES_DROPPED \in Nat
    BY <1>2
  <2>1. Len(stored') = RES_DROPPED' + Len(RESOURCES')
    BY <2>0, <1>1, <1>3 DEF Inv, Suffix
  <2> SUFFICES ASSUME NEW i \in 1..Len(RESOURCES')
               PROVE  RESOURCES'[i] = stored'[RES_DROPPED' + i]
    BY <2>1 DEF Suffix
  <2>2. i + 1 \in 1..Len(RESOURCES) /\ RESOURCES'[i] = RESOURCES[i + 1]
    BY <1>2, <1>3
  <2>3. RESOURCES[i + 1] = stored[RES_DROPPED + (i + 1)]
    BY <2>2 DEF Inv, Suffix
  <2>4. RES_DROPPED + (i + 1) = RES_DROPPED' + i
    BY <1>1, <1>2
  <2> QED  BY <2>2, <2>3, <2>4, <1>1
<1>8. Total' = Total /\ Total \in Nat
  <2>1. stored # <<>> /\ stored[Len(stored)] \in Stored
    BY <1>2 DEF Inv, TypeInv, Suffix
  <2> QED  BY <1>1, <2>1 DEF Total, Stored
<1>9. Account'
  <2>1. CASE Len(RESOURCES) = 1
    <3>1. RESOURCES' = <<>> /\ Len(stored) = RES_DROPPED + 1 /\ stored # <<>>
      BY <2>1, <1>1, <1>2, <1>3, SMTT(20) DEF Inv, TypeInv, Suffix
    <3>2. Total = RESOURCES[1].before + RESOURCES[1].size
      BY <3>1, <1>4 DEF Total
    <3> QED  BY <3>1, <3>2, <1>1, <1>2 DEF Inv, Account
  <2>2. CASE Len(RESOURCES) > 1
    <3>1. RESOURCES'[1] = RESOURCES[2] /\ RESOURCES' # <<>>
      BY <2>2, <1>2, <1>3 DEF Inv, TypeInv
    <3>2. RESOURCES[2] = stored[RES_DROPPED + 2] /\ RES_DROPPED + 1 \in 1..(Len(stored) - 1)
      BY <2>2, <1>2 DEF Inv, Suffix
    <3>3. RESOURCES[2].before = RESOURCES[1].before + RESOURCES[1].size
      BY <3>2, <1>2, <1>4 DEF Inv, Chained
    <3>4. RES_BYTES = Total - RESOURCES[1].before
      BY <1>1 DEF Inv, Account
    <3>5. RES_BYTES' = Total - (RESOURCES[1].before + RESOURCES[1].size)
      BY <3>4, <1>1, <1>2, <1>8
    <3>6. RES_BYTES' = Total' - RESOURCES'[1].before
      BY <3>1, <3>3, <3>5, <1>8
    <3> QED  BY <3>1, <3>6 DEF Account
  <2>3. Len(RESOURCES) \in Nat /\ Len(RESOURCES) >= 1
    BY <1>2
  <2>4. Len(RESOURCES) = 1 \/ Len(RESOURCES) > 1
    <3>1. \A n \in Nat : n >= 1 => n = 1 \/ n > 1
      OBVIOUS
    <3> QED  BY <3>1, <2>3, Zenon
  <2> QED  BY <2>1, <2>2, <2>4
<1>10. NeverDroppedEarly'
  <2> SUFFICES ASSUME NEW i \in 1..(RES_DROPPED + 1)
               PROVE  \/ clock - stored[i].at > MaxAge
                      \/ Len(stored) - i >= MaxItems
                      \/ Total - stored[i].before > MaxBytes
    BY <1>1, <1>8 DEF NeverDroppedEarly
  <2>1. CASE i <= RES_DROPPED
    BY <2>1, <1>2 DEF Inv, NeverDroppedEarly
  <2>2. CASE i = RES_DROPPED + 1
    <3>1. \/ pending[w][1].at - RESOURCES[1].at > MaxAge
          \/ Len(RESOURCES) > MaxItems
          \/ RES_BYTES > MaxBytes
      BY DEF Evict, OverBounds
    <3>2. pending[w][1].at <= clock /\ pending[w][1].at \in Nat /\ clock \in Nat
          /\ RESOURCES[1].at \in Nat
      <4>1. pending[w] # <<>> /\ pending[w] \in Seq(Entry) /\ clock \in Nat
        BY <1>1 DEF Inv, TypeInv, LockInv
      <4>2. pending[w][1] \in Entry
        BY <4>1
      <4> QED  BY <4>1, <4>2, <1>2 DEF Inv, LockInv, Entry, Stored
    <3>3. RES_BYTES = Total - RESOURCES[1].before
      BY <1>1 DEF Inv, Account
    <3>4. Len(stored) - i = Len(RESOURCES) - 1
      BY <2>2, <1>2 DEF Inv, Suffix
    <3>5. stored[i] = RESOURCES[1] /\ Len(RESOURCES) \in Nat /\ {MaxAge, MaxItems, MaxBytes} \subseteq Nat
      BY <2>2, <1>2, <1>4, ResourceStoreAssumption
    <3>6. CASE pending[w][1].at - RESOURCES[1].at > MaxAge
      BY <3>6, <3>2, <3>5, SMTT(20)
    <3>7. CASE Len(RESOURCES) > MaxItems
      BY <3>7, <3>4, <3>5
    <3>8. CASE RES_BYTES > MaxBytes
      BY <3>8, <3>3, <3>5
    <3> QED  BY <3>1, <3>6, <3>7, <3>8
  <2> QED  BY <2>1, <2>2, <1>2
<1> QED  BY <1>5, <1>6, <1>7, <1>9, <1>10 DEF Inv

\* The lock is given back only within the bounds.
LEMMA ReleaseInv ==
  ASSUME Inv, NEW w \in Writers, Release(w)
  PROVE  Inv'
<1>1. /\ RES_LOCK' = "free" /\ ~OverBounds(pending[w][1].at)
      /\ pending' = [pending EXCEPT ![w] = <<>>]
      /\ UNCHANGED <<RESOURCES, RES_BYTES, RES_DROPPED, tokens, clock, stored>>
  BY DEF Release
<1>2. TypeInv' /\ LockInv'
  BY <1>1 DEF Inv, TypeInv, LockInv
<1>3. (Chained /\ Suffix /\ Account /\ NeverDroppedEarly)'
  BY <1>1 DEF Inv, Chained, Suffix, Account, Total, NeverDroppedEarly
<1>4. WithinBounds'
  <2>1. CASE RESOURCES = <<>>
    BY <2>1, <1>1, ResourceStoreAssumption DEF Inv, Account, WithinBounds
  <2>2. CASE RESOURCES # <<>>
    BY <2>2, <1>1, ResourceStoreAssumption DEF Inv, TypeInv, OverBounds, WithinBounds
  <2> QED  BY <2>1, <2>2
<1> QED  BY <1>2, <1>3, <1>4 DEF Inv

\* Time makes entries older, never younger.
LEMMA TickInv == ASSUME Inv, Tick PROVE Inv'
<1>1. /\ clock' = clock + 1 /\ clock \in Nat
      /\ UNCHANGED <<RESOURCES, RES_BYTES, RES_DROPPED, RES_LOCK, pending, tokens, stored>>
  BY DEF Inv, TypeInv, Tick
<1>2. TypeInv' /\ (Chained /\ Suffix /\ Account /\ WithinBounds)'
  BY <1>1 DEF Inv, TypeInv, Chained, Suffix, Account, Total, WithinBounds
<1>3. LockInv'
  <2> SUFFICES ASSUME NEW w \in Writers, pending[w] # <<>>
               PROVE  pending[w][1].at <= clock + 1
    BY <1>1 DEF Inv, LockInv
  <2>1. pending[w] \in Seq(Entry) /\ pending[w][1].at <= clock
    BY DEF Inv, TypeInv, LockInv
  <2>2. pending[w][1] \in Entry
    BY <2>1
  <2> QED  BY <1>1, <2>1, <2>2 DEF Entry
<1>4. NeverDroppedEarly'
  <2>1. Total' = Total
    BY <1>1 DEF Total
  <2> SUFFICES ASSUME NEW i \in 1..RES_DROPPED'
               PROVE  \/ clock' - stored'[i].at > MaxAge
                      \/ Len(stored') - i >= MaxItems
                      \/ Total' - stored'[i].before > MaxBytes
    BY DEF NeverDroppedEarly
  <2>2. /\ stored' = stored /\ RES_DROPPED' = RES_DROPPED
        /\ i \in 1..RES_DROPPED /\ clock' = clock + 1
    BY <1>1
  <2>3. \/ clock - stored[i].at > MaxAge
        \/ Len(stored) - i >= MaxItems
        \/ Total - stored[i].before > MaxBytes
    BY <2>2 DEF Inv, NeverDroppedEarly
  <2>4. CASE clock - stored[i].at > MaxAge
    <3>1. Len(RESOURCES) \in Nat /\ RES_DROPPED \in Nat /\ i \in 1..Len(stored)
      BY <2>2 DEF Inv, TypeInv, Suffix
    <3>2. stored[i] \in Stored
      BY <3>1 DEF Inv, TypeInv
    <3> QED  BY <2>2, <2>4, <3>2, <1>1, ResourceStoreAssumption, SMTT(20) DEF Stored
  <2> QED  BY <2>1, <2>2, <2>3, <2>4
<1> QED  BY <1>2, <1>3, <1>4 DEF Inv

\* The inductive invariant of the store, from the steps of its threads.
THEOREM StoreInvariant == StoreSpec => []Inv
<1>1. StoreInit => Inv
  BY StoreInitInv
<1>2. Inv /\ [StoreNext]_storeVars => Inv'
  <2> SUFFICES ASSUME Inv, [StoreNext]_storeVars PROVE Inv'
    OBVIOUS
  <2>1. ASSUME NEW w \in Writers, NEW size \in Nat, Stamp(w, size) PROVE Inv'
    BY <2>1, StampInv
  <2>2. ASSUME NEW w \in Writers, Insert(w) \/ Evict(w) \/ Release(w) PROVE Inv'
    BY <2>2, InsertInv, EvictInv, ReleaseInv
  <2>3. CASE Tick
    BY <2>3, TickInv
  <2>4. CASE UNCHANGED storeVars
    BY <2>4 DEF storeVars, Inv, TypeInv, LockInv, Chained, Suffix, Account, Total,
                WithinBounds, NeverDroppedEarly
  <2> QED  BY <2>1, <2>2, <2>3, <2>4 DEF StoreNext
<1> QED  BY <1>1, <1>2, PTL DEF StoreSpec

\* The bounds of store_resource hold whenever no thread is storing.
THEOREM StoreWithinBounds == StoreSpec => []WithinBounds
<1>1. Inv => WithinBounds
  BY DEF Inv
<1> QED  BY <1>1, StoreInvariant, PTL

\* What is dropped was older than RES_MAX_AGE, had RES_MAX_ITEMS newer ones behind
\* it, or weighed more than RES_MAX_BYTES together with them.
THEOREM StoreNeverDropsEarly == StoreSpec => []NeverDroppedEarly
<1>1. Inv => NeverDroppedEarly
  BY DEF Inv
<1> QED  BY <1>1, StoreInvariant, PTL

\* The store holds the newest entries, and RES_BYTES is their weight.
THEOREM StoreKeepsTheNewest == StoreSpec => []KeepsTheNewest
<1>1. Inv => KeepsTheNewest
  <2> SUFFICES ASSUME Inv PROVE KeepsTheNewest
    OBVIOUS
  <2>1. DOMAIN RESOURCES = 1..Len(RESOURCES)
    BY DEF Inv, TypeInv
  <2> QED  BY <2>1 DEF Inv, Suffix, Account, KeepsTheNewest
<1> QED  BY <1>1, StoreInvariant, PTL
-----------------------------------------------------------------------------
(* The recordings.                                                         *)

Filters == {"pitch", "encode", "resample8", "resample16", "fade"}
Formats == {"none", "raw", "mp3", "wav22", "wav8"}
Faults == {"disk", "ffmpeg", "offline", "unheard", "agent", "espeak"}

\* The steps a thread may still have to take.
StepSet ==
  {<<"bunny">>, <<"transcribe">>, <<"whisper">>, <<"ask">>, <<"tags">>, <<"synth">>,
   <<"keep">>, <<"play">>}
  \cup ({"filter"} \X Filters) \cup ({"run"} \X Nat \X Filters)
  \cup ({"unlink", "write", "espeak"} \X Nat)
  \cup ({"store"} \X Nat) \cup ({"push"} \X Nat \X Nat)

VoiceTypes ==
  /\ todo \in [Writers -> Seq(StepSet)]
  /\ text \in [Voices -> {"nothing", "words", "tags"}]
  /\ audio \in [Voices -> Formats] /\ steps \in [Voices -> Seq(Formats)]
  /\ temps \in [Voices -> SUBSET Nat] /\ \A v \in Voices : IsFiniteSet(temps[v])
  /\ segments \in [Voices -> Nat]
  /\ why \in [Voices -> SUBSET Faults] /\ spoken \in [Voices -> Seq(Formats)]
-----------------------------------------------------------------------------
(* A recording, by the steps s it still has to take.                       *)

\* What decides about all the rest comes last, and a phrase once begun is only
\* synthesized and played.  Who is heard is answered.
Deciding == {"bunny", "transcribe", "write", "ask", "tags", "play"}
Ordered(s) ==
  \A i \in 1..Len(s) :
    /\ s[i][1] \in Deciding => i = Len(s)
    /\ s[i][1] \in {"synth", "espeak"} => \A j \in (i + 1)..Len(s) : s[j][1] \in {"synth", "play"}
    /\ s[i][1] = "whisper" => s[Len(s)][1] = "ask"

\* Some step that is still to come removes the file f.
Owes(step, f) == step[1] \in {"run", "unlink", "write", "espeak"} /\ step[2] = f
Owed(s, files, w) ==
  "disk" \in w \/ \A f \in files : \E i \in 1..Len(s) : Owes(s[i], f)

\* A sound is on its way, from its segment or its sound file.
Voiced(step) ==
  \/ step[1] \in {"synth", "espeak", "keep"}
  \/ step[1] = "store" /\ step[2] = Sound
  \/ step[1] = "push" /\ step[3] = Sound

\* Unless something fatal happened something will be said, or has been.
Fatal(w) == w \cap {"offline", "unheard", "espeak", "disk"} # {}
Promises(step, heard) ==
  \/ Voiced(step)
  \/ step[1] \in {"bunny", "transcribe", "write", "whisper"}
  \/ step[1] \in {"ask", "tags"} /\ heard # "nothing"
Settled(heard, parts, said, w) == Fatal(w) \/ heard = "tags" \/ parts # <<>> \/ said # <<>>
Audible(s, heard, parts, said, w) ==
  Settled(heard, parts, said, w) \/ \E i \in 1..Len(s) : Promises(s[i], heard)

\* Of a phrase of n segments, m - 1 steps prepare the one that is in hand, if m is
\* not 0; the others are spoken, ready, or still to be synthesized.
Prepares(step) == step[1] \in {"filter", "run", "unlink"}
Delivers(step) == Voiced(step) /\ step[1] # "synth"
Phrase(s, parts, n, said, m) ==
  /\ m \in 0..(Len(s) - 1) /\ s # <<>> /\ s[Len(s)][1] = "play"
  /\ \A i \in (m + 1)..(Len(s) - 1) : s[i][1] = "synth"
  /\ \A i \in 1..(m - 1) : Prepares(s[i])
  /\ m # 0 => Delivers(s[m])
  /\ m # 0 /\ s[m][1] \in {"store", "push"} => Len(s) = m + 1
  /\ Len(said) + Len(parts) + (Len(s) - m) = IF m = 0 THEN n + 1 ELSE n
  /\ m # 0 /\ s[m][1] \in {"espeak", "keep"} => said = <<>>
  /\ Len(s) - 1 > m => said = <<>>

\* Before a phrase, or after one that is given up.
Listens(step) == step[1] \in {"bunny", "transcribe", "write", "whisper", "ask", "tags"}
Quiet(s, parts, said) ==
  /\ said = <<>>
  /\ \A i \in 1..Len(s) : ~Voiced(s[i]) /\ s[i][1] # "play"
  /\ (\E i \in 1..Len(s) : Listens(s[i])) => parts = <<>>

Whole(s, parts, n, said) ==
  \/ \E m \in 0..Len(s) : Phrase(s, parts, n, said, m)
  \/ Quiet(s, parts, said)
  \/ s = <<>> /\ Len(said) = n

\* What becomes of a segment is playable, or still goes through a filter that
\* makes it so.
Playable == {"mp3", "wav8"}
Converts(step) == \/ step[1] = "filter" /\ step[2] \in {"encode", "resample8"}
                  \/ step[1] = "run" /\ step[3] \in {"encode", "resample8"}
Decodable(s, a, parts, said, w) ==
  \/ w \cap {"ffmpeg", "disk"} # {}
  \/ /\ \A i \in 1..Len(said) : said[i] \in Playable
     /\ \A i \in 1..Len(parts) : parts[i] \in Playable
     /\ \A i \in 1..Len(s) :
          Delivers(s[i]) /\ s[i][1] # "espeak" =>
            a \in Playable \/ \E j \in 1..(i - 1) : Converts(s[j])

\* The segments that are ready are for a play that is still to come.
Kept(s, parts, w) == parts # <<>> => Fatal(w) \/ (s # <<>> /\ s[Len(s)][1] = "play")

Recording(s, heard, a, parts, n, said, files, w) ==
  /\ Ordered(s)
  /\ Kept(s, parts, w)
  /\ Owed(s, files, w)
  /\ Audible(s, heard, parts, said, w)
  /\ Whole(s, parts, n, said)
  /\ Decodable(s, a, parts, said, w)

RecordingInv(v) ==
  Recording(todo[v], text[v], audio[v], steps[v], segments[v], spoken[v], temps[v], why[v])

VoiceInv == VoiceTypes /\ \A v \in Voices : RecordingInv(v)
-----------------------------------------------------------------------------
(* The store, and the tokens that name what is in it. *)
Tokens(n) == {stored[i].token : i \in 1..n}
Named ==
  /\ RES_LOCK # "free" => pending[RES_LOCK][1].token \in Tokens(Len(stored))
  /\ \A t \in Writers : \A i \in 1..Len(todo[t]) :
       todo[t][i][1] = "push" => todo[t][i][2] \in Tokens(Len(stored))
  /\ programs \subseteq Tokens(Len(stored))
  /\ missed \subseteq Tokens(RES_DROPPED)

PipelineInv == Inv /\ VoiceInv /\ Named
-----------------------------------------------------------------------------
(* The steps x take the place of the first step of s. *)
LEMMA ThenSeq ==
  ASSUME NEW S, NEW s \in Seq(S), s # <<>>, NEW x \in Seq(S)
  PROVE  /\ x \o Tail(s) \in Seq(S)
         /\ Len(s) \in Nat \ {0} /\ Len(x) \in Nat
         /\ Len(x \o Tail(s)) = Len(x) + Len(s) - 1
         /\ \A i \in 1..Len(x) : (x \o Tail(s))[i] = x[i]
         /\ \A i \in 2..Len(s) : (x \o Tail(s))[Len(x) + i - 1] = s[i]
         /\ \A j \in 1..Len(x \o Tail(s)) :
              \/ j \in 1..Len(x)
              \/ \E i \in 2..Len(s) : j = Len(x) + i - 1
<1>1. /\ Tail(s) \in Seq(S) /\ Len(Tail(s)) = Len(s) - 1 /\ Len(s) \in Nat /\ Len(x) \in Nat
      /\ \A i \in 1..(Len(s) - 1) : Tail(s)[i] = s[i + 1]
  OBVIOUS
<1>2. Len(x \o Tail(s)) = Len(x) + Len(s) - 1
  BY <1>1
<1>3. \A i \in 2..Len(s) : (x \o Tail(s))[Len(x) + i - 1] = s[i]
  <2> SUFFICES ASSUME NEW i \in 2..Len(s)
               PROVE  (x \o Tail(s))[Len(x) + i - 1] = s[i]
    OBVIOUS
  <2>1. i - 1 \in 1..Len(Tail(s)) /\ Tail(s)[i - 1] = s[i]
    BY <1>1
  <2> QED  BY <2>1, <1>1
<1>4. \A j \in 1..Len(x \o Tail(s)) :
        j \in 1..Len(x) \/ \E i \in 2..Len(s) : j = Len(x) + i - 1
  <2> SUFFICES ASSUME NEW j \in 1..Len(x \o Tail(s)), j \notin 1..Len(x)
               PROVE  \E i \in 2..Len(s) : j = Len(x) + i - 1
    OBVIOUS
  <2> WITNESS j - Len(x) + 1 \in 2..Len(s)
  <2> QED  BY <1>1, <1>2
<1>5. Len(s) \in Nat \ {0}
  BY EmptySeq, <1>1
<1> QED  BY <1>1, <1>2, <1>3, <1>4, <1>5

\* What follows the last step is all that is left.
LEMMA LastStep ==
  ASSUME NEW S, NEW s \in Seq(S), Len(s) = 1, NEW x \in Seq(S)
  PROVE  Tail(s) = <<>> /\ x \o Tail(s) = x
<1>1. s # <<>>
  BY EmptySeq
<1>2. Tail(s) \in Seq(S) /\ Len(Tail(s)) = 0
  BY <1>1, HeadTailProperties
<1>3. Tail(s) = <<>>
  BY <1>2, EmptySeq
<1> QED  BY <1>3, ConcatEmptySeq

\* One more at the end.
LEMMA AppendFacts ==
  ASSUME NEW S, NEW s \in Seq(S), NEW e \in S
  PROVE  /\ Append(s, e) \in Seq(S) /\ Append(s, e) # <<>>
         /\ Len(Append(s, e)) = Len(s) + 1 /\ Len(s) \in Nat
         /\ \A i \in 1..Len(Append(s, e)) : (i \in 1..Len(s) /\ Append(s, e)[i] = s[i]) \/ Append(s, e)[i] = e
OBVIOUS

\* Where there is a second element there is more than one.
LEMMA NotOne ==
  ASSUME NEW n \in Nat, NEW k \in 2..n
  PROVE  n # 1
OBVIOUS

\* The order is kept by steps that are in order themselves, decide only where all
\* the rest has been taken, and synthesize only where a synthesis was to come.
LEMMA OrderedThen ==
  ASSUME NEW s \in Seq(StepSet), s # <<>>, NEW x \in Seq(StepSet), Ordered(s), Ordered(x),
         (\E i \in 1..Len(x) : x[i][1] \in Deciding) => Len(s) = 1,
         (\E i \in 1..Len(x) : x[i][1] \in {"synth", "espeak"}) =>
            Len(s) = 1 \/ s[1][1] \in {"synth", "espeak"}
  PROVE  Ordered(x \o Tail(s))
<1> DEFINE r == x \o Tail(s)
<1>1. /\ Len(r) = Len(x) + Len(s) - 1
      /\ \A i \in 1..Len(x) : r[i] = x[i]
      /\ \A i \in 2..Len(s) : r[Len(x) + i - 1] = s[i]
      /\ \A j \in 1..Len(r) : j \in 1..Len(x) \/ \E i \in 2..Len(s) : j = Len(x) + i - 1
      /\ Len(s) \in Nat \ {0} /\ Len(x) \in Nat
  <2>1. /\ Len(r) = Len(x) + Len(s) - 1
        /\ Len(s) \in Nat \ {0} /\ Len(x) \in Nat
    BY ONLY ThenSeq, s \in Seq(StepSet), s # <<>>, x \in Seq(StepSet)
  <2>2. \A i \in 1..Len(x) : r[i] = x[i]
    BY ONLY ThenSeq, s \in Seq(StepSet), s # <<>>, x \in Seq(StepSet)
  <2>3. \A i \in 2..Len(s) : r[Len(x) + i - 1] = s[i]
    BY ONLY ThenSeq, s \in Seq(StepSet), s # <<>>, x \in Seq(StepSet)
  <2>4. \A j \in 1..Len(r) : j \in 1..Len(x) \/ \E i \in 2..Len(s) : j = Len(x) + i - 1
    BY ONLY ThenSeq, s \in Seq(StepSet), s # <<>>, x \in Seq(StepSet)
  <2> QED  BY <2>1, <2>2, <2>3, <2>4
<1> HIDE DEF r
<1> SUFFICES ASSUME NEW i \in 1..Len(r)
             PROVE  /\ r[i][1] \in Deciding => i = Len(r)
                    /\ r[i][1] \in {"synth", "espeak"} =>
                         \A j \in (i + 1)..Len(r) : r[j][1] \in {"synth", "play"}
                    /\ r[i][1] = "whisper" => r[Len(r)][1] = "ask"
  BY DEF Ordered, r
<1>2. CASE i \in 1..Len(x)
  <2>1. r[i] = x[i]
    BY <1>1, <1>2
  <2>2. r[i][1] \in Deciding => i = Len(r)
    <3> SUFFICES ASSUME x[i][1] \in Deciding PROVE i = Len(r)
      BY <2>1
    <3>1. Len(s) = 1 /\ i = Len(x)
      BY <1>2 DEF Ordered
    <3> QED  BY <3>1, <1>1
  <2>3. ASSUME r[i][1] \in {"synth", "espeak"}, NEW j \in (i + 1)..Len(r)
        PROVE  r[j][1] \in {"synth", "play"}
    <3>1. CASE j \in 1..Len(x)
      <4>1. j \in (i + 1)..Len(x) /\ r[j] = x[j]
        BY <3>1, <2>3, <1>1, <1>2
      <4> QED  BY <4>1, <2>1, <2>3, <1>2 DEF Ordered
    <3>2. CASE j \notin 1..Len(x)
      <4>1. PICK k \in 2..Len(s) : j = Len(x) + k - 1
        BY <3>2, <2>3, <1>1
      <4>2. s[1][1] \in {"synth", "espeak"}
        <5>1. \E l \in 1..Len(x) : x[l][1] \in {"synth", "espeak"}
          BY <2>3, <2>1, <1>2
        <5>2. Len(s) # 1
          BY <1>1, NotOne, Zenon
        <5> QED  BY <5>1, <5>2
      <4>3. r[j] = s[k]
        BY <4>1, <1>1
      <4>4. 1 \in 1..Len(s) /\ k \in (1 + 1)..Len(s)
        BY <1>1
      <4>5. s[k][1] \in {"synth", "play"}
        BY <4>2, <4>4 DEF Ordered
      <4> QED  BY <4>3, <4>5
    <3> QED  BY <3>1, <3>2
  <2>4. ASSUME r[i][1] = "whisper" PROVE r[Len(r)][1] = "ask"
    <3>1. x[Len(x)][1] = "ask" /\ Len(x) \in 1..Len(x)
      BY <2>1, <2>4, <1>1, <1>2 DEF Ordered
    <3>2. Len(s) = 1
      BY <3>1 DEF Deciding
    <3> QED  BY <3>1, <3>2, <1>1
  <2> QED  BY <2>2, <2>3, <2>4
<1>3. CASE i \notin 1..Len(x)
  <2>1. PICK k \in 2..Len(s) : i = Len(x) + k - 1
    BY <1>1, <1>3
  <2>2. r[i] = s[k] /\ k \in 1..Len(s)
    BY <2>1, <1>1
  <2>3. r[i][1] \in Deciding => i = Len(r)
    BY <2>1, <2>2, <1>1 DEF Ordered
  <2>4. ASSUME r[i][1] \in {"synth", "espeak"}, NEW j \in (i + 1)..Len(r)
        PROVE  r[j][1] \in {"synth", "play"}
    <3>1. j - Len(x) + 1 \in (k + 1)..Len(s) /\ j - Len(x) + 1 \in 2..Len(s)
      BY <2>1, <2>4, <1>1
    <3>2. r[Len(x) + (j - Len(x) + 1) - 1] = s[j - Len(x) + 1]
      BY <3>1, <1>1
    <3>3. Len(x) + (j - Len(x) + 1) - 1 = j
      BY <1>1
    <3> QED  BY <3>1, <3>2, <3>3, <2>2, <2>4 DEF Ordered
  <2>5. ASSUME r[i][1] = "whisper" PROVE r[Len(r)][1] = "ask"
    <3>1. s[Len(s)][1] = "ask"
      BY <2>2, <2>5 DEF Ordered
    <3>2. Len(s) \in 2..Len(s) /\ Len(x) + Len(s) - 1 = Len(r)
      BY <2>1, <1>1
    <3>3. r[Len(x) + Len(s) - 1] = s[Len(s)]
      BY <3>2, <1>1
    <3> QED  BY <3>1, <3>2, <3>3
  <2> QED  BY <2>3, <2>4, <2>5
<1> QED  BY <1>2, <1>3

\* Files stay owed if the steps owe those the first step owed and did not remove,
\* and the new ones.
LEMMA OwedThen ==
  ASSUME NEW s \in Seq(StepSet), s # <<>>, NEW x \in Seq(StepSet),
         NEW files, NEW filesN, NEW w, NEW wN, Owed(s, files, w),
         "disk" \in w => "disk" \in wN,
         \/ "disk" \in wN
         \/ \A f \in filesN : \/ f \in files /\ ~Owes(s[1], f)
                              \/ \E i \in 1..Len(x) : Owes(x[i], f)
  PROVE  Owed(x \o Tail(s), filesN, wN)
<1>1. /\ Len(x \o Tail(s)) = Len(x) + Len(s) - 1
      /\ \A i \in 1..Len(x) : (x \o Tail(s))[i] = x[i]
      /\ \A i \in 2..Len(s) : (x \o Tail(s))[Len(x) + i - 1] = s[i]
      /\ Len(s) \in Nat \ {0} /\ Len(x) \in Nat
  BY ThenSeq
<1> SUFFICES ASSUME "disk" \notin wN, NEW f \in filesN
             PROVE  \E i \in 1..Len(x \o Tail(s)) : Owes((x \o Tail(s))[i], f)
  BY DEF Owed
<1>2. CASE \E i \in 1..Len(x) : Owes(x[i], f)
  <2>1. PICK i \in 1..Len(x) : Owes(x[i], f)
    BY <1>2
  <2>2. i \in 1..Len(x \o Tail(s)) /\ Owes((x \o Tail(s))[i], f)
    BY <2>1, <1>1
  <2> QED  BY <2>2
<1>3. CASE f \in files /\ ~Owes(s[1], f)
  <2>1. PICK i \in 1..Len(s) : Owes(s[i], f)
    BY <1>3 DEF Owed
  <2>2. i \in 2..Len(s)
    BY <2>1, <1>3, <1>1
  <2>3. Len(x) + i - 1 \in 1..Len(x \o Tail(s)) /\ Owes((x \o Tail(s))[Len(x) + i - 1], f)
    BY <2>1, <2>2, <1>1
  <2> QED  BY <2>3
<1> QED  BY <1>2, <1>3

\* Something is still to be said if it was, and what the first step promised is
\* promised by the steps that follow it, or has come true.
LEMMA AudibleThen ==
  ASSUME NEW s \in Seq(StepSet), s # <<>>, NEW x \in Seq(StepSet),
         NEW heard, NEW heardN, NEW parts, NEW partsN, NEW said, NEW saidN, NEW w, NEW wN,
         Audible(s, heard, parts, said, w),
         \/ \E i \in 1..Len(x) : Promises(x[i], heardN)
         \/ \E i \in 2..Len(s) : Promises(s[i], heardN)
         \/ /\ Settled(heard, parts, said, w) => Settled(heardN, partsN, saidN, wN)
            /\ heard # "nothing" => heardN # "nothing"
            /\ Promises(s[1], heard) => Settled(heardN, partsN, saidN, wN)
  PROVE  Audible(x \o Tail(s), heardN, partsN, saidN, wN)
<1>1. /\ Len(x \o Tail(s)) = Len(x) + Len(s) - 1
      /\ \A i \in 1..Len(x) : (x \o Tail(s))[i] = x[i]
      /\ \A i \in 2..Len(s) : (x \o Tail(s))[Len(x) + i - 1] = s[i]
      /\ Len(s) \in Nat \ {0} /\ Len(x) \in Nat
  BY ThenSeq
<1> SUFFICES ASSUME ~Settled(heardN, partsN, saidN, wN)
             PROVE  \E i \in 1..Len(x \o Tail(s)) : Promises((x \o Tail(s))[i], heardN)
  BY DEF Audible
<1>2. CASE \E i \in 1..Len(x) : Promises(x[i], heardN)
  <2>1. PICK j \in 1..Len(x) : Promises(x[j], heardN)
    BY <1>2
  <2>2. j \in 1..Len(x \o Tail(s)) /\ Promises((x \o Tail(s))[j], heardN)
    BY <2>1, <1>1
  <2> QED  BY <2>2
<1>3. CASE ~\E i \in 1..Len(x) : Promises(x[i], heardN)
  <2>1. PICK i \in 2..Len(s) : Promises(s[i], heardN)
    <3> SUFFICES ASSUME ~\E i \in 2..Len(s) : Promises(s[i], heardN)
                 PROVE  \E i \in 2..Len(s) : Promises(s[i], heardN)
      OBVIOUS
    <3>1. PICK i \in 1..Len(s) : Promises(s[i], heard)
      BY <1>3 DEF Audible
    <3>2. CASE i = 1
      BY <3>1, <3>2, <1>3
    <3>3. CASE i # 1
      <4>1. i \in 2..Len(s)
        BY <3>3, <1>1
      <4>2. heard # "nothing" => heardN # "nothing"
        BY <1>3
      <4>3. Promises(s[i], heardN)
        BY <3>1, <4>2 DEF Promises
      <4> QED  BY <4>1, <4>3
    <3> QED  BY <3>2, <3>3
  <2>2. (x \o Tail(s))[Len(x) + i - 1] = s[i]
    BY ONLY <2>1, <1>1
  <2>3. Len(x) + i - 1 \in 1..Len(x \o Tail(s))
    <3>1. Len(x \o Tail(s)) = Len(x) + Len(s) - 1 /\ Len(s) \in Nat \ {0} /\ Len(x) \in Nat
      BY <1>1
    <3> QED  BY ONLY <3>1, <2>1
  <2> QED  BY <2>1, <2>2, <2>3
<1> QED  BY <1>2, <1>3

\* The last step stays the last, unless it is taken.
LEMMA KeptThen ==
  ASSUME NEW s \in Seq(StepSet), s # <<>>, NEW x \in Seq(StepSet), NEW parts, NEW w, NEW wN,
         Kept(s, parts, w), w \subseteq wN, s[1][1] # "play"
  PROVE  Kept(x \o Tail(s), parts, wN)
<1>1. /\ Len(x \o Tail(s)) = Len(x) + Len(s) - 1
      /\ \A i \in 2..Len(s) : (x \o Tail(s))[Len(x) + i - 1] = s[i]
      /\ Len(s) \in Nat \ {0} /\ Len(x) \in Nat
  BY ThenSeq
<1> SUFFICES ASSUME parts # <<>>, ~Fatal(w)
             PROVE  x \o Tail(s) # <<>> /\ (x \o Tail(s))[Len(x \o Tail(s))][1] = "play"
  BY DEF Kept, Fatal
<1>2. s[Len(s)][1] = "play"
  BY DEF Kept
<1>3. Len(s) \in 2..Len(s)
  BY <1>1, <1>2
<1>4. Len(x) + Len(s) - 1 # 0
  BY <1>1, <1>3
<1> QED  BY <1>1, <1>2, <1>3, <1>4

\* What is left once the first of ls steps is taken.
LEMMA MoreThanOne ==
  ASSUME NEW n \in Nat, n >= 1, n # 1 PROVE 1 \in 1..(n - 1)
OBVIOUS

\* The lengths before and after a step that is only taken away.
LEMMA OneLess ==
  ASSUME NEW ls \in Nat, NEW lr \in Nat, lr = ls - 1
  PROVE  /\ ls >= 2 => lr # 0
         /\ lr - 1 > 0 => ls - 1 > 1 /\ ls # 1 + 1
OBVIOUS

\* The numbers of a phrase.
LEMMA PhraseFacts ==
  ASSUME NEW s \in Seq(StepSet), NEW parts \in Seq(Formats), NEW said \in Seq(Formats),
         NEW n \in Nat, NEW m \in Nat, Phrase(s, parts, n, said, m)
  PROVE  /\ Len(s) \in Nat /\ Len(parts) \in Nat /\ Len(said) \in Nat /\ m <= Len(s) - 1
         /\ m # 0 => Len(said) + Len(parts) + (Len(s) - m) = n
         /\ m = 0 => Len(said) + Len(parts) + Len(s) = n + 1
<1>1. Len(s) \in Nat /\ Len(parts) \in Nat /\ Len(said) \in Nat
  OBVIOUS
<1>2. m \in 0..(Len(s) - 1) /\ Len(said) + Len(parts) + (Len(s) - m) = IF m = 0 THEN n + 1 ELSE n
  BY DEF Phrase
<1> QED  BY <1>1, <1>2

\* A segment in hand stays so while it is prepared,
LEMMA PhrasePrepares ==
  ASSUME NEW s \in Seq(StepSet), s # <<>>, NEW x \in Seq(StepSet),
         NEW parts \in Seq(Formats), NEW said \in Seq(Formats), NEW n \in Nat, NEW m \in Nat,
         Phrase(s, parts, n, said, m), m >= 2, \A i \in 1..Len(x) : Prepares(x[i])
  PROVE  Phrase(x \o Tail(s), parts, n, said, Len(x) + m - 1)
<1> DEFINE r == x \o Tail(s)  q == Len(x) + m - 1
<1>1. /\ Len(r) = Len(x) + Len(s) - 1
      /\ \A i \in 1..Len(x) : r[i] = x[i]
      /\ \A i \in 2..Len(s) : r[Len(x) + i - 1] = s[i]
      /\ \A j \in 1..Len(r) : j \in 1..Len(x) \/ \E i \in 2..Len(s) : j = Len(x) + i - 1
      /\ Len(s) \in Nat \ {0} /\ Len(x) \in Nat /\ Len(parts) \in Nat /\ Len(said) \in Nat
      /\ r \in Seq(StepSet)
  BY ThenSeq
<1> HIDE DEF r
<1>2. m \in 2..(Len(s) - 1) /\ q \in 1..(Len(r) - 1) /\ q # 0 /\ Len(r) = q + Len(s) - m /\ r # <<>>
  <2>1. m <= Len(s) - 1
    BY PhraseFacts
  <2> QED  BY <2>1, <1>1
<1>3. r[Len(r)] = s[Len(s)] /\ r[q] = s[m]
  <2>1. Len(r) = Len(x) + Len(s) - 1 /\ Len(s) \in 2..Len(s) /\ m \in 2..Len(s)
    BY <1>1, <1>2
  <2> QED  BY <2>1, <1>1
<1>4. \A i \in (q + 1)..(Len(r) - 1) : r[i][1] = "synth"
  <2> SUFFICES ASSUME NEW i \in (q + 1)..(Len(r) - 1) PROVE r[i][1] = "synth"
    OBVIOUS
  <2>1. i - Len(x) + 1 \in (m + 1)..(Len(s) - 1) /\ i - Len(x) + 1 \in 2..Len(s)
        /\ Len(x) + (i - Len(x) + 1) - 1 = i
    <3>1. /\ Len(r) = Len(x) + Len(s) - 1 /\ Len(s) \in Nat /\ Len(x) \in Nat /\ Len(s) >= 2
          /\ m \in Nat /\ q \in Int /\ i \in (q + 1)..(Len(r) - 1) /\ q + 1 >= Len(x) + m
      BY <1>1, <1>2
    <3>2. i \in Int /\ i >= Len(x) + m /\ i >= Len(x) + 1 /\ i <= Len(x) + Len(s) - 2
      BY <1>1, <3>1
    <3> QED  BY ONLY <3>1, <3>2
  <2>2. r[Len(x) + (i - Len(x) + 1) - 1] = s[i - Len(x) + 1]
    BY <2>1, <1>1
  <2>3. s[i - Len(x) + 1][1] = "synth"
    BY <2>1 DEF Phrase
  <2> QED  BY <2>1, <2>2, <2>3
<1>5. \A i \in 1..(q - 1) : Prepares(r[i])
  <2> SUFFICES ASSUME NEW i \in 1..(q - 1) PROVE Prepares(r[i])
    OBVIOUS
  <2>1. CASE i \in 1..Len(x)
    BY <2>1, <1>1
  <2>2. CASE i \notin 1..Len(x)
    <3>0. i \in 1..Len(r)
      BY <1>1, <1>2
    <3>1. PICK k \in 2..Len(s) : i = Len(x) + k - 1
      BY <2>2, <3>0, <1>1
    <3>2. k \in 1..(m - 1) /\ r[i] = s[k]
      BY <3>1, <1>1, <1>2
    <3> QED  BY <3>2 DEF Phrase
  <2> QED  BY <2>1, <2>2
<1>6. Len(r) - q = Len(s) - m /\ Len(said) + Len(parts) + (Len(s) - m) = n
  <2>1. Len(said) + Len(parts) + (Len(s) - m) = n /\ Len(s) \in Nat
    BY PhraseFacts
  <2>2. Len(r) = q + Len(s) - m /\ q \in Int /\ m \in Int
    BY <1>1, <1>2
  <2> HIDE DEF q
  <2>3. Len(r) - q = Len(s) - m
    BY ONLY <2>2, Len(s) \in Nat, <2>1
  <2> QED  BY <2>1, <2>3
<1>7. /\ s[Len(s)][1] = "play" /\ Delivers(s[m])
      /\ s[m][1] \in {"store", "push"} => Len(s) = m + 1
      /\ s[m][1] \in {"espeak", "keep"} => said = <<>>
      /\ Len(s) - 1 > m => said = <<>>
  <2>1. m # 0
    OBVIOUS
  <2> QED  BY <2>1 DEF Phrase
<1>8. /\ r[q][1] \in {"store", "push"} => Len(r) = q + 1
      /\ Len(r) - 1 > q => said = <<>>
  <2>1. r[q][1] = s[m][1]
    BY <1>3
  <2>2. Len(s) = m + 1 => Len(r) = q + 1
    BY <1>2, <1>1
  <2>3. Len(r) - 1 > q => Len(s) - 1 > m
    BY <1>2, <1>1
  <2> QED  BY <2>1, <2>2, <2>3, <1>7
<1> HIDE DEF q
<1>9. q \in 0..(Len(r) - 1) /\ q # 0
  BY <1>2
<1>10. Phrase(r, parts, n, said, q)
  BY <1>2, <1>9, <1>3, <1>4, <1>5, <1>6, <1>7, <1>8 DEF Phrase
<1> QED  BY <1>10 DEF r, q

\* the next one is taken in hand, or its preparation goes over to the next program,
LEMMA PhraseHands ==
  ASSUME NEW s \in Seq(StepSet), s # <<>>, NEW x \in Seq(StepSet),
         NEW parts \in Seq(Formats), NEW said \in Seq(Formats), NEW n \in Nat, NEW m \in Nat,
         Phrase(s, parts, n, said, m), m = 1 \/ (m = 0 /\ s[1][1] = "synth"),
         x # <<>>, \A i \in 1..(Len(x) - 1) : Prepares(x[i]), Delivers(x[Len(x)]),
         x[Len(x)][1] \in {"store", "push"} => Len(s) = 2 /\ m = 1,
         x[Len(x)][1] \in {"espeak", "keep"} => s[1][1] \in {"synth", "espeak"}
  PROVE  Phrase(x \o Tail(s), parts, n, said, Len(x))
<1> DEFINE r == x \o Tail(s)  q == Len(x)
<1>0. Len(x) # 0
  OBVIOUS
<1>1. /\ Len(r) = Len(x) + Len(s) - 1
      /\ \A i \in 1..Len(x) : r[i] = x[i]
      /\ \A i \in 2..Len(s) : r[Len(x) + i - 1] = s[i]
      /\ Len(s) \in Nat \ {0} /\ Len(x) \in Nat \ {0} /\ Len(parts) \in Nat /\ Len(said) \in Nat
      /\ r \in Seq(StepSet)
  BY <1>0, ThenSeq
<1> HIDE DEF r
<1>2. Len(s) >= 2 /\ s[Len(s)][1] = "play"
  <2>1. s[1][1] = "synth" => Len(s) # 1
    BY DEF Phrase
  <2> QED  BY <2>1, <1>1 DEF Phrase
<1>3. q \in 1..(Len(r) - 1) /\ q # 0 /\ r # <<>> /\ r[Len(r)] = s[Len(s)] /\ r[q] = x[Len(x)]
  <2>1. Len(s) \in 2..Len(s) /\ Len(r) = Len(x) + Len(s) - 1 /\ Len(x) \in 1..Len(x)
    BY <1>1, <1>2
  <2>2. q \in 1..(Len(r) - 1) /\ q # 0
    BY <2>1, <1>1, <1>2
  <2> QED  BY <2>1, <2>2, <1>1
<1>4. \A i \in (q + 1)..(Len(r) - 1) : r[i][1] = "synth"
  <2> SUFFICES ASSUME NEW i \in (q + 1)..(Len(r) - 1) PROVE r[i][1] = "synth"
    OBVIOUS
  <2>1. i - Len(x) + 1 \in (m + 1)..(Len(s) - 1) /\ i - Len(x) + 1 \in 2..Len(s)
        /\ Len(x) + (i - Len(x) + 1) - 1 = i
    <3>1. /\ Len(r) = Len(x) + Len(s) - 1 /\ Len(s) \in Nat /\ Len(x) \in Nat /\ Len(s) >= 2
          /\ m \in Nat /\ q \in Int /\ i \in (q + 1)..(Len(r) - 1) /\ q + 1 >= Len(x) + m
      BY <1>1, <1>2
    <3>2. i \in Int /\ i >= Len(x) + m /\ i >= Len(x) + 1 /\ i <= Len(x) + Len(s) - 2
      BY <1>1, <3>1
    <3> QED  BY ONLY <3>1, <3>2
  <2>2. r[Len(x) + (i - Len(x) + 1) - 1] = s[i - Len(x) + 1]
    BY <2>1, <1>1
  <2>3. s[i - Len(x) + 1][1] = "synth"
    BY <2>1 DEF Phrase
  <2> QED  BY <2>1, <2>2, <2>3
<1>5. \A i \in 1..(q - 1) : Prepares(r[i])
  <2>1. \A i \in 1..(q - 1) : i \in 1..Len(x) /\ i \in 1..(Len(x) - 1)
    BY <1>1
  <2> QED  BY <2>1, <1>1
<1>6. Len(said) + Len(parts) + (Len(r) - Len(x)) = n
  <2>1. /\ Len(r) = Len(x) + Len(s) - 1 /\ Len(s) \in Nat /\ Len(x) \in Nat /\ Len(r) \in Nat
        /\ Len(said) + Len(parts) \in Nat
    BY <1>1
  <2>2. Len(said) + Len(parts) + (Len(s) - 1) = n
    BY <2>1, <1>1, PhraseFacts
  <2>3. Len(r) - Len(x) = Len(s) - 1
    BY <2>1
  <2> QED  BY <2>2, <2>3
<1>7. /\ r[q][1] \in {"store", "push"} => Len(r) = q + 1
      /\ r[q][1] \in {"espeak", "keep"} \/ Len(r) - 1 > q => said = <<>>
  <2>1. r[q][1] \in {"store", "push"} => Len(r) = q + 1
    <3>1. Len(s) = 2 => Len(r) = q + 1
      BY <1>1
    <3> QED  BY <3>1, <1>3
  <2>2. Len(r) - 1 > q => said = <<>>
    <3>1. Len(r) - 1 > q => Len(s) - 1 > m
      BY <1>1
    <3> QED  BY <3>1 DEF Phrase
  <2>3. r[q][1] \in {"espeak", "keep"} => said = <<>>
    <3>1. CASE m = 0
      BY <3>1, <1>2 DEF Phrase
    <3>2. CASE m = 1
      <4>1. Delivers(s[1]) /\ (s[1][1] \in {"espeak", "keep"} => said = <<>>)
        BY <3>2 DEF Phrase
      <4> QED  BY <4>1, <1>3 DEF Delivers
    <3> QED  BY <3>1, <3>2
  <2> QED  BY <2>1, <2>2, <2>3
<1> HIDE DEF q
<1>8. Len(said) + Len(parts) + (Len(r) - q) = n
  BY <1>6 DEF q
<1>9. Phrase(r, parts, n, said, q)
  <2>1. q \in 0..(Len(r) - 1) /\ q # 0
    BY ONLY <1>1, <1>3
  <2>2. Delivers(r[q])
    BY <1>3
  <2>3. r[Len(r)][1] = "play"
    BY <1>2, <1>3
  <2> QED  BY ONLY <1>8, <1>3, <1>4, <1>5, <1>7, <2>1, <2>2, <2>3 DEF Phrase
<1> QED  BY <1>9 DEF r, q

\* and once it is ready, or said, one more of the phrase is done.
LEMMA PhraseDone ==
  ASSUME NEW s \in Seq(StepSet), s # <<>>, NEW n \in Nat,
         NEW parts \in Seq(Formats), NEW said \in Seq(Formats),
         NEW partsN \in Seq(Formats), NEW saidN \in Seq(Formats),
         Phrase(s, parts, n, said, 1),
         Len(partsN) + Len(saidN) = Len(parts) + Len(said) + 1,
         saidN = said \/ s[1][1] \in {"store", "push"}
  PROVE  Phrase(Tail(s), partsN, n, saidN, 0)
<1> DEFINE r == Tail(s)
<1>1. /\ Len(s) \in Nat /\ Len(s) >= 2 /\ Len(r) = Len(s) - 1 /\ r # <<>>
      /\ \A i \in 1..Len(r) : r[i] = s[i + 1]
      /\ Len(parts) \in Nat /\ Len(said) \in Nat /\ Len(partsN) \in Nat /\ Len(saidN) \in Nat
  <2>1. Len(s) >= 2 /\ Len(s) \in Nat
    BY PhraseFacts
  <2>2. r \in Seq(StepSet) /\ Len(r) = Len(s) - 1 /\ \A i \in 1..(Len(s) - 1) : r[i] = s[i + 1]
    OBVIOUS
  <2>3. Len(parts) \in Nat /\ Len(said) \in Nat /\ Len(partsN) \in Nat /\ Len(saidN) \in Nat
    OBVIOUS
  <2> HIDE DEF r
  <2>6. Len(r) \in Nat
    BY <2>2
  <2>4. Len(r) # 0 /\ Len(r) \in Nat
    BY <2>1, <2>2, <2>6, OneLess, Zenon
  <2>5. r # <<>>
    BY <2>4
  <2> QED  BY <2>1, <2>2, <2>3, <2>5
<1> HIDE DEF r
<1>2. r[Len(r)][1] = "play" /\ \A i \in 1..(Len(r) - 1) : r[i][1] = "synth"
  <2>1. r[Len(r)] = s[Len(s)]
    <3>1. Len(r) \in 1..Len(r) /\ Len(r) + 1 = Len(s)
      BY <1>1
    <3> QED  BY <3>1, <1>1
  <2>2. \A i \in 1..(Len(r) - 1) : i \in 1..Len(r) /\ i + 1 \in (1 + 1)..(Len(s) - 1)
    BY <1>1
  <2>3. \A i \in (1 + 1)..(Len(s) - 1) : s[i][1] = "synth"
    BY DEF Phrase
  <2>4. s[Len(s)][1] = "play"
    BY DEF Phrase
  <2> QED  BY <2>1, <2>2, <2>3, <2>4, <1>1
<1>3. Len(saidN) + Len(partsN) + (Len(r) - 0) = n + 1
  <2>1. Len(said) + Len(parts) + (Len(s) - 1) = n
    BY PhraseFacts
  <2>2. /\ Len(r) = Len(s) - 1 /\ Len(s) \in Nat /\ Len(parts) \in Nat /\ Len(said) \in Nat
        /\ Len(partsN) \in Nat /\ Len(saidN) \in Nat
    BY <1>1
  <2>3. Len(partsN) + Len(saidN) = Len(parts) + Len(said) + 1
    OBVIOUS
  <2>4. Len(r) - 0 = Len(s) - 1 /\ Len(said) + Len(parts) = Len(parts) + Len(said)
    BY ONLY <2>2
  <2>5. Len(saidN) + Len(partsN) = Len(said) + Len(parts) + 1
    BY ONLY <2>2, <2>3
  <2>6. Len(saidN) + Len(partsN) + (Len(r) - 0) = Len(said) + Len(parts) + 1 + (Len(s) - 1)
    BY ONLY <2>4, <2>5
  <2>7. Len(said) + Len(parts) + 1 + (Len(s) - 1) = Len(said) + Len(parts) + (Len(s) - 1) + 1
    BY ONLY <2>2
  <2> QED  BY ONLY <2>1, <2>6, <2>7
<1>4. Len(r) - 1 > 0 => saidN = <<>>
  <2>0. Len(r) = Len(s) - 1 /\ Len(s) \in Nat /\ Len(r) \in Nat
    BY <1>1
  <2>1. Len(r) - 1 > 0 => Len(s) - 1 > 1 /\ Len(s) # 1 + 1
    BY <2>0, OneLess
  <2>2. Len(r) - 1 > 0 => said = <<>> /\ s[1][1] \notin {"store", "push"}
    BY <2>1 DEF Phrase
  <2> QED  BY <2>2
<1>5. 0 \in 0..(Len(r) - 1) /\ (0 + 1)..(Len(r) - 1) = 1..(Len(r) - 1) /\ 1..(0 - 1) = {}
  BY <1>1
<1>6. Phrase(r, partsN, n, saidN, 0)
  BY <1>1, <1>2, <1>3, <1>4, <1>5 DEF Phrase
<1> QED  BY <1>6 DEF r

\* A recording of which nothing is said yet stays so.
LEMMA QuietThen ==
  ASSUME NEW s \in Seq(StepSet), s # <<>>, NEW x \in Seq(StepSet), NEW parts, NEW said,
         Quiet(s, parts, said), \A i \in 1..Len(x) : ~Voiced(x[i]) /\ x[i][1] # "play",
         (\E i \in 1..Len(x) : Listens(x[i])) => Listens(s[1])
  PROVE  Quiet(x \o Tail(s), parts, said)
<1> DEFINE r == x \o Tail(s)
<1>1. /\ \A i \in 1..Len(x) : r[i] = x[i]
      /\ \A i \in 2..Len(s) : r[Len(x) + i - 1] = s[i]
      /\ \A j \in 1..Len(r) : j \in 1..Len(x) \/ \E i \in 2..Len(s) : j = Len(x) + i - 1
      /\ Len(s) \in Nat \ {0} /\ Len(x) \in Nat
  BY ThenSeq
<1> HIDE DEF r
<1>2. \A j \in 1..Len(r) : (\E i \in 1..Len(x) : r[j] = x[i]) \/ (\E i \in 2..Len(s) : r[j] = s[i])
  <2> SUFFICES ASSUME NEW j \in 1..Len(r), j \notin 1..Len(x)
               PROVE  \E i \in 2..Len(s) : r[j] = s[i]
    BY <1>1
  <2>1. PICK i \in 2..Len(s) : j = Len(x) + i - 1
    BY <1>1
  <2>2. r[j] = s[i]
    BY <2>1, <1>1
  <2> QED  BY <2>2
<1>3. \A i \in 2..Len(s) : i \in 1..Len(s)
  BY <1>1
<1>4. 1 \in 1..Len(s)
  BY <1>1
<1>5. Quiet(r, parts, said)
  BY <1>2, <1>3, <1>4 DEF Quiet
<1> QED  BY <1>5 DEF r

\* What is delivered stays playable if the steps that follow make it so.
LEMMA DecodableThen ==
  ASSUME NEW s \in Seq(StepSet), s # <<>>, NEW x \in Seq(StepSet),
         NEW a, NEW aN, NEW parts, NEW partsN, NEW said, NEW saidN, NEW w, NEW wN,
         Decodable(s, a, parts, said, w), w \subseteq wN,
         wN \cap {"ffmpeg", "disk"} = {} =>
           /\ \A i \in 1..Len(saidN) : saidN[i] \in Playable
           /\ \A i \in 1..Len(partsN) : partsN[i] \in Playable
           /\ \/ a \in Playable \/ Converts(s[1]) =>
                   aN \in Playable \/ \E j \in 1..Len(x) : Converts(x[j])
              \/ \A j \in 2..Len(s) : s[j][1] \in {"synth", "play"}
           /\ \A i \in 1..Len(x) : Delivers(x[i]) /\ x[i][1] # "espeak" =>
                aN \in Playable \/ \E j \in 1..(i - 1) : Converts(x[j])
  PROVE  Decodable(x \o Tail(s), aN, partsN, saidN, wN)
<1> DEFINE r == x \o Tail(s)
<1>1. /\ Len(r) = Len(x) + Len(s) - 1
      /\ \A i \in 1..Len(x) : r[i] = x[i]
      /\ \A i \in 2..Len(s) : r[Len(x) + i - 1] = s[i]
      /\ \A j \in 1..Len(r) : j \in 1..Len(x) \/ \E i \in 2..Len(s) : j = Len(x) + i - 1
      /\ Len(s) \in Nat \ {0} /\ Len(x) \in Nat
  BY ThenSeq
<1> HIDE DEF r
<1> SUFFICES ASSUME wN \cap {"ffmpeg", "disk"} = {}, NEW i \in 1..Len(r),
                    Delivers(r[i]), r[i][1] # "espeak", aN \notin Playable
             PROVE  \E j \in 1..(i - 1) : Converts(r[j])
  BY DEF Decodable, r
<1>2. w \cap {"ffmpeg", "disk"} = {}
  OBVIOUS
<1>3. CASE i \in 1..Len(x)
  <2>1. PICK j \in 1..(i - 1) : Converts(x[j])
    BY <1>1, <1>3
  <2>2. r[j] = x[j]
    BY <1>1, <1>3, <2>1
  <2> QED  BY <2>1, <2>2
<1>4. CASE i \notin 1..Len(x)
  <2>1. PICK k \in 2..Len(s) : i = Len(x) + k - 1
    BY <1>1, <1>4
  <2>2. r[i] = s[k] /\ k \in 1..Len(s) /\ s[k][1] \notin {"synth", "play"}
    <3>1. r[i] = s[k] /\ k \in 1..Len(s)
      BY <2>1, <1>1
    <3> QED  BY <3>1 DEF Delivers, Voiced
  <2>3. a \in Playable \/ \E j \in 1..(k - 1) : Converts(s[j])
    BY <2>2, <1>2 DEF Decodable
  <2>4. a \in Playable \/ Converts(s[1]) => \E j \in 1..Len(x) : Converts(x[j])
    BY <2>2
  <2>5. CASE \E j \in 1..Len(x) : Converts(x[j])
    <3>1. PICK j \in 1..Len(x) : Converts(x[j])
      BY <2>5
    <3>2. j \in 1..(i - 1) /\ r[j] = x[j]
      BY <1>1, <2>1
    <3> QED  BY <3>1, <3>2
  <2>6. CASE \E j \in 2..(k - 1) : Converts(s[j])
    <3>1. PICK j \in 2..(k - 1) : Converts(s[j])
      BY <2>6
    <3>2. Len(x) + j - 1 \in 1..(i - 1) /\ r[Len(x) + j - 1] = s[j]
      BY <1>1, <2>1
    <3> QED  BY <3>1, <3>2
  <2>7. \A j \in 1..(k - 1) : j = 1 \/ j \in 2..(k - 1)
    BY <1>1
  <2> QED  BY <2>3, <2>4, <2>5, <2>6, <2>7
<1> QED  BY <1>3, <1>4
-----------------------------------------------------------------------------
(* What the first step of a recording says of all the rest.                *)

\* The arguments of a step, by its name.
LEMMA StepKinds ==
  ASSUME NEW step \in StepSet
  PROVE  /\ step[1] = "filter" => step[2] \in Filters
         /\ step[1] = "run" => step[2] \in Nat /\ step[3] \in Filters
         /\ step[1] \in {"unlink", "write", "espeak", "store", "push"} => step[2] \in Nat
         /\ step[1] = "push" => step[3] \in Nat
<1>1. CASE step \in {<<"bunny">>, <<"transcribe">>, <<"whisper">>, <<"ask">>, <<"tags">>,
                    <<"synth">>, <<"keep">>, <<"play">>}
  BY <1>1
<1>2. CASE step \in {"filter"} \X Filters
  BY <1>2
<1>3. CASE step \in {"run"} \X Nat \X Filters
  BY <1>3
<1>4. CASE step \in {"unlink", "write", "espeak"} \X Nat
  BY <1>4
<1>5. CASE step \in {"store"} \X Nat
  BY <1>5
<1>6. CASE step \in {"push"} \X Nat \X Nat
  BY <1>6
<1> QED  BY <1>1, <1>2, <1>3, <1>4, <1>5, <1>6 DEF StepSet

\* Where a recording stands, by its next step.
LEMMA WholeHead ==
  ASSUME NEW s \in Seq(StepSet), s # <<>>, NEW parts \in Seq(Formats), NEW n \in Nat,
         NEW said \in Seq(Formats), Whole(s, parts, n, said)
  PROVE  /\ Prepares(s[1]) =>
              Quiet(s, parts, said) \/ \E m \in Nat : m >= 2 /\ Phrase(s, parts, n, said, m)
         /\ Delivers(s[1]) => Phrase(s, parts, n, said, 1)
         /\ s[1][1] = "synth" => Phrase(s, parts, n, said, 0)
         /\ s[1][1] = "play" => Phrase(s, parts, n, said, 0) /\ Len(s) = 1
         /\ ~Prepares(s[1]) /\ ~Voiced(s[1]) /\ s[1][1] # "play" => Quiet(s, parts, said)
<1>1. Len(s) \in Nat /\ Len(s) >= 1 /\ 1 \in 1..Len(s)
  OBVIOUS
<1>2. CASE Quiet(s, parts, said)
  <2>1. ~Voiced(s[1]) /\ s[1][1] # "play"
    BY <1>1, <1>2 DEF Quiet
  <2> QED  BY <2>1, <1>2 DEF Voiced, Delivers
<1>3. ASSUME NEW m \in 0..Len(s), Phrase(s, parts, n, said, m)
      PROVE  /\ m = 0 => s[1][1] = "synth" \/ (s[1][1] = "play" /\ Len(s) = 1)
             /\ m = 1 => Delivers(s[1])
             /\ m >= 2 => Prepares(s[1])
  <2>1. CASE m = 0
    <3>1. \A i \in 1..(Len(s) - 1) : s[i][1] = "synth"
      BY <2>1, <1>3 DEF Phrase
    <3>2. s[Len(s)][1] = "play"
      BY <1>3 DEF Phrase
    <3>3. CASE Len(s) = 1
      BY <3>2, <3>3, <2>1
    <3>4. CASE Len(s) # 1
      <4>1. 1 \in 1..(Len(s) - 1)
        BY <3>4, <1>1, MoreThanOne
      <4> QED  BY <4>1, <3>1, <2>1
    <3> QED  BY <3>3, <3>4
  <2>2. CASE m = 1
    BY <2>2, <1>3 DEF Phrase
  <2>3. CASE m >= 2
    <3>1. 1 \in 1..(m - 1)
      BY <2>3
    <3> QED  BY <3>1, <2>3, <1>3 DEF Phrase
  <2> QED  BY <2>1, <2>2, <2>3
<1>4. CASE \E m \in 0..Len(s) : Phrase(s, parts, n, said, m)
  <2>1. PICK m \in 0..Len(s) : Phrase(s, parts, n, said, m)
    BY <1>4
  <2>2. /\ m = 0 => s[1][1] = "synth" \/ (s[1][1] = "play" /\ Len(s) = 1)
        /\ m = 1 => Delivers(s[1])
        /\ m >= 2 => Prepares(s[1])
    BY <2>1, <1>3
  <2>3. Delivers(s[1]) => ~Prepares(s[1]) /\ s[1][1] \notin {"synth", "play"} /\ Voiced(s[1])
    BY DEF Delivers, Prepares, Voiced
  <2>4. Prepares(s[1]) => s[1][1] \notin {"synth", "play"} /\ ~Voiced(s[1])
    BY DEF Prepares, Voiced
  <2>5. s[1][1] = "synth" => Voiced(s[1])
    BY DEF Voiced
  <2>6. m \in Nat /\ (m = 0 \/ m = 1 \/ m >= 2)
    BY <1>1
  <2> QED  BY <2>1, <2>2, <2>3, <2>4, <2>5, <2>6
<1> QED  BY <1>2, <1>4, <1>1 DEF Whole

\* Filters and clean-ups change nothing of where a recording stands.
LEMMA WholePrepares ==
  ASSUME NEW s \in Seq(StepSet), s # <<>>, NEW x \in Seq(StepSet),
         NEW parts \in Seq(Formats), NEW n \in Nat, NEW said \in Seq(Formats),
         Whole(s, parts, n, said), Prepares(s[1]), \A i \in 1..Len(x) : Prepares(x[i])
  PROVE  Whole(x \o Tail(s), parts, n, said)
<1>1. CASE Quiet(s, parts, said)
  <2>1. \A i \in 1..Len(x) : ~Voiced(x[i]) /\ x[i][1] # "play" /\ ~Listens(x[i])
    BY DEF Prepares, Voiced, Listens
  <2> QED  BY <2>1, <1>1, QuietThen DEF Whole
<1>2. ASSUME NEW m \in Nat, m >= 2, Phrase(s, parts, n, said, m)
      PROVE  Whole(x \o Tail(s), parts, n, said)
  <2>1. Phrase(x \o Tail(s), parts, n, said, Len(x) + m - 1)
    BY <1>2, PhrasePrepares
  <2>2. Len(x) \in Nat /\ Len(x \o Tail(s)) = Len(x) + Len(s) - 1 /\ Len(s) \in Nat
    BY ThenSeq
  <2>3. m <= Len(s) - 1
    BY <1>2, PhraseFacts
  <2>4. Len(x) + m - 1 \in 0..Len(x \o Tail(s))
    BY <2>2, <2>3, <1>2
  <2> QED  BY <2>1, <2>4 DEF Whole
<1> QED  BY <1>1, <1>2, WholeHead
-----------------------------------------------------------------------------
(* One lemma for each step a recording takes.                              *)

\* A filter that is begun, run or given up, and a clean-up.
LEMMA PreparesRecording ==
  ASSUME NEW s \in Seq(StepSet), s # <<>>, NEW heard, NEW a \in Formats,
         NEW parts \in Seq(Formats), NEW n \in Nat, NEW said \in Seq(Formats),
         NEW files, NEW w,
         Recording(s, heard, a, parts, n, said, files, w),
         NEW x \in Seq(StepSet), NEW aN, NEW filesN, NEW wN, w \subseteq wN,
         Prepares(s[1]), \A i \in 1..Len(x) : Prepares(x[i]),
         \/ "disk" \in wN
         \/ \A f \in filesN : \/ f \in files /\ ~Owes(s[1], f)
                              \/ \E i \in 1..Len(x) : Owes(x[i], f),
         wN \cap {"ffmpeg", "disk"} = {} =>
           (a \in Playable \/ Converts(s[1]) =>
              aN \in Playable \/ \E j \in 1..Len(x) : Converts(x[j]))
  PROVE  Recording(x \o Tail(s), heard, aN, parts, n, said, filesN, wN)
<1>1. /\ Ordered(s) /\ Owed(s, files, w) /\ Audible(s, heard, parts, said, w)
      /\ Whole(s, parts, n, said) /\ Decodable(s, a, parts, said, w) /\ Kept(s, parts, w)
  BY DEF Recording
<1>2. \A i \in 1..Len(x) : /\ x[i][1] \notin Deciding \cup {"synth", "espeak", "whisper"}
                           /\ ~Delivers(x[i])
  BY DEF Prepares, Deciding, Delivers, Voiced
<1>3. Ordered(x \o Tail(s))
  <2>1. Ordered(x)
    BY <1>2 DEF Ordered
  <2>2. ~ \E i \in 1..Len(x) : x[i][1] \in Deciding
    BY <1>2
  <2>3. ~ \E i \in 1..Len(x) : x[i][1] \in {"synth", "espeak"}
    BY <1>2
  <2> QED  BY <1>1, <2>1, <2>2, <2>3, OrderedThen
<1>4. Owed(x \o Tail(s), filesN, wN)
  BY <1>1, OwedThen
<1>5. Audible(x \o Tail(s), heard, parts, said, wN)
  <2>1. ~Promises(s[1], heard)
    BY DEF Promises, Prepares, Voiced
  <2>2. Settled(heard, parts, said, w) => Settled(heard, parts, said, wN)
    BY DEF Settled, Fatal
  <2> QED  BY <1>1, <2>1, <2>2, AudibleThen
<1>6. Whole(x \o Tail(s), parts, n, said)
  BY <1>1, WholePrepares
<1>7. Decodable(x \o Tail(s), aN, parts, said, wN)
  <2>1. wN \cap {"ffmpeg", "disk"} = {} =>
          /\ \A i \in 1..Len(said) : said[i] \in Playable
          /\ \A i \in 1..Len(parts) : parts[i] \in Playable
    BY <1>1 DEF Decodable
  <2>2. \A i \in 1..Len(x) : Delivers(x[i]) /\ x[i][1] # "espeak" =>
          aN \in Playable \/ \E j \in 1..(i - 1) : Converts(x[j])
    BY <1>2
  <2> QED  BY <1>1, <2>1, <2>2, DecodableThen
<1>8. Kept(x \o Tail(s), parts, wN)
  <2>1. s[1][1] # "play"
    BY DEF Prepares
  <2> QED  BY <1>1, <2>1, KeptThen
<1> QED  BY <1>3, <1>4, <1>5, <1>6, <1>7, <1>8 DEF Recording

\* A step of a recording of which nothing is to be said yet.
LEMMA QuietRecording ==
  ASSUME NEW s \in Seq(StepSet), s # <<>>, NEW heard, NEW a \in Formats,
         NEW parts \in Seq(Formats), NEW n \in Nat, NEW said \in Seq(Formats),
         NEW files, NEW w,
         Recording(s, heard, a, parts, n, said, files, w),
         NEW x \in Seq(StepSet), NEW heardN, NEW nN \in Nat, NEW filesN, NEW wN, w \subseteq wN,
         ~Prepares(s[1]), ~Voiced(s[1]), s[1][1] # "play",
         \A i \in 1..Len(x) : ~Voiced(x[i]) /\ x[i][1] # "play",
         (\E i \in 1..Len(x) : Listens(x[i])) => Listens(s[1]),
         Ordered(x), (\E i \in 1..Len(x) : x[i][1] \in Deciding) => Len(s) = 1,
         \/ "disk" \in wN
         \/ \A f \in filesN : \/ f \in files /\ ~Owes(s[1], f)
                              \/ \E i \in 1..Len(x) : Owes(x[i], f),
         \/ \E i \in 1..Len(x) : Promises(x[i], heardN)
         \/ \E i \in 2..Len(s) : Promises(s[i], heardN)
         \/ /\ Settled(heard, parts, said, w) => Settled(heardN, parts, said, wN)
            /\ heard # "nothing" => heardN # "nothing"
            /\ Promises(s[1], heard) => Settled(heardN, parts, said, wN)
  PROVE  Recording(x \o Tail(s), heardN, a, parts, nN, said, filesN, wN)
<1>1. /\ Ordered(s) /\ Owed(s, files, w) /\ Audible(s, heard, parts, said, w)
      /\ Whole(s, parts, n, said) /\ Decodable(s, a, parts, said, w) /\ Kept(s, parts, w)
  BY DEF Recording
<1>2. \A i \in 1..Len(x) : x[i][1] \notin {"synth", "espeak"} /\ ~Delivers(x[i])
  BY DEF Delivers, Voiced
<1>3. Ordered(x \o Tail(s))
  <2>1. ~ \E i \in 1..Len(x) : x[i][1] \in {"synth", "espeak"}
    BY <1>2
  <2> QED  BY <1>1, <2>1, OrderedThen
<1>4. Owed(x \o Tail(s), filesN, wN)
  BY <1>1, OwedThen
<1>5. Audible(x \o Tail(s), heardN, parts, said, wN)
  BY <1>1, AudibleThen
<1>6. Whole(x \o Tail(s), parts, nN, said)
  <2>1. Quiet(s, parts, said)
    BY <1>1, WholeHead
  <2> QED  BY <2>1, QuietThen DEF Whole
<1>7. Decodable(x \o Tail(s), a, parts, said, wN)
  <2>1. wN \cap {"ffmpeg", "disk"} = {} =>
          /\ \A i \in 1..Len(said) : said[i] \in Playable
          /\ \A i \in 1..Len(parts) : parts[i] \in Playable
    BY <1>1 DEF Decodable
  <2>2. \A i \in 1..Len(x) : Delivers(x[i]) /\ x[i][1] # "espeak" =>
          a \in Playable \/ \E j \in 1..(i - 1) : Converts(x[j])
    BY <1>2
  <2>3. ~Converts(s[1])
    BY DEF Converts, Prepares
  <2> QED  BY <1>1, <2>1, <2>2, <2>3, DecodableThen
<1>8. Kept(x \o Tail(s), parts, wN)
  BY <1>1, KeptThen
<1> QED  BY <1>3, <1>4, <1>5, <1>6, <1>7, <1>8 DEF Recording

\* The rest of a phrase, behind the segment that is in hand or to be synthesized.
LEMMA PhraseRest ==
  ASSUME NEW s \in Seq(StepSet), s # <<>>, NEW parts \in Seq(Formats), NEW n \in Nat,
         NEW said \in Seq(Formats),
         Phrase(s, parts, n, said, 0) \/ Phrase(s, parts, n, said, 1)
  PROVE  \A j \in 2..Len(s) : s[j][1] \in {"synth", "play"}
<1> SUFFICES ASSUME NEW j \in 2..Len(s) PROVE s[j][1] \in {"synth", "play"}
  OBVIOUS
<1>1. PICK m \in {0, 1} : Phrase(s, parts, n, said, m)
  OBVIOUS
<1>2. CASE j = Len(s)
  BY <1>1, <1>2 DEF Phrase
<1>3. CASE j # Len(s)
  <2>1. j \in (m + 1)..(Len(s) - 1)
    BY <1>1, <1>3
  <2> QED  BY <1>1, <2>1 DEF Phrase
<1> QED  BY <1>2, <1>3

\* A segment is taken in hand, or goes over to the next program.
LEMMA HandsRecording ==
  ASSUME NEW s \in Seq(StepSet), s # <<>>, NEW heard, NEW a \in Formats,
         NEW parts \in Seq(Formats), NEW n \in Nat, NEW said \in Seq(Formats),
         NEW files, NEW w,
         Recording(s, heard, a, parts, n, said, files, w),
         NEW x \in Seq(StepSet), x # <<>>, NEW aN, NEW filesN,
         s[1][1] = "synth" \/ Delivers(s[1]),
         \A i \in 1..(Len(x) - 1) : Prepares(x[i]), Delivers(x[Len(x)]),
         x[Len(x)][1] \in {"store", "push"} => s[1][1] \in {"store", "push"},
         x[Len(x)][1] \in {"espeak", "keep"} => s[1][1] \in {"synth", "espeak"},
         \A f \in filesN : \/ f \in files /\ ~Owes(s[1], f)
                           \/ \E i \in 1..Len(x) : Owes(x[i], f),
         \/ x[Len(x)][1] = "espeak"
         \/ \E j \in 1..(Len(x) - 1) : Converts(x[j])
         \/ aN = a /\ Delivers(s[1]) /\ s[1][1] # "espeak"
  PROVE  Recording(x \o Tail(s), heard, aN, parts, n, said, filesN, w)
<1>1. /\ Ordered(s) /\ Owed(s, files, w) /\ Audible(s, heard, parts, said, w)
      /\ Whole(s, parts, n, said) /\ Decodable(s, a, parts, said, w) /\ Kept(s, parts, w)
  BY DEF Recording
<1>2. PICK m \in {0, 1} : /\ Phrase(s, parts, n, said, m)
                          /\ m = 1 \/ (m = 0 /\ s[1][1] = "synth")
  BY <1>1, WholeHead
<1>3. Len(x) \in Nat /\ Len(x) >= 1 /\ Len(x) \in 1..Len(x)
  OBVIOUS
<1>4. \A i \in 1..Len(x) : i \in 1..(Len(x) - 1) \/ i = Len(x)
  BY <1>3
<1>5. \A i \in 1..Len(x) :
        /\ x[i][1] \notin Deciding \cup {"synth", "whisper"}
        /\ x[i][1] = "espeak" \/ Delivers(x[i]) => i = Len(x)
  BY <1>4 DEF Prepares, Deciding, Delivers, Voiced
<1>6. Ordered(x \o Tail(s))
  <2>1. Ordered(x)
    <3> SUFFICES ASSUME NEW i \in 1..Len(x), x[i][1] = "espeak", NEW j \in (i + 1)..Len(x)
                 PROVE  FALSE
      BY <1>5 DEF Ordered
    <3> QED  BY <1>5, <1>3
  <2>2. ~ \E i \in 1..Len(x) : x[i][1] \in Deciding
    BY <1>5
  <2>3. (\E i \in 1..Len(x) : x[i][1] \in {"synth", "espeak"}) => s[1][1] \in {"synth", "espeak"}
    BY <1>5
  <2> QED  BY <1>1, <2>1, <2>2, <2>3, OrderedThen
<1>7. Owed(x \o Tail(s), filesN, w)
  BY <1>1, OwedThen
<1>8. Audible(x \o Tail(s), heard, parts, said, w)
  <2>1. Promises(x[Len(x)], heard)
    BY DEF Promises, Delivers
  <2> QED  BY <1>1, <1>3, <2>1, AudibleThen
<1>9. Whole(x \o Tail(s), parts, n, said)
  <2>1. x[Len(x)][1] \in {"store", "push"} => Len(s) = 2 /\ m = 1
    <3> SUFFICES ASSUME s[1][1] \in {"store", "push"} PROVE Len(s) = 2 /\ m = 1
      OBVIOUS
    <3>1. m = 1
      BY <1>2
    <3> QED  BY <3>1, <1>2 DEF Phrase
  <2>2. Phrase(x \o Tail(s), parts, n, said, Len(x))
    BY <1>2, <2>1, PhraseHands
  <2>3. Len(x) \in 0..Len(x \o Tail(s))
    BY <2>2, <1>3, ThenSeq DEF Phrase
  <2> QED  BY <2>2, <2>3 DEF Whole
<1>10. Decodable(x \o Tail(s), aN, parts, said, w)
  <2>1. w \cap {"ffmpeg", "disk"} = {} =>
          /\ \A i \in 1..Len(said) : said[i] \in Playable
          /\ \A i \in 1..Len(parts) : parts[i] \in Playable
    BY <1>1 DEF Decodable
  <2>2. \A j \in 2..Len(s) : s[j][1] \in {"synth", "play"}
    BY <1>2, PhraseRest
  <2>3. w \cap {"ffmpeg", "disk"} = {} /\ Delivers(s[1]) /\ s[1][1] # "espeak" => a \in Playable
    <3>1. 1 \in 1..Len(s) /\ 1..(1 - 1) = {}
      OBVIOUS
    <3> QED  BY <3>1, <1>1 DEF Decodable
  <2>4. w \cap {"ffmpeg", "disk"} = {} =>
          \A i \in 1..Len(x) : Delivers(x[i]) /\ x[i][1] # "espeak" =>
            aN \in Playable \/ \E j \in 1..(i - 1) : Converts(x[j])
    BY <1>5, <2>3
  <2> QED  BY <1>1, <2>1, <2>2, <2>4, DecodableThen
<1>11. Kept(x \o Tail(s), parts, w)
  <2>1. s[1][1] # "play"
    BY DEF Delivers, Voiced
  <2> QED  BY <1>1, <2>1, KeptThen
<1> QED  BY <1>6, <1>7, <1>8, <1>9, <1>10, <1>11 DEF Recording

\* A segment is ready, or a sound has been pushed.
LEMMA DoneRecording ==
  ASSUME NEW s \in Seq(StepSet), s # <<>>, NEW heard, NEW a \in Formats,
         NEW parts \in Seq(Formats), NEW n \in Nat, NEW said \in Seq(Formats),
         NEW files, NEW w,
         Recording(s, heard, a, parts, n, said, files, w),
         NEW partsN \in Seq(Formats), NEW saidN \in Seq(Formats),
         \/ s[1][1] = "keep" /\ partsN = Append(parts, a) /\ saidN = said
         \/ s[1][1] = "push" /\ s[1][3] = Sound /\ partsN = parts /\ saidN = Append(said, a)
  PROVE  Recording(<<>> \o Tail(s), heard, a, partsN, n, saidN, files, w)
<1>1. /\ Ordered(s) /\ Owed(s, files, w) /\ Audible(s, heard, parts, said, w)
      /\ Whole(s, parts, n, said) /\ Decodable(s, a, parts, said, w) /\ Kept(s, parts, w)
  BY DEF Recording
<1> DEFINE x == <<>>
<1>2. x \in Seq(StepSet) /\ Len(x) = 0
  OBVIOUS
<1>3. x \o Tail(s) = Tail(s)
  OBVIOUS
<1> HIDE DEF x
<1>4. Delivers(s[1]) /\ s[1][1] \notin {"synth", "espeak"} /\ \A f : ~Owes(s[1], f)
  BY DEF Delivers, Voiced, Owes
<1>5. Ordered(x \o Tail(s))
  BY <1>1, <1>2, OrderedThen DEF Ordered
<1>6. Owed(x \o Tail(s), files, w)
  BY <1>1, <1>2, <1>4, OwedThen
<1>7. Len(partsN) + Len(saidN) = Len(parts) + Len(said) + 1
  <2>1. CASE partsN = Append(parts, a) /\ saidN = said
    BY <2>1, AppendFacts
  <2>2. CASE partsN = parts /\ saidN = Append(said, a)
    BY <2>2, AppendFacts
  <2> QED  BY <2>1, <2>2
<1>8. Audible(x \o Tail(s), heard, partsN, saidN, w)
  <2>1. partsN # <<>> \/ saidN # <<>>
    OBVIOUS
  <2> QED  BY <2>1 DEF Audible, Settled
<1>9. Whole(x \o Tail(s), partsN, n, saidN) /\ Kept(x \o Tail(s), partsN, w)
  <2>1. Phrase(s, parts, n, said, 1)
    BY <1>1, <1>4, WholeHead
  <2>2. Phrase(Tail(s), partsN, n, saidN, 0)
    BY <1>7, <2>1, PhraseDone
  <2>3. 0 \in 0..Len(Tail(s))
    BY <1>3
  <2>4. Kept(Tail(s), partsN, w)
    BY <2>2 DEF Phrase, Kept
  <2> QED  BY <2>2, <2>3, <2>4, <1>3 DEF Whole
<1>10. Decodable(x \o Tail(s), a, partsN, saidN, w)
  <2>1. w \cap {"ffmpeg", "disk"} = {} =>
          /\ \A i \in 1..Len(said) : said[i] \in Playable
          /\ \A i \in 1..Len(parts) : parts[i] \in Playable
    BY <1>1 DEF Decodable
  <2>2. w \cap {"ffmpeg", "disk"} = {} => a \in Playable
    <3>1. 1 \in 1..Len(s) /\ 1..(1 - 1) = {}
      OBVIOUS
    <3> QED  BY <3>1, <1>1, <1>4 DEF Decodable
  <2>3. w \cap {"ffmpeg", "disk"} = {} =>
          /\ \A i \in 1..Len(saidN) : saidN[i] \in Playable
          /\ \A i \in 1..Len(partsN) : partsN[i] \in Playable
    <3>1. CASE partsN = Append(parts, a) /\ saidN = said
      BY <2>1, <2>2, <3>1, AppendFacts
    <3>2. CASE partsN = parts /\ saidN = Append(said, a)
      BY <2>1, <2>2, <3>2, AppendFacts
    <3> QED  BY <3>1, <3>2
  <2>4. \A i \in 1..Len(x) : FALSE
    BY <1>2
  <2> QED  BY <1>1, <1>2, <2>2, <2>3, <2>4, DecodableThen
<1> QED  BY <1>5, <1>6, <1>8, <1>9, <1>10, <1>2 DEF Recording, x

\* The segments of a phrase, and the step that plays them.
LEMMA PhraseSteps ==
  ASSUME NEW k \in Nat \ {0}, NEW x, x = [i \in 1..k |-> <<"synth">>] \o << <<"play">> >>
  PROVE  /\ x \in Seq(StepSet) /\ Len(x) = k + 1 /\ x[k + 1] = <<"play">>
         /\ \A i \in 1..k : x[i] = <<"synth">>
         /\ \A i \in 1..Len(x) : x[i][1] # "push"
<1> DEFINE y == [i \in 1..k |-> <<"synth">>]
<1>1. <<"synth">> \in StepSet /\ <<"play">> \in StepSet
  BY DEF StepSet
<1>2. y \in Seq(StepSet) /\ Len(y) = k /\ \A i \in 1..k : y[i] = <<"synth">>
  BY <1>1
<1> HIDE DEF y
<1>3. x = y \o << <<"play">> >>
  BY DEF y
<1>4. << <<"play">> >> \in Seq(StepSet) /\ Len(<< <<"play">> >>) = 1
  BY <1>1
<1> DEFINE z == << <<"play">> >>
<1>5. z \in Seq(StepSet) /\ Len(z) = 1 /\ z[1] = <<"play">>
  BY <1>4
<1> HIDE DEF z
<1>6. x = y \o z
  BY <1>3 DEF z
<1>7. x \in Seq(StepSet) /\ Len(x) = k + 1
  <2>1. y \o z \in Seq(StepSet) /\ Len(y \o z) = Len(y) + Len(z)
    BY <1>2, <1>5, ConcatProperties, Zenon
  <2> QED  BY <2>1, <1>2, <1>5, <1>6
<1>8. x[k + 1] = z[1]
  BY <1>2, <1>5, <1>6
<1>9. \A i \in 1..k : x[i] = y[i]
  BY <1>2, <1>5, <1>6
<1> QED  BY <1>2, <1>5, <1>7, <1>8, <1>9

\* A reply of words becomes a phrase of n segments.
LEMMA RunTagsRecording ==
  ASSUME NEW s \in Seq(StepSet), s # <<>>, NEW heard, NEW a \in Formats,
         NEW parts \in Seq(Formats), NEW n \in Nat, NEW said \in Seq(Formats),
         NEW files, NEW w,
         Recording(s, heard, a, parts, n, said, files, w),
         s[1][1] = "tags", NEW k \in Nat \ {0}, NEW x,
         x = [i \in 1..k |-> <<"synth">>] \o << <<"play">> >>
  PROVE  /\ x \in Seq(StepSet)
         /\ Recording(x \o Tail(s), heard, a, parts, k, said, files, w)
<1>1. /\ Ordered(s) /\ Owed(s, files, w) /\ Audible(s, heard, parts, said, w)
      /\ Whole(s, parts, n, said) /\ Decodable(s, a, parts, said, w) /\ Kept(s, parts, w)
  BY DEF Recording
<1>2. /\ x \in Seq(StepSet) /\ Len(x) = k + 1 /\ x[k + 1] = <<"play">>
      /\ \A i \in 1..k : x[i] = <<"synth">>
  BY PhraseSteps
<1>3. Len(s) = 1 /\ Quiet(s, parts, said) /\ parts = <<>> /\ said = <<>>
  <2>1. ~Prepares(s[1]) /\ ~Voiced(s[1]) /\ s[1][1] \in Deciding /\ Listens(s[1])
    BY DEF Prepares, Voiced, Deciding, Listens
  <2>2. 1 \in 1..Len(s)
    OBVIOUS
  <2>3. Len(s) = 1
    BY <1>1, <2>1, <2>2 DEF Ordered
  <2>4. Quiet(s, parts, said)
    BY <1>1, <2>1, WholeHead
  <2> QED  BY <2>1, <2>2, <2>3, <2>4 DEF Quiet
<1>4. x \o Tail(s) = x
  BY <1>2, <1>3, LastStep
<1>5. \A i \in 1..Len(x) : i \in 1..k \/ i = k + 1
  BY <1>2
<1>6. \A i \in 1..Len(x) : x[i] = <<"synth">> \/ (x[i] = <<"play">> /\ i = k + 1)
  BY <1>2, <1>5
<1>7. Ordered(x)
  <2> SUFFICES ASSUME NEW i \in 1..Len(x)
               PROVE  /\ x[i][1] \in Deciding => i = Len(x)
                      /\ \A j \in (i + 1)..Len(x) : x[j][1] \in {"synth", "play"}
                      /\ x[i][1] # "whisper"
    BY DEF Ordered
  <2>1. x[i][1] \in Deciding => i = Len(x)
    BY <1>2, <1>6 DEF Deciding
  <2>2. \A j \in (i + 1)..Len(x) : j \in 1..Len(x)
    OBVIOUS
  <2>3. \A j \in 1..Len(x) : x[j][1] \in {"synth", "play"}
    BY <1>6
  <2> QED  BY <2>1, <2>2, <2>3
<1>8. Owed(x, files, w)
  <2>1. \A f \in files : ~Owes(s[1], f)
    BY DEF Owes
  <2>2. \A i \in 1..Len(s) : i = 1
    BY <1>3
  <2> QED  BY <1>1, <2>1, <2>2 DEF Owed
<1>9. Audible(x, heard, parts, said, w)
  <2>1. 1 \in 1..Len(x) /\ Promises(x[1], heard)
    BY <1>2 DEF Promises, Voiced
  <2> QED  BY <2>1 DEF Audible
<1>10. Whole(x, parts, k, said)
  <2>1. x # <<>> /\ 0 \in 0..(Len(x) - 1) /\ x[Len(x)][1] = "play" /\ 0 \in 0..Len(x)
    BY <1>2
  <2>2. \A i \in (0 + 1)..(Len(x) - 1) : x[i][1] = "synth"
    BY <1>2
  <2>3. Len(said) + Len(parts) + (Len(x) - 0) = k + 1
    BY <1>2, <1>3
  <2>4. 1..(0 - 1) = {}
    OBVIOUS
  <2>5. Phrase(x, parts, k, said, 0)
    BY <2>1, <2>2, <2>3, <2>4, <1>3 DEF Phrase
  <2> QED  BY <2>1, <2>5 DEF Whole
<1>11. Decodable(x, a, parts, said, w)
  <2>1. \A i \in 1..Len(x) : ~Delivers(x[i])
    BY <1>6 DEF Delivers, Voiced
  <2> QED  BY <2>1, <1>1 DEF Decodable
<1>12. Kept(x, parts, w)
  BY <1>3 DEF Kept
<1> QED  BY <1>2, <1>4, <1>7, <1>8, <1>9, <1>10, <1>11, <1>12 DEF Recording

\* A failure of espeak-ng: what was ready is given up, the file is removed.
LEMMA EspeakRecording ==
  ASSUME NEW s \in Seq(StepSet), s # <<>>, NEW heard, NEW a \in Formats,
         NEW parts \in Seq(Formats), NEW n \in Nat, NEW said \in Seq(Formats),
         NEW files, NEW w,
         Recording(s, heard, a, parts, n, said, files, w),
         s[1][1] = "espeak", NEW wN, wN = w \cup {"espeak"}
  PROVE  Recording(<< <<"unlink", s[1][2]>> >>, heard, a, parts, n, said, files, wN)
<1>1. /\ Ordered(s) /\ Owed(s, files, w) /\ Audible(s, heard, parts, said, w)
      /\ Whole(s, parts, n, said) /\ Decodable(s, a, parts, said, w) /\ Kept(s, parts, w)
  BY DEF Recording
<1> DEFINE x == << <<"unlink", s[1][2]>> >>
<1>2. Len(x) = 1 /\ \A i \in 1..Len(x) : i = 1 /\ x[i] = <<"unlink", s[1][2]>> /\ x[i][1] = "unlink"
  OBVIOUS
<1>3. Owes(x[1], s[1][2]) /\ 1 \in 1..Len(x)
  BY DEF Owes
<1> HIDE DEF x
<1>4. Phrase(s, parts, n, said, 1)
  BY <1>1, WholeHead DEF Delivers, Voiced
<1>5. Ordered(x)
  BY <1>2 DEF Ordered, Deciding
<1>6. Owed(x, files, wN)
  <2> SUFFICES ASSUME "disk" \notin w, NEW f \in files PROVE Owes(x[1], f)
    BY <1>3 DEF Owed
  <2>1. PICK i \in 1..Len(s) : Owes(s[i], f)
    BY <1>1 DEF Owed
  <2>2. i = 1
    <3>1. \A j \in 2..Len(s) : ~Owes(s[j], f)
      BY <1>4, PhraseRest DEF Owes
    <3>2. i = 1 \/ i \in 2..Len(s)
      OBVIOUS
    <3> QED  BY <2>1, <3>1, <3>2
  <2>3. f = s[1][2]
    BY <2>1, <2>2 DEF Owes
  <2> QED  BY <2>3, <1>3
<1>7. Audible(x, heard, parts, said, wN)
  BY DEF Audible, Settled, Fatal
<1>8. Whole(x, parts, n, said)
  <2>1. said = <<>>
    BY <1>4 DEF Phrase
  <2>2. \A i \in 1..Len(x) : ~Voiced(x[i]) /\ x[i][1] # "play" /\ ~Listens(x[i])
    BY <1>2 DEF Voiced, Listens
  <2> QED  BY <2>1, <2>2 DEF Whole, Quiet
<1>9. Decodable(x, a, parts, said, wN)
  <2>1. \A i \in 1..Len(x) : ~Delivers(x[i])
    BY <1>2 DEF Delivers, Voiced
  <2> QED  BY <2>1, <1>1 DEF Decodable
<1>10. Kept(x, parts, wN)
  BY DEF Kept, Fatal
<1> QED  BY <1>5, <1>6, <1>7, <1>8, <1>9, <1>10 DEF Recording, x

\* The next segment goes to the rabbit, or all of them have.
LEMMA PlayRecording ==
  ASSUME NEW s \in Seq(StepSet), s # <<>>, NEW heard, NEW a \in Formats,
         NEW parts \in Seq(Formats), NEW n \in Nat, NEW said \in Seq(Formats),
         NEW files, NEW w,
         Recording(s, heard, a, parts, n, said, files, w),
         s[1][1] = "play"
  PROVE  /\ parts = <<>> => Recording(<<>>, heard, a, parts, n, said, files, w)
         /\ parts # <<>> =>
              /\ Recording(<< <<"store", Sound>>, <<"play">> >>,
                           heard, Head(parts), Tail(parts), n, said, files, w)
              /\ Recording(<< <<"filter", "fade">>, <<"store", Sound>>, <<"play">> >>,
                           heard, Head(parts), Tail(parts), n, said, files, w)
<1>1. /\ Ordered(s) /\ Owed(s, files, w) /\ Audible(s, heard, parts, said, w)
      /\ Whole(s, parts, n, said) /\ Decodable(s, a, parts, said, w) /\ Kept(s, parts, w)
  BY DEF Recording
<1>2. Phrase(s, parts, n, said, 0) /\ Len(s) = 1
  BY <1>1, WholeHead
<1>3. Len(said) + Len(parts) = n /\ Len(said) \in Nat /\ Len(parts) \in Nat
  <2>1. Len(said) + Len(parts) + Len(s) = n + 1
    <3>1. PICK m \in Nat : m = 0 /\ Phrase(s, parts, n, said, m)
      BY <1>2
    <3> QED  BY <3>1, PhraseFacts
  <2>2. Len(said) \in Nat /\ Len(parts) \in Nat
    OBVIOUS
  <2> QED  BY <2>1, <2>2, <1>2
<1>4. Settled(heard, parts, said, w)
  <2>1. ~Promises(s[1], heard)
    BY DEF Promises, Voiced
  <2>2. \A i \in 1..Len(s) : i = 1
    BY <1>2
  <2> QED  BY <2>1, <2>2, <1>1 DEF Audible
<1>5. \A x : Owed(x, files, w)
  <2>1. \A f \in files : ~Owes(s[1], f)
    BY DEF Owes
  <2>2. \A i \in 1..Len(s) : i = 1
    BY <1>2
  <2> QED  BY <2>1, <2>2, <1>1 DEF Owed
<1>6. w \cap {"ffmpeg", "disk"} = {} =>
        /\ \A i \in 1..Len(said) : said[i] \in Playable
        /\ \A i \in 1..Len(parts) : parts[i] \in Playable
  BY <1>1 DEF Decodable
<1>7. ASSUME parts = <<>> PROVE Recording(<<>>, heard, a, parts, n, said, files, w)
  <2> DEFINE x == <<>>
  <2>1. Len(x) = 0 /\ x = <<>> /\ 1..Len(x) = {}
    OBVIOUS
  <2> HIDE DEF x
  <2>2. Ordered(x) /\ Audible(x, heard, parts, said, w) /\ Decodable(x, a, parts, said, w)
    BY <2>1, <1>4, <1>6 DEF Ordered, Audible, Decodable
  <2>3. Whole(x, parts, n, said) /\ Kept(x, parts, w)
    BY <2>1, <1>3, <1>7 DEF Whole, Kept
  <2> QED  BY <2>2, <2>3, <1>5 DEF Recording, x
<1>8. ASSUME parts # <<>>, NEW x \in Seq(StepSet), NEW m \in {1, 2}, Len(x) = m + 1,
             x[m] = <<"store", Sound>>, x[m + 1] = <<"play">>,
             m = 2 => x[1] = <<"filter", "fade">>
      PROVE  Recording(x, heard, Head(parts), Tail(parts), n, said, files, w)
  <2>1. /\ Len(Tail(parts)) = Len(parts) - 1 /\ Head(parts) = parts[1] /\ 1 \in 1..Len(parts)
        /\ \A i \in 1..Len(Tail(parts)) : Tail(parts)[i] = parts[i + 1] /\ i + 1 \in 1..Len(parts)
    BY <1>8
  <2>2. \A i \in 1..Len(x) : \/ (i = m /\ x[i] = <<"store", Sound>>)
                            \/ (i = m + 1 /\ x[i] = <<"play">>)
                            \/ (i < m /\ x[i] = <<"filter", "fade">>)
    BY <1>8
  <2>3. Ordered(x)
    BY <2>2, <1>8 DEF Ordered, Deciding
  <2>4. Audible(x, heard, Tail(parts), said, w)
    <3>1. m \in 1..Len(x) /\ Promises(x[m], heard)
      BY <1>8 DEF Promises, Voiced
    <3> QED  BY <3>1 DEF Audible
  <2>5. Phrase(x, Tail(parts), n, said, m)
    <3>1. m \in 0..(Len(x) - 1) /\ x # <<>> /\ m # 0 /\ Len(x) - 1 = m /\ Len(x) - m = 1
      BY <1>8
    <3>2. x[Len(x)][1] = "play" /\ Delivers(x[m]) /\ x[m][1] = "store"
      BY <1>8 DEF Delivers, Voiced
    <3>3. Len(said) + Len(Tail(parts)) + (Len(x) - m) = n
      BY <3>1, <2>1, <1>3
    <3>4. \A i \in 1..(m - 1) : Prepares(x[i])
      BY <1>8 DEF Prepares
    <3> QED  BY <3>1, <3>2, <3>3, <3>4, <1>8 DEF Phrase
  <2>6. Decodable(x, Head(parts), Tail(parts), said, w)
    BY <2>1, <1>6 DEF Decodable
  <2>7. Whole(x, Tail(parts), n, said) /\ Kept(x, Tail(parts), w)
    <3>1. x # <<>> /\ x[Len(x)][1] = "play"
      BY <2>5 DEF Phrase
    <3> QED  BY <2>5, <3>1, <1>8 DEF Whole, Kept
  <2> QED  BY <2>3, <2>4, <2>6, <2>7, <1>5 DEF Recording
<1>9. ASSUME parts # <<>>
      PROVE  Recording(<< <<"store", Sound>>, <<"play">> >>,
                       heard, Head(parts), Tail(parts), n, said, files, w)
  <2> DEFINE x == << <<"store", Sound>>, <<"play">> >>
  <2>1. <<"store", Sound>> \in StepSet /\ <<"play">> \in StepSet
    BY DEF StepSet, Sound
  <2>2. x \in Seq(StepSet) /\ Len(x) = 1 + 1 /\ x[1] = <<"store", Sound>> /\ x[1 + 1] = <<"play">>
    BY <2>1
  <2> HIDE DEF x
  <2>3. Recording(x, heard, Head(parts), Tail(parts), n, said, files, w)
    <3>1. 1 \in {1, 2} /\ (1 = 2 => x[1] = <<"filter", "fade">>)
      BY <2>2
    <3> QED  BY <3>1, <2>2, <1>8, <1>9
  <2> QED  BY <2>3 DEF x
<1>10. ASSUME parts # <<>>
       PROVE  Recording(<< <<"filter", "fade">>, <<"store", Sound>>, <<"play">> >>,
                        heard, Head(parts), Tail(parts), n, said, files, w)
  <2> DEFINE x == << <<"filter", "fade">>, <<"store", Sound>>, <<"play">> >>
  <2>1. <<"store", Sound>> \in StepSet /\ <<"play">> \in StepSet /\ <<"filter", "fade">> \in StepSet
    BY DEF StepSet, Sound, Filters
  <2>2. /\ x \in Seq(StepSet) /\ Len(x) = 2 + 1 /\ x[1] = <<"filter", "fade">>
        /\ x[2] = <<"store", Sound>> /\ x[2 + 1] = <<"play">>
    BY <2>1
  <2> HIDE DEF x
  <2>3. Recording(x, heard, Head(parts), Tail(parts), n, said, files, w)
    <3>1. 2 \in {1, 2} /\ (2 = 2 => x[1] = <<"filter", "fade">>)
      BY <2>2
    <3> QED  BY <3>1, <2>2, <1>8, <1>10
  <2> QED  BY <2>3 DEF x
<1> QED  BY <1>7, <1>9, <1>10
-----------------------------------------------------------------------------
(* One lemma for each action of a recording's thread.                      *)

\* A step of the thread t changes nothing of the other recordings.
Becomes(t, s, heard, a, parts, n, said, files, w) ==
  /\ todo' = [todo EXCEPT ![t] = s] /\ text' = [text EXCEPT ![t] = heard]
  /\ audio' = [audio EXCEPT ![t] = a] /\ steps' = [steps EXCEPT ![t] = parts]
  /\ segments' = [segments EXCEPT ![t] = n] /\ spoken' = [spoken EXCEPT ![t] = said]
  /\ temps' = [temps EXCEPT ![t] = files] /\ why' = [why EXCEPT ![t] = w]

\* So it keeps the invariant of all if it keeps that of its own.
LEMMA OneVoice ==
  ASSUME VoiceInv, NEW t \in Voices,
         NEW s \in Seq(StepSet), NEW heard \in {"nothing", "words", "tags"}, NEW a \in Formats,
         NEW parts \in Seq(Formats), NEW n \in Nat, NEW said \in Seq(Formats),
         NEW files \in SUBSET Nat, IsFiniteSet(files), NEW w \in SUBSET Faults,
         Recording(s, heard, a, parts, n, said, files, w),
         Becomes(t, s, heard, a, parts, n, said, files, w)
  PROVE  VoiceInv'
<1>1. t \in Writers
  BY VoicePipelineAssumption
<1>2. VoiceTypes'
  <2>1. todo' \in [Writers -> Seq(StepSet)]
    BY <1>1 DEF VoiceInv, VoiceTypes, Becomes
  <2>2. /\ text' \in [Voices -> {"nothing", "words", "tags"}] /\ audio' \in [Voices -> Formats]
        /\ steps' \in [Voices -> Seq(Formats)] /\ segments' \in [Voices -> Nat]
        /\ why' \in [Voices -> SUBSET Faults] /\ spoken' \in [Voices -> Seq(Formats)]
    BY DEF VoiceInv, VoiceTypes, Becomes
  <2>3. temps' \in [Voices -> SUBSET Nat] /\ \A v \in Voices : IsFiniteSet(temps'[v])
    BY DEF VoiceInv, VoiceTypes, Becomes
  <2> QED  BY <2>1, <2>2, <2>3 DEF VoiceTypes
<1>3. RecordingInv(t)'
  <2>1. /\ todo'[t] = s /\ text'[t] = heard /\ audio'[t] = a /\ steps'[t] = parts
        /\ segments'[t] = n /\ spoken'[t] = said /\ temps'[t] = files /\ why'[t] = w
    BY <1>1 DEF VoiceInv, VoiceTypes, Becomes
  <2> QED  BY <2>1 DEF RecordingInv
<1>4. ASSUME NEW u \in Voices, u # t PROVE RecordingInv(u)'
  <2>1. u \in Writers
    BY VoicePipelineAssumption
  <2>2. /\ todo'[u] = todo[u] /\ text'[u] = text[u] /\ audio'[u] = audio[u] /\ steps'[u] = steps[u]
        /\ segments'[u] = segments[u] /\ spoken'[u] = spoken[u] /\ temps'[u] = temps[u]
        /\ why'[u] = why[u]
    BY <2>1, <1>4 DEF VoiceInv, VoiceTypes, Becomes
  <2>3. RecordingInv(u)
    BY DEF VoiceInv
  <2> QED  BY <2>2, <2>3 DEF RecordingInv
<1> QED  BY <1>2, <1>3, <1>4 DEF VoiceInv

\* Nor does one of the client.
LEMMA NoVoice ==
  ASSUME VoiceInv, NEW s \in Seq(StepSet),
         todo' = [todo EXCEPT ![Client] = s],
         UNCHANGED <<text, audio, steps, segments, spoken, temps, why>>
  PROVE  VoiceInv'
<1>1. VoiceTypes'
  BY DEF VoiceInv, VoiceTypes
<1>2. ASSUME NEW u \in Voices PROVE RecordingInv(u)'
  <2>1. todo'[u] = todo[u]
    BY VoicePipelineAssumption DEF VoiceInv, VoiceTypes
  <2>2. RecordingInv(u)
    BY DEF VoiceInv
  <2> QED  BY <2>1, <2>2 DEF RecordingInv
<1> QED  BY <1>1, <1>2 DEF VoiceInv

\* What is known of a thread at one of its steps, and of its next file.
Ready(t, step) ==
  /\ todo[t] \in Seq(StepSet) /\ todo[t] # <<>> /\ todo[t][1] \in StepSet
  /\ Head(todo[t]) = todo[t][1] /\ todo[t][1][1] = step /\ Arg(t) = todo[t][1][2]
  /\ text[t] \in {"nothing", "words", "tags"} /\ audio[t] \in Formats
  /\ steps[t] \in Seq(Formats) /\ segments[t] \in Nat /\ spoken[t] \in Seq(Formats)
  /\ temps[t] \in SUBSET Nat /\ IsFiniteSet(temps[t]) /\ why[t] \in SUBSET Faults
  /\ Recording(todo[t], text[t], audio[t], steps[t], segments[t], spoken[t], temps[t], why[t])
  /\ FreshFile(t) \in Nat

\* What the invariant says of a recording whose next step is this one.
LEMMA AtStep ==
  ASSUME VoiceInv, NEW t \in Voices, NEW step, At(t, step)
  PROVE  Ready(t, step)
<1>1. t \in Writers
  BY VoicePipelineAssumption
<1>2. todo[t] \in Seq(StepSet) /\ todo[t] # <<>> /\ todo[t][1] \in StepSet
  <2>1. todo[t] \in Seq(StepSet) /\ todo[t] # <<>>
    BY <1>1 DEF VoiceInv, VoiceTypes, At
  <2> QED  BY <2>1
<1>3. Head(todo[t]) = todo[t][1] /\ todo[t][1][1] = step /\ Arg(t) = todo[t][1][2]
  BY <1>2 DEF At, Arg
<1>4. /\ text[t] \in {"nothing", "words", "tags"} /\ audio[t] \in Formats
      /\ steps[t] \in Seq(Formats) /\ segments[t] \in Nat /\ spoken[t] \in Seq(Formats)
      /\ temps[t] \in SUBSET Nat /\ IsFiniteSet(temps[t]) /\ why[t] \in SUBSET Faults
  BY DEF VoiceInv, VoiceTypes
<1>5. Recording(todo[t], text[t], audio[t], steps[t], segments[t], spoken[t], temps[t], why[t])
  BY DEF VoiceInv, RecordingInv
<1>6. FreshFile(t) \in Nat
  <2> DEFINE c == Cardinality(temps[t])
  <2>1. c \in Nat
    BY <1>4, FS_CardinalityType
  <2> HIDE DEF c
  <2>2. IsFiniteSet(1..(c + 1)) /\ Cardinality(1..(c + 1)) = c + 1
    BY <2>1, FS_Interval
  <2>3. ~ (1..(c + 1) \subseteq temps[t])
    <3> SUFFICES ASSUME 1..(c + 1) \subseteq temps[t] PROVE FALSE
      OBVIOUS
    <3>1. Cardinality(1..(c + 1)) <= Cardinality(temps[t])
      BY <1>4, FS_Subset
    <3> QED  BY <3>1, <2>1, <2>2 DEF c
  <2>4. \E f \in 1..(c + 1) : f \notin temps[t]
    BY <2>3
  <2>5. FreshFile(t) \in 1..(c + 1)
    BY <2>4 DEF FreshFile, c
  <2> QED  BY <2>5, <2>1
<1> QED  BY <1>2, <1>3, <1>4, <1>5, <1>6 DEF Ready

\* What an action leaves alone, in the form that says what becomes of one thread.
LEMMA LeftAlone ==
  ASSUME VoiceInv, NEW t \in Voices
  PROVE  /\ text = [text EXCEPT ![t] = text[t]] /\ audio = [audio EXCEPT ![t] = audio[t]]
         /\ steps = [steps EXCEPT ![t] = steps[t]] /\ segments = [segments EXCEPT ![t] = segments[t]]
         /\ spoken = [spoken EXCEPT ![t] = spoken[t]] /\ temps = [temps EXCEPT ![t] = temps[t]]
         /\ why = [why EXCEPT ![t] = why[t]]
BY DEF VoiceInv, VoiceTypes

\* One step that takes the place of another.
LEMMA OneStep ==
  ASSUME NEW step \in StepSet
  PROVE  /\ <<step>> \in Seq(StepSet) /\ Len(<<step>>) = 1 /\ <<step>> # <<>>
         /\ 1 \in 1..Len(<<step>>) /\ \A i \in 1..Len(<<step>>) : i = 1 /\ <<step>>[i] = step
OBVIOUS

\* The same for two of them,
LEMMA TwoSteps ==
  ASSUME NEW step \in StepSet, NEW next \in StepSet
  PROVE  /\ <<step, next>> \in Seq(StepSet) /\ Len(<<step, next>>) = 2
         /\ <<step, next>>[1] = step /\ <<step, next>>[2] = next
         /\ {1, 2} \subseteq 1..Len(<<step, next>>)
         /\ \A i \in 1..Len(<<step, next>>) :
              (i = 1 /\ <<step, next>>[i] = step) \/ (i = 2 /\ <<step, next>>[i] = next)
OBVIOUS

\* and for three.
LEMMA ThreeSteps ==
  ASSUME NEW step \in StepSet, NEW next \in StepSet, NEW last \in StepSet
  PROVE  /\ <<step, next, last>> \in Seq(StepSet) /\ Len(<<step, next, last>>) = 3
         /\ <<step, next, last>>[1] = step /\ <<step, next, last>>[2] = next
         /\ <<step, next, last>>[3] = last /\ {1, 2, 3} \subseteq 1..Len(<<step, next, last>>)
         /\ \A i \in 1..Len(<<step, next, last>>) :
              \/ (i = 1 /\ <<step, next, last>>[i] = step) \/ (i = 2 /\ <<step, next, last>>[i] = next)
              \/ (i = 3 /\ <<step, next, last>>[i] = last)
OBVIOUS

\* A step in front of others.
LEMMA InFront ==
  ASSUME NEW step \in StepSet, NEW next \in StepSet, NEW last \in StepSet
  PROVE  <<step>> \o <<next, last>> = <<step, next, last>>
<1> DEFINE a == <<step>>  b == <<next, last>>  c == <<step, next, last>>
<1>1. /\ a \in Seq(StepSet) /\ b \in Seq(StepSet) /\ c \in Seq(StepSet)
      /\ Len(a) = 1 /\ Len(b) = 2 /\ Len(c) = 3
      /\ a[1] = c[1] /\ b[1] = c[2] /\ b[2] = c[3]
  OBVIOUS
<1> HIDE DEF a, b, c
<1>2. PICK r : r = a \o b
  OBVIOUS
<1>3. /\ r \in Seq(StepSet) /\ Len(r) = Len(a) + Len(b)
      /\ \A i \in 1..(Len(a) + Len(b)) : r[i] = IF i <= Len(a) THEN a[i] ELSE b[i - Len(a)]
  BY <1>1, <1>2, ConcatProperties, Zenon
<1>4. r[1] = a[1] /\ r[2] = b[1] /\ r[3] = b[2] /\ Len(r) = 3
  BY <1>1, <1>3
<1>5. \A i \in 1..Len(r) : r[i] = c[i]
  <2>1. \A i \in 1..3 : i = 1 \/ i = 2 \/ i = 3
    OBVIOUS
  <2> QED  BY <2>1, <1>1, <1>4
<1>6. r = c
  BY <1>1, <1>3, <1>4, <1>5, SeqEqual
<1> QED  BY <1>2, <1>6 DEF a, b, c

\* No step in its place.
LEMMA NoStep ==
  /\ <<>> \in Seq(StepSet) /\ Len(<<>>) = 0 /\ \A i \in 1..Len(<<>>) : FALSE
  /\ Ordered(<<>>)
BY DEF Ordered

\* The input file of a filter is removed by the program's finally clause.
LEMMA OpenFilterInv ==
  ASSUME VoiceInv, NEW t \in Voices, OpenFilter(t)
  PROVE  VoiceInv'
<1> DEFINE f == FreshFile(t)  x == << <<"run", f, Arg(t)>> >>  files == temps[t] \cup {f}
<1>1. Ready(t, "filter")
  BY AtStep DEF OpenFilter
<1>2. /\ temps' = [temps EXCEPT ![t] = files] /\ files \in SUBSET Nat /\ IsFiniteSet(files)
      /\ UNCHANGED <<text, audio, steps, segments, spoken>>
  BY <1>1, FS_AddElement DEF OpenFilter, Creates, Ready, speech
<1>3. Prepares(todo[t][1]) /\ \A g : ~Owes(todo[t][1], g)
  BY <1>1 DEF Ready, Prepares, Owes
<1>4. CASE Then(t, x) /\ Fine
  <2>1. todo' = [todo EXCEPT ![t] = x \o Tail(todo[t])] /\ why' = why
    BY <1>4 DEF Then, Fine
  <2>2. <<"run", f, Arg(t)>> \in StepSet
    BY <1>1, StepKinds DEF Ready, StepSet
  <2>3. /\ x \in Seq(StepSet) /\ 1 \in 1..Len(x) /\ Owes(x[1], f) /\ \A i \in 1..Len(x) : Prepares(x[i])
        /\ Converts(todo[t][1]) => Converts(x[1])
    BY <1>1, <2>2, OneStep DEF Owes, Prepares, Converts, Ready
  <2> HIDE DEF x
  <2>4. \A g \in files : \/ g \in temps[t] /\ ~Owes(todo[t][1], g)
                         \/ \E i \in 1..Len(x) : Owes(x[i], g)
    BY <1>3, <2>3
  <2> HIDE DEF files
  <2>5. Recording(x \o Tail(todo[t]), text[t], audio[t], steps[t], segments[t], spoken[t], files, why[t])
    BY <1>1, <1>3, <2>3, <2>4, PreparesRecording DEF Ready
  <2>6. x \o Tail(todo[t]) \in Seq(StepSet)
    BY <1>1, <2>3, ThenSeq DEF Ready
  <2>7. Becomes(t, x \o Tail(todo[t]), text[t], audio[t], steps[t], segments[t], spoken[t], files, why[t])
    BY <1>2, <2>1, LeftAlone DEF Becomes
  <2> QED  BY <1>1, <1>2, <2>5, <2>6, <2>7, OneVoice DEF Ready
<1>5. CASE Fault(t, "disk") /\ Then(t, <<>>)
  <2>1. /\ todo' = [todo EXCEPT ![t] = <<>> \o Tail(todo[t])]
        /\ why' = [why EXCEPT ![t] = why[t] \cup {"disk"}] /\ why[t] \cup {"disk"} \in SUBSET Faults
    BY <1>1, <1>5 DEF Then, Fault, Faults, Ready
  <2> HIDE DEF files
  <2>2. Recording(<<>> \o Tail(todo[t]), text[t], audio[t], steps[t], segments[t], spoken[t], files,
                  why[t] \cup {"disk"})
    BY <1>1, <1>3, NoStep, PreparesRecording DEF Ready
  <2>3. <<>> \o Tail(todo[t]) \in Seq(StepSet)
    BY <1>1, NoStep, ThenSeq DEF Ready
  <2>4. Becomes(t, <<>> \o Tail(todo[t]), text[t], audio[t], steps[t], segments[t], spoken[t], files,
                why[t] \cup {"disk"})
    BY <1>2, <2>1, LeftAlone DEF Becomes
  <2> QED  BY <1>1, <1>2, <2>1, <2>2, <2>3, <2>4, OneVoice DEF Ready
<1> QED  BY <1>4, <1>5 DEF OpenFilter

\* So is a file a finally clause removes.
LEMMA RunFilterInv ==
  ASSUME VoiceInv, NEW t \in Voices, RunFilter(t)
  PROVE  VoiceInv'
<1> DEFINE files == temps[t] \ {Arg(t)}  s == todo[t]
<1>1. Ready(t, "run") /\ s[1][3] \in Filters
  BY AtStep, StepKinds DEF RunFilter, Ready
<1>2. /\ temps' = [temps EXCEPT ![t] = files] /\ files \in SUBSET Nat /\ IsFiniteSet(files)
      /\ UNCHANGED <<text, steps, segments, spoken>>
      /\ todo' = [todo EXCEPT ![t] = <<>> \o Tail(s)]
  BY <1>1, FS_RemoveElement DEF RunFilter, Unlinks, Ready, Then
<1>3. Prepares(s[1]) /\ \A g \in files : g \in temps[t] /\ ~Owes(s[1], g)
  BY <1>1 DEF Ready, Prepares, Owes
<1>4. <<>> \o Tail(s) \in Seq(StepSet)
  BY <1>1, NoStep, ThenSeq DEF Ready
<1>5. CASE audio' = [audio EXCEPT ![t] = Filtered(Head(s)[3], @)] /\ Fine
  <2> DEFINE a == Filtered(s[1][3], audio[t])
  <2>1. a \in Formats /\ (audio[t] \in Playable \/ Converts(s[1]) => a \in Playable)
    BY <1>1 DEF Filtered, Formats, Playable, Converts, Ready
  <2>2. audio' = [audio EXCEPT ![t] = a] /\ why' = why
    BY <1>1, <1>5 DEF Fine, Ready
  <2> HIDE DEF a, files
  <2>3. Recording(<<>> \o Tail(s), text[t], a, steps[t], segments[t], spoken[t], files, why[t])
    BY <1>1, <1>3, <2>1, NoStep, PreparesRecording DEF Ready
  <2>4. Becomes(t, <<>> \o Tail(s), text[t], a, steps[t], segments[t], spoken[t], files, why[t])
    BY <1>2, <2>2, LeftAlone DEF Becomes
  <2> QED  BY <1>1, <1>2, <1>4, <2>1, <2>3, <2>4, OneVoice DEF Ready
<1>6. CASE Fault(t, "ffmpeg") /\ UNCHANGED audio
  <2> DEFINE w == why[t] \cup {"ffmpeg"}
  <2>1. why' = [why EXCEPT ![t] = w] /\ w \in SUBSET Faults /\ "ffmpeg" \in w
    BY <1>1, <1>6 DEF Fault, Faults, Ready
  <2>2. why[t] \subseteq w /\ w \cap {"ffmpeg", "disk"} # {}
    OBVIOUS
  <2> HIDE DEF w, files
  <2>3. Recording(<<>> \o Tail(s), text[t], audio[t], steps[t], segments[t], spoken[t], files, w)
    BY <1>1, <1>3, <2>1, <2>2, NoStep, PreparesRecording DEF Ready
  <2>4. Becomes(t, <<>> \o Tail(s), text[t], audio[t], steps[t], segments[t], spoken[t], files, w)
    BY <1>2, <1>6, <2>1, LeftAlone DEF Becomes
  <2> QED  BY <1>1, <1>2, <1>4, <2>1, <2>3, <2>4, OneVoice DEF Ready
<1> QED  BY <1>5, <1>6 DEF RunFilter

\* The same for the finally clauses of stt_transcribe and synth_tts.
LEMMA UnlinkInv ==
  ASSUME VoiceInv, NEW t \in Voices, Unlink(t)
  PROVE  VoiceInv'
<1> DEFINE files == temps[t] \ {Arg(t)}  s == todo[t]
<1>1. Ready(t, "unlink")
  BY AtStep DEF Unlink
<1>2. /\ temps' = [temps EXCEPT ![t] = files] /\ files \in SUBSET Nat /\ IsFiniteSet(files)
      /\ UNCHANGED <<text, audio, steps, segments, spoken, why>>
      /\ todo' = [todo EXCEPT ![t] = <<>> \o Tail(s)]
  BY <1>1, FS_RemoveElement DEF Unlink, Unlinks, Ready, Then, speech
<1>3. /\ Prepares(s[1]) /\ ~Converts(s[1])
      /\ \A g \in files : g \in temps[t] /\ ~Owes(s[1], g)
  BY <1>1 DEF Ready, Prepares, Owes, Converts
<1>4. <<>> \o Tail(s) \in Seq(StepSet)
  BY <1>1, NoStep, ThenSeq DEF Ready
<1> HIDE DEF files
<1>5. Recording(<<>> \o Tail(s), text[t], audio[t], steps[t], segments[t], spoken[t], files, why[t])
  BY <1>1, <1>3, NoStep, PreparesRecording DEF Ready
<1>6. Becomes(t, <<>> \o Tail(s), text[t], audio[t], steps[t], segments[t], spoken[t], files, why[t])
  BY <1>2, LeftAlone DEF Becomes
<1> QED  BY <1>1, <1>2, <1>4, <1>5, <1>6, OneVoice DEF Ready

\* A thread that has nothing left to say has nothing left to do.
LEMMA QuietEnds ==
  ASSUME NEW s \in Seq(StepSet), s # <<>>, NEW heard, NEW a \in Formats,
         NEW parts \in Seq(Formats), NEW n \in Nat, NEW said \in Seq(Formats),
         NEW files, NEW w, NEW wN, w \subseteq wN,
         Recording(s, heard, a, parts, n, said, files, w),
         ~Prepares(s[1]), ~Voiced(s[1]), s[1][1] \in Deciding, s[1][1] # "play",
         "disk" \in wN \/ \A f \in files : ~Owes(s[1], f),
         Promises(s[1], heard) => Settled(heard, parts, said, wN)
  PROVE  Len(s) = 1 /\ Tail(s) = <<>> /\ Recording(<<>>, heard, a, parts, n, said, files, wN)
<1>1. Len(s) = 1
  <2>1. 1 \in 1..Len(s)
    OBVIOUS
  <2> QED  BY <2>1 DEF Recording, Ordered
<1>2. Tail(s) = <<>> /\ <<>> \o Tail(s) = <<>>
  BY <1>1, NoStep, LastStep
<1>3. Settled(heard, parts, said, w) => Settled(heard, parts, said, wN)
  BY DEF Settled, Fatal
<1>4. Recording(<<>> \o Tail(s), heard, a, parts, n, said, files, wN)
  BY <1>3, NoStep, QuietRecording
<1> QED  BY <1>1, <1>2, <1>4

\* A recording whose rabbit is gone ends; the others are transcribed.
LEMMA FindBunnyInv ==
  ASSUME VoiceInv, NEW t \in Voices, FindBunny(t)
  PROVE  VoiceInv'
<1> DEFINE s == todo[t]  x == << <<"store", Cue>>, <<"transcribe">> >>
<1>1. Ready(t, "bunny")
  BY AtStep DEF FindBunny
<1>2. UNCHANGED <<text, audio, steps, segments, spoken, temps>>
  BY DEF FindBunny, speech
<1>3. /\ ~Prepares(s[1]) /\ ~Voiced(s[1]) /\ s[1][1] \in Deciding /\ s[1][1] # "play"
      /\ Listens(s[1]) /\ \A f : ~Owes(s[1], f)
  BY <1>1 DEF Ready, Prepares, Voiced, Deciding, Listens, Owes
<1>4. CASE Then(t, x) /\ Fine
  <2>1. todo' = [todo EXCEPT ![t] = x \o Tail(s)] /\ why' = why
    BY <1>4 DEF Then, Fine
  <2>2. Len(s) = 1
    <3>1. 1 \in 1..Len(s)
      BY <1>1 DEF Ready
    <3> QED  BY <3>1, <1>1, <1>3 DEF Ready, Recording, Ordered
  <2>3. <<"store", Cue>> \in StepSet /\ <<"transcribe">> \in StepSet
    BY DEF StepSet, Cue
  <2>4. /\ x \in Seq(StepSet) /\ Len(x) = 2 /\ x[2] = <<"transcribe">> /\ 2 \in 1..Len(x)
        /\ \A i \in 1..Len(x) : (i = 1 /\ x[i] = <<"store", Cue>>) \/ (i = 2 /\ x[i] = <<"transcribe">>)
    BY <2>3, TwoSteps
  <2> HIDE DEF x
  <2>5. Ordered(x) /\ \A i \in 1..Len(x) : ~Voiced(x[i]) /\ x[i][1] # "play"
    BY <2>4 DEF Ordered, Deciding, Voiced, Cue, Sound
  <2>6. Promises(x[2], text[t])
    BY <2>4 DEF Promises
  <2>7. Recording(x \o Tail(s), text[t], audio[t], steps[t], segments[t], spoken[t], temps[t], why[t])
    BY <1>1, <1>3, <2>2, <2>4, <2>5, <2>6, QuietRecording DEF Ready
  <2>8. x \o Tail(s) \in Seq(StepSet)
    BY <1>1, <2>4, ThenSeq DEF Ready
  <2>9. Becomes(t, x \o Tail(s), text[t], audio[t], steps[t], segments[t], spoken[t], temps[t], why[t])
    BY <1>2, <2>1, LeftAlone DEF Becomes
  <2> QED  BY <1>1, <2>7, <2>8, <2>9, OneVoice DEF Ready
<1>5. CASE Fault(t, "offline") /\ Return(t)
  <2> DEFINE w == why[t] \cup {"offline"}
  <2>1. /\ todo' = [todo EXCEPT ![t] = <<>>] /\ why' = [why EXCEPT ![t] = w]
        /\ w \in SUBSET Faults /\ why[t] \subseteq w /\ "offline" \in w
    BY <1>1, <1>5 DEF Return, Fault, Faults, Ready
  <2> HIDE DEF w
  <2>2. Settled(text[t], steps[t], spoken[t], w)
    BY <2>1 DEF Settled, Fatal
  <2>3. Recording(<<>>, text[t], audio[t], steps[t], segments[t], spoken[t], temps[t], w)
    BY <1>1, <1>3, <2>1, <2>2, QuietEnds DEF Ready
  <2>4. Becomes(t, <<>>, text[t], audio[t], steps[t], segments[t], spoken[t], temps[t], w)
    BY <1>2, <2>1, LeftAlone DEF Becomes
  <2> QED  BY <1>1, <2>1, <2>3, <2>4, NoStep, OneVoice DEF Ready
<1> QED  BY <1>4, <1>5 DEF FindBunny

\* The file for whisper is written, or the disk is full.
LEMMA OpenForWhisperInv ==
  ASSUME VoiceInv, NEW t \in Voices, OpenForWhisper(t)
  PROVE  VoiceInv'
<1> DEFINE s == todo[t]  f == FreshFile(t)  files == temps[t] \cup {f}
           x == << <<"filter", "resample16">>, <<"write", f>> >>
<1>1. Ready(t, "transcribe")
  BY AtStep DEF OpenForWhisper
<1>2. /\ temps' = [temps EXCEPT ![t] = files] /\ files \in SUBSET Nat /\ IsFiniteSet(files)
      /\ UNCHANGED <<text, audio, steps, segments, spoken, why>>
      /\ todo' = [todo EXCEPT ![t] = x \o Tail(s)]
  BY <1>1, FS_AddElement DEF OpenForWhisper, Creates, Ready, speech, Then
<1>3. /\ ~Prepares(s[1]) /\ ~Voiced(s[1]) /\ s[1][1] \in Deciding /\ s[1][1] # "play"
      /\ Listens(s[1]) /\ \A g : ~Owes(s[1], g)
  BY <1>1 DEF Ready, Prepares, Voiced, Deciding, Listens, Owes
<1>4. Len(s) = 1
  <2>1. 1 \in 1..Len(s)
    BY <1>1 DEF Ready
  <2> QED  BY <2>1, <1>1, <1>3 DEF Ready, Recording, Ordered
<1>5. <<"filter", "resample16">> \in StepSet /\ <<"write", f>> \in StepSet
  BY <1>1 DEF StepSet, Filters, Ready
<1>6. /\ x \in Seq(StepSet) /\ Len(x) = 2 /\ x[2] = <<"write", f>> /\ 2 \in 1..Len(x)
      /\ \A i \in 1..Len(x) : (i = 1 /\ x[i] = <<"filter", "resample16">>) \/ (i = 2 /\ x[i] = <<"write", f>>)
  BY <1>5, TwoSteps
<1> HIDE DEF x
<1>7. Ordered(x) /\ \A i \in 1..Len(x) : ~Voiced(x[i]) /\ x[i][1] # "play"
  BY <1>6 DEF Ordered, Deciding, Voiced
<1>8. Promises(x[2], text[t]) /\ Owes(x[2], f)
  BY <1>6 DEF Promises, Owes
<1>9. \A g \in files : \/ g \in temps[t] /\ ~Owes(s[1], g)
                       \/ \E i \in 1..Len(x) : Owes(x[i], g)
  BY <1>3, <1>6, <1>8
<1> HIDE DEF files
<1>10. Recording(x \o Tail(s), text[t], audio[t], steps[t], segments[t], spoken[t], files, why[t])
  BY <1>1, <1>3, <1>4, <1>6, <1>7, <1>8, <1>9, QuietRecording DEF Ready
<1>11. x \o Tail(s) \in Seq(StepSet)
  BY <1>1, <1>6, ThenSeq DEF Ready
<1>12. Becomes(t, x \o Tail(s), text[t], audio[t], steps[t], segments[t], spoken[t], files, why[t])
  BY <1>2, LeftAlone DEF Becomes
<1> QED  BY <1>1, <1>2, <1>10, <1>11, <1>12, OneVoice DEF Ready

\* No finally clause is open when the recording cannot be written.
LEMMA WriteForWhisperInv ==
  ASSUME VoiceInv, NEW t \in Voices, WriteForWhisper(t)
  PROVE  VoiceInv'
<1> DEFINE s == todo[t]  x == << <<"whisper">>, <<"unlink", Arg(t)>>, <<"ask">> >>
<1>1. Ready(t, "write")
  BY AtStep DEF WriteForWhisper
<1>2. UNCHANGED <<text, audio, steps, segments, spoken, temps>>
  BY DEF WriteForWhisper, speech
<1>3. /\ ~Prepares(s[1]) /\ ~Voiced(s[1]) /\ s[1][1] \in Deciding /\ s[1][1] # "play"
      /\ Listens(s[1]) /\ \A f : Owes(s[1], f) => f = Arg(t)
  BY <1>1 DEF Ready, Prepares, Voiced, Deciding, Listens, Owes
<1>4. CASE Then(t, x) /\ Fine
  <2>1. todo' = [todo EXCEPT ![t] = x \o Tail(s)] /\ why' = why
    BY <1>4 DEF Then, Fine
  <2>2. Len(s) = 1
    <3>1. 1 \in 1..Len(s)
      BY <1>1 DEF Ready
    <3> QED  BY <3>1, <1>1, <1>3 DEF Ready, Recording, Ordered
  <2>3. <<"whisper">> \in StepSet /\ <<"unlink", Arg(t)>> \in StepSet /\ <<"ask">> \in StepSet
    BY <1>1, StepKinds DEF StepSet, Ready
  <2>4. /\ x \in Seq(StepSet) /\ Len(x) = 3 /\ {1, 2} \subseteq 1..Len(x)
        /\ x[1] = <<"whisper">> /\ x[2] = <<"unlink", Arg(t)>> /\ x[3] = <<"ask">>
        /\ \A i \in 1..Len(x) : \/ (i = 1 /\ x[i] = <<"whisper">>) \/ (i = 2 /\ x[i] = <<"unlink", Arg(t)>>)
                                \/ (i = 3 /\ x[i] = <<"ask">>)
    BY <2>3, ThreeSteps
  <2> HIDE DEF x
  <2>5. Ordered(x) /\ \A i \in 1..Len(x) : ~Voiced(x[i]) /\ x[i][1] # "play"
    BY <2>4 DEF Ordered, Deciding, Voiced
  <2>6. Promises(x[1], text[t]) /\ Owes(x[2], Arg(t))
    BY <2>4 DEF Promises, Owes
  <2>7. \A f \in temps[t] : \/ f \in temps[t] /\ ~Owes(s[1], f)
                           \/ \E i \in 1..Len(x) : Owes(x[i], f)
    BY <1>3, <2>4, <2>6
  <2>8. Recording(x \o Tail(s), text[t], audio[t], steps[t], segments[t], spoken[t], temps[t], why[t])
    <3>1. /\ s \in Seq(StepSet) /\ s # <<>> /\ audio[t] \in Formats
          /\ steps[t] \in Seq(Formats) /\ segments[t] \in Nat /\ spoken[t] \in Seq(Formats)
          /\ Recording(s, text[t], audio[t], steps[t], segments[t], spoken[t], temps[t], why[t])
      BY <1>1 DEF Ready
    <3>2. why[t] \subseteq why[t]
      OBVIOUS
    <3>3. \E i \in 1..Len(x) : Promises(x[i], text[t])
      BY <2>4, <2>6
    <3>4. /\ ~Prepares(s[1]) /\ ~Voiced(s[1]) /\ s[1][1] # "play" /\ Listens(s[1])
          /\ x \in Seq(StepSet)
      BY <1>3, <2>4
    <3>5. \/ "disk" \in why[t]
          \/ \A f \in temps[t] : (f \in temps[t] /\ ~Owes(s[1], f)) \/ \E i \in 1..Len(x) : Owes(x[i], f)
      BY <2>7
    <3> HIDE DEF s
    <3> QED  BY ONLY <3>1, <3>2, <3>3, <3>4, <3>5, <2>2, <2>5, QuietRecording
  <2>9. x \o Tail(s) \in Seq(StepSet)
    BY <1>1, <2>4, ThenSeq DEF Ready
  <2>10. Becomes(t, x \o Tail(s), text[t], audio[t], steps[t], segments[t], spoken[t], temps[t], why[t])
    BY <1>2, <2>1, LeftAlone DEF Becomes
  <2> QED  BY <1>1, <2>8, <2>9, <2>10, OneVoice DEF Ready
<1>5. CASE Fault(t, "disk") /\ Return(t)
  <2> DEFINE w == why[t] \cup {"disk"}
  <2>1. /\ why' = [why EXCEPT ![t] = w]
        /\ w \in SUBSET Faults /\ why[t] \subseteq w /\ "disk" \in w
    BY <1>1, <1>5 DEF Fault, Faults, Ready
  <2> HIDE DEF w
  <2>2. Settled(text[t], steps[t], spoken[t], w)
    BY <2>1 DEF Settled, Fatal
  <2>3. Recording(<<>>, text[t], audio[t], steps[t], segments[t], spoken[t], temps[t], w)
    BY <1>1, <1>3, <2>1, <2>2, QuietEnds DEF Ready
  <2>4. todo' = [todo EXCEPT ![t] = <<>>]
    BY <1>5 DEF Return
  <2>5. Becomes(t, <<>>, text[t], audio[t], steps[t], segments[t], spoken[t], temps[t], w)
    BY <1>2, <2>1, <2>4, LeftAlone DEF Becomes
  <2> QED  BY <1>1, <2>1, <2>3, <2>5, NoStep, OneVoice DEF Ready
<1> QED  BY <1>4, <1>5 DEF WriteForWhisper

\* Whisper hears something, or the reason for the silence is known.
LEMMA WhisperInv ==
  ASSUME VoiceInv, NEW t \in Voices, Whisper(t)
  PROVE  VoiceInv'
<1> DEFINE s == todo[t]
<1>1. Ready(t, "whisper")
  BY AtStep DEF Whisper
<1>2. /\ UNCHANGED <<audio, steps, segments, spoken, temps>>
      /\ todo' = [todo EXCEPT ![t] = <<>> \o Tail(s)]
  BY DEF Whisper, Then
<1>3. /\ ~Prepares(s[1]) /\ ~Voiced(s[1]) /\ s[1][1] # "play" /\ \A f : ~Owes(s[1], f)
  BY <1>1 DEF Ready, Prepares, Voiced, Owes
<1>4. <<>> \o Tail(s) \in Seq(StepSet)
  BY <1>1, NoStep, ThenSeq DEF Ready
<1>5. CASE text' = [text EXCEPT ![t] = "words"] /\ Fine
  <2>1. why' = why
    BY <1>5 DEF Fine
  <2>2. \E i \in 2..Len(s) : Promises(s[i], "words")
    <3>1. Len(s) \in Nat /\ Len(s) >= 1 /\ 1 \in 1..Len(s)
      BY <1>1 DEF Ready
    <3>2. s[Len(s)][1] = "ask"
      BY <1>1, <3>1 DEF Ready, Recording, Ordered
    <3>3. Len(s) \in 2..Len(s)
      BY <1>1, <3>1, <3>2 DEF Ready
    <3> QED  BY <3>2, <3>3 DEF Promises
  <2>4. Recording(<<>> \o Tail(s), "words", audio[t], steps[t], segments[t], spoken[t], temps[t], why[t])
    BY <1>1, <1>3, <2>2, NoStep, QuietRecording DEF Ready
  <2>5. Becomes(t, <<>> \o Tail(s), "words", audio[t], steps[t], segments[t], spoken[t], temps[t], why[t])
    BY <1>2, <1>5, <2>1, LeftAlone DEF Becomes
  <2> QED  BY <1>1, <1>4, <2>4, <2>5, OneVoice DEF Ready
<1>6. CASE Fault(t, "unheard") /\ UNCHANGED text
  <2> DEFINE w == why[t] \cup {"unheard"}
  <2>1. /\ why' = [why EXCEPT ![t] = w] /\ text' = text
        /\ w \in SUBSET Faults /\ why[t] \subseteq w /\ "unheard" \in w
    BY <1>1, <1>6 DEF Fault, Faults, Ready
  <2> HIDE DEF w
  <2>2. Settled(text[t], steps[t], spoken[t], w)
    BY <2>1 DEF Settled, Fatal
  <2>3. Recording(<<>> \o Tail(s), text[t], audio[t], steps[t], segments[t], spoken[t], temps[t], w)
    BY <1>1, <1>3, <2>1, <2>2, NoStep, QuietRecording DEF Ready
  <2>4. Becomes(t, <<>> \o Tail(s), text[t], audio[t], steps[t], segments[t], spoken[t], temps[t], w)
    BY <1>2, <2>1, LeftAlone DEF Becomes
  <2> QED  BY <1>1, <1>4, <2>1, <2>3, <2>4, OneVoice DEF Ready
<1> QED  BY <1>5, <1>6 DEF Whisper

\* What was heard is answered, or echoed; nothing heard is not.
LEMMA AskInv ==
  ASSUME VoiceInv, NEW t \in Voices, Ask(t)
  PROVE  VoiceInv'
<1> DEFINE s == todo[t]  x == << <<"tags">> >>
<1>1. Ready(t, "ask")
  BY AtStep DEF Ask
<1>2. UNCHANGED <<audio, steps, segments, spoken, temps>>
  BY DEF Ask
<1>3. /\ ~Prepares(s[1]) /\ ~Voiced(s[1]) /\ s[1][1] \in Deciding /\ s[1][1] # "play"
      /\ Listens(s[1]) /\ \A f : ~Owes(s[1], f)
  BY <1>1 DEF Ready, Prepares, Voiced, Deciding, Listens, Owes
<1>4. CASE text[t] = "nothing" /\ Return(t) /\ Fine /\ UNCHANGED text
  <2>1. /\ todo' = [todo EXCEPT ![t] = <<>>] /\ why' = why /\ text' = text
        /\ ~Promises(s[1], text[t])
    BY <1>1, <1>4 DEF Return, Fine, Promises, Voiced, Ready
  <2>2. Recording(<<>>, text[t], audio[t], steps[t], segments[t], spoken[t], temps[t], why[t])
    BY <1>1, <1>3, <2>1, QuietEnds DEF Ready
  <2>3. Becomes(t, <<>>, text[t], audio[t], steps[t], segments[t], spoken[t], temps[t], why[t])
    BY <1>2, <2>1, LeftAlone DEF Becomes
  <2> QED  BY <1>1, <2>2, <2>3, NoStep, OneVoice DEF Ready
<1>5. ASSUME NEW heard \in {"words", "tags"}, NEW w \in SUBSET Faults, why[t] \subseteq w,
             Then(t, x), text' = [text EXCEPT ![t] = heard], why' = [why EXCEPT ![t] = w]
      PROVE  VoiceInv'
  <2>1. todo' = [todo EXCEPT ![t] = x \o Tail(s)]
    BY <1>5 DEF Then
  <2>2. Len(s) = 1
    <3>1. 1 \in 1..Len(s)
      BY <1>1 DEF Ready
    <3> QED  BY <3>1, <1>1, <1>3 DEF Ready, Recording, Ordered
  <2>3. <<"tags">> \in StepSet
    BY DEF StepSet
  <2>4. /\ x \in Seq(StepSet) /\ Len(x) = 1 /\ 1 \in 1..Len(x) /\ x[1] = <<"tags">>
        /\ \A i \in 1..Len(x) : i = 1 /\ x[i] = <<"tags">>
    BY <2>3, OneStep
  <2> HIDE DEF x
  <2>5. Ordered(x) /\ \A i \in 1..Len(x) : ~Voiced(x[i]) /\ x[i][1] # "play"
    BY <2>4 DEF Ordered, Deciding, Voiced
  <2>6. Promises(x[1], heard)
    BY <2>4 DEF Promises
  <2>7. Recording(x \o Tail(s), heard, audio[t], steps[t], segments[t], spoken[t], temps[t], w)
    BY <1>1, <1>3, <1>5, <2>2, <2>4, <2>5, <2>6, QuietRecording DEF Ready
  <2>8. x \o Tail(s) \in Seq(StepSet)
    BY <1>1, <2>4, ThenSeq DEF Ready
  <2>9. Becomes(t, x \o Tail(s), heard, audio[t], steps[t], segments[t], spoken[t], temps[t], w)
    BY <1>2, <1>5, <2>1, LeftAlone DEF Becomes
  <2>10. heard \in {"nothing", "words", "tags"}
    OBVIOUS
  <2> QED  BY <1>1, <1>5, <2>7, <2>8, <2>9, <2>10, OneVoice DEF Ready
<1>6. CASE text[t] # "nothing" /\ Then(t, x) /\ Fault(t, "agent") /\ UNCHANGED text
  <2>1. /\ text[t] \in {"words", "tags"} /\ text' = [text EXCEPT ![t] = text[t]]
        /\ why' = [why EXCEPT ![t] = why[t] \cup {"agent"}] /\ why[t] \cup {"agent"} \in SUBSET Faults
    BY <1>1, <1>6, LeftAlone DEF Fault, Faults, Ready
  <2> QED  BY <1>5, <1>6, <2>1
<1>7. CASE Then(t, x) /\ \E reply \in {"words", "tags"} : text' = [text EXCEPT ![t] = reply] /\ Fine
  <2>1. why' = [why EXCEPT ![t] = why[t]] /\ why[t] \in SUBSET Faults
    BY <1>1, <1>7, LeftAlone DEF Fine, Ready
  <2> QED  BY <1>5, <1>7, <2>1
<1> QED  BY <1>4, <1>6, <1>7 DEF Ask

\* Words become a phrase, a reply of tags alone ends, as does one of nothing.
LEMMA RunTagsInv ==
  ASSUME VoiceInv, NEW t \in Voices, RunTags(t)
  PROVE  VoiceInv'
<1> DEFINE s == todo[t]
<1>1. Ready(t, "tags")
  BY AtStep DEF RunTags
<1>2. UNCHANGED <<text, audio, steps, spoken, temps, why>>
  BY DEF RunTags
<1>3. /\ ~Prepares(s[1]) /\ ~Voiced(s[1]) /\ s[1][1] \in Deciding /\ s[1][1] # "play"
      /\ Listens(s[1]) /\ \A f : ~Owes(s[1], f)
  BY <1>1 DEF Ready, Prepares, Voiced, Deciding, Listens, Owes
<1>4. ASSUME NEW n \in 1..MaxSegments, segments' = [segments EXCEPT ![t] = n],
             Then(t, [i \in 1..n |-> <<"synth">>] \o << <<"play">> >>)
      PROVE  VoiceInv'
  <2> DEFINE x == [i \in 1..n |-> <<"synth">>] \o << <<"play">> >>
  <2>1. todo' = [todo EXCEPT ![t] = x \o Tail(s)] /\ n \in Nat \ {0}
    BY <1>4, VoicePipelineAssumption DEF Then
  <2>2. /\ x \in Seq(StepSet)
        /\ Recording(x \o Tail(s), text[t], audio[t], steps[t], n, spoken[t], temps[t], why[t])
    BY <1>1, <2>1, RunTagsRecording DEF Ready
  <2> HIDE DEF x
  <2>3. x \o Tail(s) \in Seq(StepSet)
    BY <1>1, <2>2, ThenSeq DEF Ready
  <2>4. Becomes(t, x \o Tail(s), text[t], audio[t], steps[t], n, spoken[t], temps[t], why[t])
    BY <1>2, <1>4, <2>1, LeftAlone DEF Becomes
  <2> QED  BY <1>1, <2>1, <2>2, <2>3, <2>4, OneVoice DEF Ready
<1>5. CASE text[t] = "tags" /\ Then(t, << <<"store", Cue>> >>) /\ UNCHANGED segments
  <2> DEFINE x == << <<"store", Cue>> >>
  <2>1. todo' = [todo EXCEPT ![t] = x \o Tail(s)]
    BY <1>5 DEF Then
  <2>2. <<"store", Cue>> \in StepSet
    BY DEF StepSet, Cue
  <2>3. /\ x \in Seq(StepSet) /\ Len(x) = 1
        /\ \A i \in 1..Len(x) : i = 1 /\ x[i] = <<"store", Cue>>
    BY <2>2, OneStep
  <2> HIDE DEF x
  <2>4. /\ Ordered(x) /\ \A i \in 1..Len(x) : ~Voiced(x[i]) /\ x[i][1] # "play"
        /\ \A i \in 1..Len(x) : ~Listens(x[i]) /\ x[i][1] \notin Deciding
    BY <2>3 DEF Ordered, Deciding, Voiced, Cue, Sound, Listens
  <2>5. Settled(text[t], steps[t], spoken[t], why[t])
    BY <1>5 DEF Settled
  <2>6. Recording(x \o Tail(s), text[t], audio[t], steps[t], segments[t], spoken[t], temps[t], why[t])
    BY <1>1, <1>3, <2>3, <2>4, <2>5, QuietRecording DEF Ready
  <2>7. x \o Tail(s) \in Seq(StepSet)
    BY <1>1, <2>3, ThenSeq DEF Ready
  <2>8. Becomes(t, x \o Tail(s), text[t], audio[t], steps[t], segments[t], spoken[t], temps[t], why[t])
    BY <1>2, <1>5, <2>1, LeftAlone DEF Becomes
  <2> QED  BY <1>1, <2>6, <2>7, <2>8, OneVoice DEF Ready
<1>6. CASE text[t] = "nothing" /\ Return(t) /\ UNCHANGED segments
  <2>1. todo' = [todo EXCEPT ![t] = <<>>] /\ ~Promises(s[1], text[t])
    BY <1>1, <1>6 DEF Return, Promises, Voiced, Ready
  <2>2. Recording(<<>>, text[t], audio[t], steps[t], segments[t], spoken[t], temps[t], why[t])
    BY <1>1, <1>3, <2>1, QuietEnds DEF Ready
  <2>3. Becomes(t, <<>>, text[t], audio[t], steps[t], segments[t], spoken[t], temps[t], why[t])
    BY <1>2, <1>6, <2>1, LeftAlone DEF Becomes
  <2> QED  BY <1>1, <2>2, <2>3, NoStep, OneVoice DEF Ready
<1> QED  BY <1>4, <1>5, <1>6 DEF RunTags

\* A segment is begun with Home Assistant's bytes, or with espeak's file.
LEMMA SynthesizeInv ==
  ASSUME VoiceInv, NEW t \in Voices, Synthesize(t)
  PROVE  VoiceInv'
<1> DEFINE s == todo[t]  f == FreshFile(t)  files == temps[t] \cup {f}
<1>1. Ready(t, "synth")
  BY AtStep DEF Synthesize
<1>2. UNCHANGED <<text, steps, segments, spoken>>
  BY DEF Synthesize
<1>3. s[1][1] = "synth" /\ \A g : ~Owes(s[1], g)
  BY <1>1 DEF Ready, Owes
<1>4. CASE /\ audio' = [audio EXCEPT ![t] = "raw"]
           /\ Then(t, FromHomeAssistant) /\ Fine /\ UNCHANGED temps
  <2> DEFINE x == FromHomeAssistant
  <2>1. todo' = [todo EXCEPT ![t] = x \o Tail(s)] /\ why' = why
    BY <1>4 DEF Then, Fine
  <2>2. <<"filter", "pitch">> \in StepSet /\ <<"filter", "encode">> \in StepSet /\ <<"keep">> \in StepSet
    BY DEF StepSet, Filters
  <2>3. /\ x \in Seq(StepSet) /\ Len(x) = 3 /\ x[1] = <<"filter", "pitch">>
        /\ x[2] = <<"filter", "encode">> /\ x[3] = <<"keep">>
    BY <2>2, ThreeSteps DEF FromHomeAssistant
  <2> HIDE DEF x
  <2>4. /\ x # <<>> /\ \A i \in 1..(Len(x) - 1) : Prepares(x[i])
        /\ Delivers(x[Len(x)]) /\ x[Len(x)][1] = "keep"
        /\ \E j \in 1..(Len(x) - 1) : Converts(x[j])
    <3>1. x # <<>>
      BY <2>3
    <3>2. Prepares(x[1]) /\ Prepares(x[2]) /\ Delivers(x[3]) /\ Converts(x[2])
      BY <2>3 DEF Prepares, Delivers, Converts, Voiced
    <3>3. \A i \in 1..(Len(x) - 1) : i = 1 \/ i = 2
      BY <2>3
    <3> QED  BY <3>1, <3>2, <3>3, <2>3
  <2>5. Recording(x \o Tail(s), text[t], "raw", steps[t], segments[t], spoken[t], temps[t], why[t])
    BY <1>1, <1>3, <2>3, <2>4, HandsRecording DEF Ready
  <2>6. x \o Tail(s) \in Seq(StepSet) /\ "raw" \in Formats
    BY <1>1, <2>3, ThenSeq DEF Ready, Formats
  <2>7. Becomes(t, x \o Tail(s), text[t], "raw", steps[t], segments[t], spoken[t], temps[t], why[t])
    BY <1>2, <1>4, <2>1, LeftAlone DEF Becomes
  <2> QED  BY <1>1, <2>5, <2>6, <2>7, OneVoice DEF Ready
<1>5. CASE Creates(t) /\ Then(t, << <<"espeak", f>> >>) /\ UNCHANGED <<audio, why>>
  <2> DEFINE x == << <<"espeak", f>> >>
  <2>1. /\ todo' = [todo EXCEPT ![t] = x \o Tail(s)]
        /\ temps' = [temps EXCEPT ![t] = files] /\ files \in SUBSET Nat /\ IsFiniteSet(files)
    BY <1>1, <1>5, FS_AddElement DEF Then, Creates, Ready
  <2>2. <<"espeak", f>> \in StepSet
    BY <1>1 DEF StepSet, Ready
  <2>3. /\ x \in Seq(StepSet) /\ Len(x) = 1 /\ x[1] = <<"espeak", f>> /\ x # <<>>
        /\ 1 \in 1..Len(x) /\ \A i \in 1..(Len(x) - 1) : FALSE
    BY <2>2, OneStep
  <2> HIDE DEF x
  <2>4. Delivers(x[Len(x)]) /\ x[Len(x)][1] = "espeak" /\ Owes(x[1], f)
    BY <2>3 DEF Delivers, Voiced, Owes
  <2>5. \A g \in files : \/ g \in temps[t] /\ ~Owes(s[1], g)
                         \/ \E i \in 1..Len(x) : Owes(x[i], g)
    BY <1>3, <2>3, <2>4
  <2> HIDE DEF files
  <2>6. Recording(x \o Tail(s), text[t], audio[t], steps[t], segments[t], spoken[t], files, why[t])
    BY <1>1, <1>3, <2>3, <2>4, <2>5, HandsRecording DEF Ready
  <2>7. x \o Tail(s) \in Seq(StepSet)
    BY <1>1, <2>3, ThenSeq DEF Ready
  <2>8. Becomes(t, x \o Tail(s), text[t], audio[t], steps[t], segments[t], spoken[t], files, why[t])
    BY <1>2, <1>5, <2>1, LeftAlone DEF Becomes
  <2> QED  BY <1>1, <2>1, <2>6, <2>7, <2>8, OneVoice DEF Ready
<1> QED  BY <1>4, <1>5 DEF Synthesize

\* Espeak's file is removed, whether the segment is filtered or given up.
LEMMA EspeakInv ==
  ASSUME VoiceInv, NEW t \in Voices, Espeak(t)
  PROVE  VoiceInv'
<1> DEFINE s == todo[t]  f == Arg(t)
<1>1. Ready(t, "espeak") /\ f \in Nat /\ f = s[1][2]
  BY AtStep, StepKinds DEF Espeak, Ready
<1>2. UNCHANGED <<text, steps, segments, spoken, temps>>
  BY DEF Espeak
<1>3. Delivers(s[1]) /\ \A g : Owes(s[1], g) => g = f
  BY <1>1 DEF Ready, Owes, Delivers, Voiced
<1>4. CASE audio' = [audio EXCEPT ![t] = "wav22"] /\ Then(t, FromEspeak(f)) /\ Fine
  <2> DEFINE x == FromEspeak(f)
  <2>1. todo' = [todo EXCEPT ![t] = x \o Tail(s)] /\ why' = why
    BY <1>4 DEF Then, Fine
  <2>2. /\ <<"filter", "resample8">> \in StepSet /\ <<"filter", "pitch">> \in StepSet
        /\ <<"unlink", f>> \in StepSet /\ <<"keep">> \in StepSet
    BY <1>1 DEF StepSet, Filters
  <2>3. /\ x \in Seq(StepSet) /\ Len(x) = 4 /\ x[1] = <<"filter", "resample8">>
        /\ x[2] = <<"filter", "pitch">> /\ x[3] = <<"unlink", f>> /\ x[4] = <<"keep">>
    BY <2>2 DEF FromEspeak
  <2> HIDE DEF x
  <2>4. /\ x # <<>> /\ \A i \in 1..(Len(x) - 1) : Prepares(x[i])
        /\ Delivers(x[Len(x)]) /\ x[Len(x)][1] = "keep"
        /\ \E j \in 1..(Len(x) - 1) : Converts(x[j])
        /\ 3 \in 1..Len(x) /\ Owes(x[3], f)
    <3>1. x # <<>>
      BY <2>3
    <3>2. /\ Prepares(x[1]) /\ Prepares(x[2]) /\ Prepares(x[3]) /\ Delivers(x[4])
          /\ Converts(x[1]) /\ Owes(x[3], f)
      BY <2>3 DEF Prepares, Delivers, Converts, Voiced, Owes
    <3>3. \A i \in 1..(Len(x) - 1) : i = 1 \/ i = 2 \/ i = 3
      BY <2>3
    <3>4. 1 \in 1..(Len(x) - 1) /\ 3 \in 1..Len(x)
      BY <2>3
    <3>5. \A i \in 1..(Len(x) - 1) : Prepares(x[i])
      BY <3>2, <3>3
    <3>6. Delivers(x[Len(x)]) /\ x[Len(x)][1] = "keep"
      BY <3>2, <2>3
    <3> QED  BY <3>1, <3>2, <3>4, <3>5, <3>6
  <2>5. \A g \in temps[t] : \/ g \in temps[t] /\ ~Owes(s[1], g)
                           \/ \E i \in 1..Len(x) : Owes(x[i], g)
    BY <1>3, <2>4
  <2>6. Recording(x \o Tail(s), text[t], "wav22", steps[t], segments[t], spoken[t], temps[t], why[t])
    BY <1>1, <1>3, <2>3, <2>4, <2>5, HandsRecording DEF Ready
  <2>7. x \o Tail(s) \in Seq(StepSet) /\ "wav22" \in Formats
    BY <1>1, <2>3, ThenSeq DEF Ready, Formats
  <2>8. Becomes(t, x \o Tail(s), text[t], "wav22", steps[t], segments[t], spoken[t], temps[t], why[t])
    BY <1>2, <1>4, <2>1, LeftAlone DEF Becomes
  <2> QED  BY <1>1, <2>6, <2>7, <2>8, OneVoice DEF Ready
<1>5. CASE /\ Fault(t, "espeak") /\ UNCHANGED audio
           /\ todo' = [todo EXCEPT ![t] = << <<"unlink", f>> >>]
  <2> DEFINE x == << <<"unlink", f>> >>  w == why[t] \cup {"espeak"}
  <2>1. why' = [why EXCEPT ![t] = w] /\ w \in SUBSET Faults
    BY <1>1, <1>5 DEF Fault, Faults, Ready
  <2>2. x \in Seq(StepSet)
    <3>1. <<"unlink", f>> \in StepSet
      BY <1>1 DEF StepSet
    <3> QED  BY <3>1, OneStep
  <2>3. Recording(x, text[t], audio[t], steps[t], segments[t], spoken[t], temps[t], w)
    BY <1>1, EspeakRecording DEF Ready
  <2>4. Becomes(t, x, text[t], audio[t], steps[t], segments[t], spoken[t], temps[t], w)
    BY <1>2, <1>5, <2>1, LeftAlone DEF Becomes
  <2> HIDE DEF x, w
  <2> QED  BY <1>1, <2>1, <2>2, <2>3, <2>4, OneVoice DEF Ready
<1> QED  BY <1>4, <1>5 DEF Espeak

\* One more segment is ready.
LEMMA KeepInv ==
  ASSUME VoiceInv, NEW t \in Voices, Keep(t)
  PROVE  VoiceInv'
<1> DEFINE s == todo[t]  parts == Append(steps[t], audio[t])
<1>1. Ready(t, "keep")
  BY AtStep DEF Keep
<1>2. /\ UNCHANGED <<text, audio, segments, spoken, temps, why>>
      /\ steps' = [steps EXCEPT ![t] = parts] /\ todo' = [todo EXCEPT ![t] = <<>> \o Tail(s)]
  BY DEF Keep, Then
<1>3. parts \in Seq(Formats)
  BY <1>1, AppendFacts DEF Ready
<1>4. Recording(<<>> \o Tail(s), text[t], audio[t], parts, segments[t], spoken[t], temps[t], why[t])
  BY <1>1, <1>3, DoneRecording DEF Ready
<1>5. <<>> \o Tail(s) \in Seq(StepSet)
  BY <1>1, NoStep, ThenSeq DEF Ready
<1>6. Becomes(t, <<>> \o Tail(s), text[t], audio[t], parts, segments[t], spoken[t], temps[t], why[t])
  BY <1>2, LeftAlone DEF Becomes
<1> HIDE DEF parts
<1> QED  BY <1>1, <1>3, <1>4, <1>5, <1>6, OneVoice DEF Ready

\* One more segment goes to the rabbit.
LEMMA PlayInv ==
  ASSUME VoiceInv, NEW t \in Voices, Play(t)
  PROVE  VoiceInv'
<1> DEFINE s == todo[t]  head == Head(steps[t])  tail == Tail(steps[t])
           fade == << <<"filter", "fade">>, <<"store", Sound>>, <<"play">> >>
           plain == << <<"store", Sound>>, <<"play">> >>
<1>1. Ready(t, "play")
  BY AtStep DEF Play
<1>2. UNCHANGED <<text, segments, spoken, temps, why>>
  BY DEF Play
<1>3. /\ steps[t] = <<>> => Recording(<<>>, text[t], audio[t], steps[t], segments[t], spoken[t], temps[t], why[t])
      /\ steps[t] # <<>> =>
           /\ Recording(plain, text[t], head, tail, segments[t], spoken[t], temps[t], why[t])
           /\ Recording(fade, text[t], head, tail, segments[t], spoken[t], temps[t], why[t])
  BY <1>1, PlayRecording DEF Ready
<1>4. CASE steps[t] = <<>> /\ Return(t) /\ UNCHANGED <<audio, steps>>
  <2>1. Becomes(t, <<>>, text[t], audio[t], steps[t], segments[t], spoken[t], temps[t], why[t])
    BY <1>2, <1>4, LeftAlone DEF Becomes, Return
  <2> QED  BY <1>1, <1>3, <1>4, <2>1, NoStep, OneVoice DEF Ready
<1>5. CASE /\ steps[t] # <<>> /\ audio' = [audio EXCEPT ![t] = head] /\ steps' = [steps EXCEPT ![t] = tail]
           /\ todo' = [todo EXCEPT ![t] =
                (IF segments[t] > 1 THEN << <<"filter", "fade">> >> ELSE <<>>)
                  \o << <<"store", Sound>>, <<"play">> >>]
  <2>3. <<"filter", "fade">> \in StepSet /\ <<"store", Sound>> \in StepSet /\ <<"play">> \in StepSet
    BY DEF StepSet, Filters, Sound
  <2>4. plain \in Seq(StepSet) /\ fade \in Seq(StepSet)
    BY <2>3, TwoSteps, ThreeSteps
  <2>1. << <<"filter", "fade">> >> \o plain = fade /\ <<>> \o plain = plain
    BY <2>3, <2>4, InFront, ConcatEmptySeq
  <2>2. todo' = [todo EXCEPT ![t] = plain] \/ todo' = [todo EXCEPT ![t] = fade]
    BY <1>5, <2>1
  <2>5. head \in Formats /\ tail \in Seq(Formats)
    BY <1>1, <1>5, HeadTailProperties DEF Ready
  <2> HIDE DEF plain, fade, head, tail
  <2>6. ASSUME NEW x \in {plain, fade}, todo' = [todo EXCEPT ![t] = x] PROVE VoiceInv'
    <3>1. Recording(x, text[t], head, tail, segments[t], spoken[t], temps[t], why[t]) /\ x \in Seq(StepSet)
      BY <1>3, <1>5, <2>4
    <3>2. Becomes(t, x, text[t], head, tail, segments[t], spoken[t], temps[t], why[t])
      BY <1>2, <1>5, <2>6, LeftAlone DEF Becomes
    <3> QED  BY <1>1, <2>5, <3>1, <3>2, OneVoice DEF Ready
  <2> QED  BY <2>2, <2>6
<1> QED  BY <1>4, <1>5 DEF Play

\* What neither a thread nor its audio takes part in changes nothing of it.
LEMMA SameVoice ==
  ASSUME VoiceInv, UNCHANGED <<todo, speech, temps, spoken, why>>
  PROVE  VoiceInv'
<1>1. UNCHANGED <<todo, text, audio, steps, segments, temps, spoken, why>>
  BY DEF speech
<1>2. VoiceTypes'
  BY <1>1 DEF VoiceInv, VoiceTypes
<1>3. \A v \in Voices : RecordingInv(v)'
  BY <1>1 DEF VoiceInv, RecordingInv
<1> QED  BY <1>2, <1>3 DEF VoiceInv

\* Whose turn it is in the store has an entry of its own, with a token.
LEMMA ReleaseToken ==
  ASSUME Inv, NEW t \in Writers, Release(t)
  PROVE  /\ pending[t] # <<>> /\ pending[t][1] \in Entry /\ pending[t][1].token \in Nat
         /\ RES_LOCK = t /\ RES_LOCK # "free"
<1>1. RES_LOCK = t /\ t # "free"
  BY ResourceStoreAssumption DEF Release
<1>2. pending[t] # <<>> /\ pending[t] \in Seq(Entry)
  BY <1>1 DEF Inv, LockInv, TypeInv
<1>3. pending[t][1] \in Entry
  BY <1>2
<1> QED  BY <1>1, <1>2, <1>3 DEF Entry

\* Once a sound is stored its program is pushed.
LEMMA StoreVoiceInv ==
  ASSUME Inv, VoiceInv, NEW t \in Voices, Store(t)
  PROVE  VoiceInv'
<1> DEFINE s == todo[t]  token == pending[t][1].token  x == << <<"push", token, Arg(t)>> >>
<1>1. Ready(t, "store") /\ t \in Writers
  BY AtStep, VoicePipelineAssumption DEF Store
<1>2. UNCHANGED <<speech, temps, spoken, why>> /\ UNCHANGED <<text, audio, steps, segments>>
  BY DEF Store, speech
<1>3. CASE UNCHANGED todo
  BY <1>2, <1>3, SameVoice
<1>4. CASE Release(t) /\ Then(t, x)
  <2>1. token \in Nat /\ Arg(t) \in Nat /\ Arg(t) = s[1][2]
    BY <1>1, <1>4, ReleaseToken, StepKinds DEF Ready
  <2>2. todo' = [todo EXCEPT ![t] = x \o Tail(s)]
    BY <1>4 DEF Then
  <2>3. <<"push", token, Arg(t)>> \in StepSet
    BY <2>1 DEF StepSet
  <2>4. /\ x \in Seq(StepSet) /\ Len(x) = 1 /\ 1 \in 1..Len(x) /\ x # <<>>
        /\ \A i \in 1..Len(x) : i = 1 /\ x[i] = <<"push", token, Arg(t)>>
    BY <2>3, OneStep
  <2> HIDE DEF x
  <2>5. x[1][1] = "push" /\ x[1][3] = Arg(t)
    BY <2>4
  <2>6. \A g : ~Owes(s[1], g)
    BY <1>1 DEF Ready, Owes
  <2>7. Recording(x \o Tail(s), text[t], audio[t], steps[t], segments[t], spoken[t], temps[t], why[t])
    <3>1. CASE Arg(t) = Sound
      <4>1. Delivers(s[1]) /\ s[1][1] = "store" /\ Delivers(x[Len(x)]) /\ x[Len(x)][1] = "push"
        BY <1>1, <2>1, <2>4, <2>5, <3>1 DEF Delivers, Voiced, Ready
      <4>2. \A i \in 1..(Len(x) - 1) : FALSE
        BY <2>4
      <4> QED  BY <1>1, <2>4, <2>6, <4>1, <4>2, HandsRecording DEF Ready
    <3>2. CASE Arg(t) # Sound
      <4>1. ~Prepares(s[1]) /\ ~Voiced(s[1]) /\ s[1][1] # "play"
        BY <1>1, <2>1, <3>2 DEF Prepares, Voiced, Ready
      <4>2. \A i \in 1..Len(x) : /\ ~Voiced(x[i]) /\ x[i][1] # "play" /\ ~Listens(x[i])
                                /\ x[i][1] \notin Deciding
        BY <2>4, <2>5, <3>2 DEF Voiced, Listens, Deciding
      <4>3. Ordered(x)
        BY <2>4, <4>2 DEF Ordered
      <4>4. ~Promises(s[1], text[t])
        BY <1>1, <4>1 DEF Promises, Ready
      <4>5. /\ s \in Seq(StepSet) /\ s # <<>> /\ audio[t] \in Formats
            /\ steps[t] \in Seq(Formats) /\ segments[t] \in Nat /\ spoken[t] \in Seq(Formats)
            /\ Recording(s, text[t], audio[t], steps[t], segments[t], spoken[t], temps[t], why[t])
        BY <1>1 DEF Ready
      <4>6. /\ why[t] \subseteq why[t] /\ (text[t] # "nothing" => text[t] # "nothing")
            /\ \A f \in temps[t] : f \in temps[t] /\ ~Owes(s[1], f)
        BY <2>6
      <4> HIDE DEF s
      <4> QED  BY ONLY <2>4, <4>1, <4>2, <4>3, <4>4, <4>5, <4>6, QuietRecording
    <3> QED  BY <3>1, <3>2
  <2>8. x \o Tail(s) \in Seq(StepSet)
    BY <1>1, <2>4, ThenSeq DEF Ready
  <2>9. Becomes(t, x \o Tail(s), text[t], audio[t], steps[t], segments[t], spoken[t], temps[t], why[t])
    BY <1>2, <2>2, LeftAlone DEF Becomes
  <2> QED  BY <1>1, <2>7, <2>8, <2>9, OneVoice DEF Ready
<1> QED  BY <1>3, <1>4 DEF Store

\* A sound that is pushed is said.
LEMMA PushVoiceInv ==
  ASSUME VoiceInv, NEW t \in Voices, Push(t)
  PROVE  VoiceInv'
<1> DEFINE s == todo[t]
<1>1. Ready(t, "push")
  BY AtStep DEF Push
<1>2. /\ UNCHANGED <<temps, why>> /\ UNCHANGED <<text, audio, steps, segments>>
      /\ todo' = [todo EXCEPT ![t] = <<>> \o Tail(s)]
  BY DEF Push, speech, Then
<1>3. <<>> \o Tail(s) \in Seq(StepSet)
  BY <1>1, NoStep, ThenSeq DEF Ready
<1>4. CASE s[1][3] = Sound
  <2> DEFINE said == Append(spoken[t], audio[t])
  <2>1. spoken' = [spoken EXCEPT ![t] = said]
    BY <1>1, <1>4 DEF Push, Ready
  <2>2. said \in Seq(Formats)
    BY <1>1, AppendFacts DEF Ready
  <2>3. Recording(<<>> \o Tail(s), text[t], audio[t], steps[t], segments[t], said, temps[t], why[t])
    BY <1>1, <1>4, <2>2, DoneRecording DEF Ready
  <2>4. Becomes(t, <<>> \o Tail(s), text[t], audio[t], steps[t], segments[t], said, temps[t], why[t])
    BY <1>2, <2>1, LeftAlone DEF Becomes
  <2> HIDE DEF said
  <2> QED  BY <1>1, <1>3, <2>2, <2>3, <2>4, OneVoice DEF Ready
<1>5. CASE s[1][3] # Sound
  <2>1. spoken' = spoken
    BY <1>1, <1>5 DEF Push, Ready
  <2>2. /\ ~Prepares(s[1]) /\ ~Voiced(s[1]) /\ s[1][1] # "play" /\ \A g : ~Owes(s[1], g)
        /\ ~Promises(s[1], text[t])
    BY <1>1, <1>5 DEF Prepares, Voiced, Owes, Promises, Ready
  <2>3. Recording(<<>> \o Tail(s), text[t], audio[t], steps[t], segments[t], spoken[t], temps[t], why[t])
    BY <1>1, <2>2, NoStep, QuietRecording DEF Ready
  <2>4. Becomes(t, <<>> \o Tail(s), text[t], audio[t], steps[t], segments[t], spoken[t], temps[t], why[t])
    BY <1>2, <2>1, LeftAlone DEF Becomes
  <2> QED  BY <1>1, <1>3, <2>3, <2>4, OneVoice DEF Ready
<1> QED  BY <1>4, <1>5

\* The client's requests are no recording.
LEMMA ClientVoiceInv ==
  ASSUME Inv, VoiceInv, Store(Client) \/ Push(Client) \/ Request
  PROVE  VoiceInv'
<1>1. Client \in Writers /\ Client \notin Voices /\ todo[Client] \in Seq(StepSet)
  BY VoicePipelineAssumption DEF VoiceInv, VoiceTypes
<1>2. ASSUME todo[Client] # <<>>
      PROVE  Head(todo[Client]) = todo[Client][1] /\ todo[Client][1] \in StepSet
  BY <1>1, <1>2
<1>3. CASE Store(Client)
  <2>1. UNCHANGED <<speech, temps, spoken, why>> /\ UNCHANGED <<text, audio, steps, segments>>
    BY <1>3 DEF Store, speech
  <2>2. CASE UNCHANGED todo
    BY <2>1, <2>2, SameVoice
  <2>3. CASE /\ Release(Client)
             /\ Then(Client, << <<"push", pending[Client][1].token, Arg(Client)>> >>)
    <3> DEFINE x == << <<"push", pending[Client][1].token, Arg(Client)>> >>
    <3>1. todo' = [todo EXCEPT ![Client] = x \o Tail(todo[Client])]
      BY <2>3 DEF Then
    <3>2. todo[Client] # <<>> /\ Arg(Client) \in Nat /\ pending[Client][1].token \in Nat
      <4>1. todo[Client] # <<>> /\ todo[Client][1][1] = "store" /\ Arg(Client) = todo[Client][1][2]
        BY <1>2, <1>3 DEF Store, At, Arg
      <4> QED  BY <1>1, <1>2, <2>3, <4>1, StepKinds, ReleaseToken
    <3>3. <<"push", pending[Client][1].token, Arg(Client)>> \in StepSet
      BY <3>2 DEF StepSet
    <3>4. x \in Seq(StepSet)
      BY <3>3, OneStep
    <3> HIDE DEF x
    <3>5. x \o Tail(todo[Client]) \in Seq(StepSet)
      BY <1>1, <3>2, <3>4, ThenSeq
    <3> QED  BY <2>1, <3>1, <3>5, NoVoice
  <2> QED  BY <1>3, <2>2, <2>3 DEF Store
<1>4. CASE Push(Client)
  <2>1. /\ todo' = [todo EXCEPT ![Client] = <<>> \o Tail(todo[Client])] /\ todo[Client] # <<>>
        /\ UNCHANGED <<text, audio, steps, segments, spoken, temps, why>>
    BY <1>1, <1>4 DEF Push, Then, At, speech
  <2>2. <<>> \o Tail(todo[Client]) \in Seq(StepSet)
    BY <1>1, <2>1, NoStep, ThenSeq
  <2> QED  BY <2>1, <2>2, NoVoice
<1>5. CASE Request
  <2>1. UNCHANGED <<text, audio, steps, segments, spoken, temps, why>>
    BY <1>5 DEF Request, speech
  <2>2. PICK size \in {Cue, Sound, Podcast} : todo' = [todo EXCEPT ![Client] = << <<"store", size>> >>]
    BY <1>5 DEF Request
  <2>3. <<"store", size>> \in StepSet
    BY ResourceStoreAssumption DEF StepSet, Cue, Sound, Podcast
  <2>4. << <<"store", size>> >> \in Seq(StepSet)
    BY <2>3, OneStep
  <2> QED  BY <2>1, <2>2, <2>4, NoVoice
<1> QED  BY <1>3, <1>4, <1>5
-----------------------------------------------------------------------------
(* The tokens in the threads, in the programs and in what was refused.     *)

\* Steps without a push bring no token with them.
LEMMA NoPushThen ==
  ASSUME NEW s \in Seq(StepSet), s # <<>>, NEW x \in Seq(StepSet),
         \A i \in 1..Len(x) : x[i][1] # "push"
  PROVE  \A i \in 1..Len(x \o Tail(s)) :
           (x \o Tail(s))[i][1] = "push" => \E j \in 1..Len(s) : (x \o Tail(s))[i] = s[j]
<1> SUFFICES ASSUME NEW i \in 1..Len(x \o Tail(s)), (x \o Tail(s))[i][1] = "push"
             PROVE  \E j \in 1..Len(s) : (x \o Tail(s))[i] = s[j]
  OBVIOUS
<1>1. i \notin 1..Len(x)
  BY ThenSeq
<1>2. PICK j \in 2..Len(s) : i = Len(x) + j - 1
  BY <1>1, ThenSeq
<1>3. (x \o Tail(s))[i] = s[j] /\ j \in 1..Len(s)
  BY <1>2, ThenSeq
<1> QED  BY <1>3

\* Of a recording's steps only the store brings a token in.
Carries(t, s) ==
  \A i \in 1..Len(s) : s[i][1] = "push" => \E j \in 1..Len(todo[t]) : s[i] = todo[t][j]

\* Steps that bring in no token may take the place of the first one,
LEMMA CarriesThen ==
  ASSUME NEW t, todo[t] \in Seq(StepSet), todo[t] # <<>>, NEW x \in Seq(StepSet),
         \A i \in 1..Len(x) : x[i][1] # "push"
  PROVE  Carries(t, x \o Tail(todo[t]))
BY NoPushThen DEF Carries

\* or of all that was left.
LEMMA CarriesNone ==
  ASSUME NEW t, NEW x \in Seq(StepSet), \A i \in 1..Len(x) : x[i][1] # "push"
  PROVE  Carries(t, x)
BY DEF Carries

\* None of the steps of a recording but the store brings in a token.
LEMMA VoiceCarries ==
  ASSUME VoiceInv, NEW t \in Voices, Voice(t)
  PROVE  \E s : todo' = [todo EXCEPT ![t] = s] /\ Carries(t, s)
<1> DEFINE s == todo[t]
<1>1. ASSUME NEW x \in Seq(StepSet), s \in Seq(StepSet), s # <<>>, Then(t, x),
             \A i \in 1..Len(x) : x[i][1] # "push"
      PROVE  \E r : todo' = [todo EXCEPT ![t] = r] /\ Carries(t, r)
  BY <1>1, CarriesThen DEF Then
<1>2. ASSUME NEW x \in Seq(StepSet), todo' = [todo EXCEPT ![t] = x],
             \A i \in 1..Len(x) : x[i][1] # "push"
      PROVE  \E r : todo' = [todo EXCEPT ![t] = r] /\ Carries(t, r)
  BY <1>2, CarriesNone
<1>3. ASSUME NEW step, At(t, step) PROVE s \in Seq(StepSet) /\ s # <<>>
  BY <1>3, AtStep DEF Ready
<1>4. ASSUME s \in Seq(StepSet), s # <<>>, Then(t, <<>>)
      PROVE  \E r : todo' = [todo EXCEPT ![t] = r] /\ Carries(t, r)
  BY <1>1, <1>4, NoStep
<1>5. ASSUME Return(t)
      PROVE  \E r : todo' = [todo EXCEPT ![t] = r] /\ Carries(t, r)
  BY <1>2, <1>5, NoStep DEF Return
<1>6. ASSUME NEW step \in StepSet, step[1] # "push", s \in Seq(StepSet), s # <<>>, Then(t, <<step>>)
      PROVE  \E r : todo' = [todo EXCEPT ![t] = r] /\ Carries(t, r)
  BY <1>1, <1>6, OneStep
<1>7. ASSUME NEW step \in StepSet, step[1] # "push", NEW next \in StepSet, next[1] # "push",
             s \in Seq(StepSet), s # <<>>, Then(t, <<step, next>>)
      PROVE  \E r : todo' = [todo EXCEPT ![t] = r] /\ Carries(t, r)
  <2>1. <<step, next>> \in Seq(StepSet) /\ \A i \in 1..Len(<<step, next>>) : <<step, next>>[i][1] # "push"
    BY <1>7, TwoSteps
  <2> QED  BY <1>1, <1>7, <2>1
<1>8. CASE OpenFilter(t)
  <2>1. s \in Seq(StepSet) /\ s # <<>> /\ <<"run", FreshFile(t), Arg(t)>> \in StepSet
    BY <1>8, AtStep, StepKinds DEF OpenFilter, Ready, StepSet
  <2> QED  BY <1>4, <1>6, <1>8, <2>1 DEF OpenFilter
<1>9. CASE RunFilter(t) \/ Unlink(t) \/ Whisper(t) \/ Keep(t)
  BY <1>3, <1>4, <1>9 DEF RunFilter, Unlink, Whisper, Keep
<1>10. CASE FindBunny(t)
  <2>1. <<"store", Cue>> \in StepSet /\ <<"transcribe">> \in StepSet
    BY DEF StepSet, Cue
  <2> QED  BY <1>3, <1>5, <1>7, <1>10, <2>1 DEF FindBunny
<1>11. CASE OpenForWhisper(t)
  <2>1. <<"filter", "resample16">> \in StepSet /\ <<"write", FreshFile(t)>> \in StepSet
    BY <1>11, AtStep DEF OpenForWhisper, StepSet, Filters, Ready
  <2> QED  BY <1>3, <1>7, <1>11, <2>1 DEF OpenForWhisper
<1>12. CASE WriteForWhisper(t)
  <2> DEFINE x == << <<"whisper">>, <<"unlink", Arg(t)>>, <<"ask">> >>
  <2>1. Ready(t, "write")
    BY <1>12, AtStep DEF WriteForWhisper
  <2>2. <<"whisper">> \in StepSet /\ <<"unlink", Arg(t)>> \in StepSet /\ <<"ask">> \in StepSet
    BY <2>1, StepKinds DEF StepSet, Ready
  <2>3. x \in Seq(StepSet) /\ \A i \in 1..Len(x) : x[i][1] # "push"
    BY <2>2, ThreeSteps
  <2> HIDE DEF x
  <2>4. Then(t, x) \/ Return(t)
    BY <1>12 DEF WriteForWhisper, x
  <2> QED  BY <1>1, <1>5, <2>1, <2>3, <2>4 DEF Ready
<1>13. CASE Ask(t)
  <2>1. <<"tags">> \in StepSet
    BY DEF StepSet
  <2> QED  BY <1>3, <1>5, <1>6, <1>13, <2>1 DEF Ask
<1>14. CASE RunTags(t)
  <2>1. Ready(t, "tags")
    BY <1>14, AtStep DEF RunTags
  <2>2. CASE Then(t, << <<"store", Cue>> >>) \/ Return(t)
    <3>1. <<"store", Cue>> \in StepSet
      BY DEF StepSet, Cue
    <3> QED  BY <1>5, <1>6, <2>1, <2>2, <3>1 DEF Ready
  <2>3. ASSUME NEW n \in 1..MaxSegments, Then(t, [i \in 1..n |-> <<"synth">>] \o << <<"play">> >>)
        PROVE  \E r : todo' = [todo EXCEPT ![t] = r] /\ Carries(t, r)
    <3> DEFINE x == [i \in 1..n |-> <<"synth">>] \o << <<"play">> >>
    <3>1. n \in Nat \ {0}
      BY VoicePipelineAssumption
    <3>2. x \in Seq(StepSet) /\ \A i \in 1..Len(x) : x[i][1] # "push"
      BY <3>1, PhraseSteps
    <3> HIDE DEF x
    <3>3. Then(t, x)
      BY <2>3 DEF x
    <3> QED  BY <1>1, <2>1, <3>2, <3>3 DEF Ready
  <2> QED  BY <1>14, <2>2, <2>3 DEF RunTags
<1>15. CASE Synthesize(t)
  <2>1. Ready(t, "synth")
    BY <1>15, AtStep DEF Synthesize
  <2>2. CASE Then(t, FromHomeAssistant)
    <3> DEFINE x == FromHomeAssistant
    <3>1. <<"filter", "pitch">> \in StepSet /\ <<"filter", "encode">> \in StepSet /\ <<"keep">> \in StepSet
      BY DEF StepSet, Filters
    <3>2. x \in Seq(StepSet) /\ \A i \in 1..Len(x) : x[i][1] # "push"
      BY <3>1, ThreeSteps DEF FromHomeAssistant
    <3> HIDE DEF x
    <3>3. Then(t, x)
      BY <2>2 DEF x
    <3> QED  BY <1>1, <2>1, <3>2, <3>3 DEF Ready
  <2>3. CASE Then(t, << <<"espeak", FreshFile(t)>> >>)
    <3>1. <<"espeak", FreshFile(t)>> \in StepSet
      BY <2>1 DEF StepSet, Ready
    <3> QED  BY <1>6, <2>1, <2>3, <3>1 DEF Ready
  <2> QED  BY <1>15, <2>2, <2>3 DEF Synthesize
<1>16. CASE Espeak(t)
  <2>1. Ready(t, "espeak") /\ Arg(t) \in Nat
    BY <1>16, AtStep, StepKinds DEF Espeak, Ready
  <2>2. /\ <<"filter", "resample8">> \in StepSet /\ <<"filter", "pitch">> \in StepSet
        /\ <<"unlink", Arg(t)>> \in StepSet /\ <<"keep">> \in StepSet
    BY <2>1 DEF StepSet, Filters
  <2>3. CASE Then(t, FromEspeak(Arg(t)))
    <3> DEFINE x == FromEspeak(Arg(t))
    <3>1. x \in Seq(StepSet) /\ \A i \in 1..Len(x) : x[i][1] # "push"
      BY <2>2 DEF FromEspeak
    <3> HIDE DEF x
    <3>3. Then(t, x)
      BY <2>3 DEF x
    <3> QED  BY <1>1, <2>1, <3>1, <3>3 DEF Ready
  <2>4. CASE todo' = [todo EXCEPT ![t] = << <<"unlink", Arg(t)>> >>]
    <3> DEFINE x == << <<"unlink", Arg(t)>> >>
    <3>1. x \in Seq(StepSet) /\ \A i \in 1..Len(x) : x[i] = <<"unlink", Arg(t)>>
      BY <2>2, OneStep
    <3> HIDE DEF x
    <3>2. \A i \in 1..Len(x) : x[i][1] # "push"
      BY <3>1
    <3>3. todo' = [todo EXCEPT ![t] = x]
      BY <2>4 DEF x
    <3> QED  BY <1>2, <3>1, <3>2, <3>3
  <2> QED  BY <1>16, <2>3, <2>4 DEF Espeak
<1>17. CASE Play(t)
  <2> DEFINE plain == << <<"store", Sound>>, <<"play">> >>
             fade == << <<"filter", "fade">>, <<"store", Sound>>, <<"play">> >>
  <2>1. <<"filter", "fade">> \in StepSet /\ <<"store", Sound>> \in StepSet /\ <<"play">> \in StepSet
    BY DEF StepSet, Filters, Sound
  <2>2. plain \in Seq(StepSet) /\ \A i \in 1..Len(plain) : plain[i][1] # "push"
    BY <2>1, TwoSteps
  <2>3. fade \in Seq(StepSet) /\ \A i \in 1..Len(fade) : fade[i][1] # "push"
    BY <2>1, ThreeSteps
  <2>4. << <<"filter", "fade">> >> \o plain = fade /\ <<>> \o plain = plain
    BY <2>1, <2>2, InFront, ConcatEmptySeq
  <2>5. \/ Return(t) \/ todo' = [todo EXCEPT ![t] = plain] \/ todo' = [todo EXCEPT ![t] = fade]
    BY <1>17, <2>4 DEF Play
  <2> HIDE DEF plain, fade
  <2> QED  BY <1>2, <1>5, <2>2, <2>3, <2>5
<1> QED  BY <1>8, <1>9, <1>10, <1>11, <1>12, <1>13, <1>14, <1>15, <1>16, <1>17 DEF Voice

\* What has a name keeps it: tokens are only ever added to the history.
LEMMA TokensGrow ==
  ASSUME Inv, Inv', stored' = stored \/ \E e : stored' = Append(stored, e),
         RES_DROPPED' >= RES_DROPPED
  PROVE  /\ Tokens(Len(stored)) \subseteq Tokens(Len(stored))'
         /\ Tokens(RES_DROPPED) \subseteq Tokens(RES_DROPPED)'
<1>1. /\ stored \in Seq(Stored) /\ Len(stored) \in Nat
      /\ RES_DROPPED \in Nat /\ RES_DROPPED' \in Nat /\ Len(RESOURCES) \in Nat
  BY DEF Inv, TypeInv
<1>2. RES_DROPPED <= Len(stored)
  BY <1>1 DEF Inv, Suffix
<1>3. \A i \in 1..Len(stored) : i \in 1..Len(stored') /\ stored'[i] = stored[i]
  <2>1. CASE stored' = stored
    BY <2>1
  <2>2. ASSUME NEW e, stored' = Append(stored, e)
        PROVE  \A i \in 1..Len(stored) : i \in 1..Len(stored') /\ stored'[i] = stored[i]
    BY <2>2, <1>1
  <2> QED  BY <2>1, <2>2
<1>4. ASSUME NEW i \in 1..RES_DROPPED
      PROVE  i \in 1..Len(stored) /\ i \in 1..RES_DROPPED'
  BY <1>1, <1>2
<1> QED  BY <1>3, <1>4 DEF Tokens

\* A recording that does nothing with the store names nothing new.
LEMMA VoiceNamed ==
  ASSUME Inv, VoiceInv, Named, NEW t \in Voices, Voice(t)
  PROVE  Named'
<1>1. UNCHANGED storeVars /\ UNCHANGED <<programs, missed>>
  BY DEF Voice, OpenFilter, RunFilter, Unlink, FindBunny, OpenForWhisper, WriteForWhisper, Whisper,
         Ask, RunTags, Synthesize, Espeak, Keep, Play, world
<1>2. UNCHANGED <<RES_LOCK, pending, stored, RES_DROPPED>>
  BY <1>1 DEF storeVars
<1>3. PICK s : todo' = [todo EXCEPT ![t] = s] /\ Carries(t, s)
  BY VoiceCarries
<1>4. t \in Writers /\ todo \in [Writers -> Seq(StepSet)]
  BY VoicePipelineAssumption DEF VoiceInv, VoiceTypes
<1>5. ASSUME NEW u \in Writers, NEW i \in 1..Len(todo'[u]), todo'[u][i][1] = "push"
      PROVE  todo'[u][i][2] \in Tokens(Len(stored))
  <2>1. CASE u = t
    <3>1. todo'[t] = s
      BY <1>3, <1>4
    <3>2. PICK j \in 1..Len(todo[t]) : s[i] = todo[t][j]
      BY <1>3, <1>5, <2>1, <3>1 DEF Carries
    <3> QED  BY <1>4, <1>5, <2>1, <3>1, <3>2 DEF Named
  <2>2. CASE u # t
    <3>1. todo'[u] = todo[u]
      BY <1>3, <1>4, <2>2
    <3> QED  BY <1>5, <3>1 DEF Named
  <2> QED  BY <2>1, <2>2
<1> QED  BY <1>1, <1>2, <1>5 DEF Named, Tokens

\* The thread in the store's critical section has its token there, and hands it
\* to the program it pushes.
LEMMA StoreNamed ==
  ASSUME Inv, Inv', VoiceInv, Named, NEW t \in Writers, Store(t)
  PROVE  Named'
<1>1. /\ UNCHANGED <<programs, missed>> /\ At(t, "store")
      /\ todo \in [Writers -> Seq(StepSet)] /\ pending \in [Writers -> Seq(Entry)] /\ t # "free"
  BY ResourceStoreAssumption DEF Store, world, VoiceInv, VoiceTypes, Inv, TypeInv
<1>2. CASE UNCHANGED todo /\ Stamp(t, Arg(t))
  <2>1. /\ UNCHANGED <<RES_LOCK, stored, RES_DROPPED>> /\ pending[t] = <<>>
        /\ \A w \in Writers : w # t => pending'[w] = pending[w]
    BY <1>1, <1>2 DEF Stamp
  <2>2. RES_LOCK # "free" => RES_LOCK # t /\ RES_LOCK \in Writers
    BY <2>1 DEF Inv, LockInv, TypeInv
  <2>3. RES_LOCK # "free" => pending'[RES_LOCK] = pending[RES_LOCK]
    BY <2>1, <2>2
  <2>4. Tokens(Len(stored))' = Tokens(Len(stored)) /\ Tokens(RES_DROPPED)' = Tokens(RES_DROPPED)
    BY <2>1 DEF Tokens
  <2>5. RES_LOCK' # "free" => pending'[RES_LOCK'][1].token \in Tokens(Len(stored))
    BY <2>1, <2>3 DEF Named
  <2> QED  BY <1>1, <1>2, <2>4, <2>5 DEF Named
<1>3. CASE UNCHANGED todo /\ Insert(t)
  <2>1. /\ stored' = Append(stored, NewEntry(t)) /\ RES_LOCK' = t
        /\ UNCHANGED <<RES_DROPPED, pending>> /\ stored \in Seq(Stored) /\ RES_DROPPED \in Nat
    BY <1>3 DEF Insert, Inv, TypeInv
  <2>2. /\ Tokens(Len(stored)) \subseteq Tokens(Len(stored))'
        /\ Tokens(RES_DROPPED) \subseteq Tokens(RES_DROPPED)'
    BY <2>1, TokensGrow
  <2>3. Len(stored') \in 1..Len(stored') /\ stored'[Len(stored')] = NewEntry(t)
    BY <2>1
  <2>4. stored'[Len(stored')].token = pending[t][1].token
    BY <2>3 DEF NewEntry
  <2>5. pending'[RES_LOCK'][1].token \in Tokens(Len(stored))'
    BY <2>1, <2>3, <2>4 DEF Tokens
  <2> QED  BY <1>1, <1>3, <2>2, <2>5 DEF Named
<1>4. CASE UNCHANGED todo /\ Evict(t)
  <2>1. UNCHANGED <<RES_LOCK, pending, stored>> /\ RES_DROPPED' = RES_DROPPED + 1 /\ RES_DROPPED \in Nat
    BY <1>4 DEF Evict, Inv, TypeInv
  <2>2. Tokens(RES_DROPPED) \subseteq Tokens(RES_DROPPED)' /\ Tokens(Len(stored))' = Tokens(Len(stored))
    BY <2>1, TokensGrow DEF Tokens
  <2> QED  BY <1>1, <1>4, <2>1, <2>2 DEF Named
<1>5. CASE Release(t) /\ Then(t, << <<"push", pending[t][1].token, Arg(t)>> >>)
  <2> DEFINE s == todo[t]  token == pending[t][1].token  x == << <<"push", token, Arg(t)>> >>
             r == x \o Tail(s)
  <2>1. /\ UNCHANGED <<stored, RES_DROPPED>> /\ RES_LOCK = t /\ RES_LOCK' = "free"
        /\ todo' = [todo EXCEPT ![t] = r] /\ s # <<>> /\ s \in Seq(StepSet)
    BY <1>1, <1>5 DEF Release, Then, At
  <2>2. token \in Tokens(Len(stored))
    BY <1>1, <2>1 DEF Named
  <2>3. token \in Nat /\ Arg(t) \in Nat
    <3>1. s[1] \in StepSet /\ s[1][1] = "store" /\ Arg(t) = s[1][2]
      BY <1>1, <2>1 DEF At, Arg
    <3> QED  BY <1>5, <3>1, StepKinds, ReleaseToken
  <2>4. x \in Seq(StepSet) /\ Len(x) = 1 /\ \A i \in 1..Len(x) : x[i] = <<"push", token, Arg(t)>>
    <3>1. <<"push", token, Arg(t)>> \in StepSet
      BY <2>3 DEF StepSet
    <3> QED  BY <3>1, OneStep
  <2> HIDE DEF x
  <2>5. ASSUME NEW i \in 1..Len(r), r[i][1] = "push" PROVE r[i][2] \in Tokens(Len(stored))
    <3>0. s # <<>> /\ s \in Seq(StepSet) /\ x \in Seq(StepSet)
      BY <2>1, <2>4
    <3>1. CASE i \in 1..Len(x)
      <4>1. r[i] = x[i]
        BY <3>0, <3>1, ThenSeq
      <4>2. r[i][2] = token
        BY <2>4, <3>1, <4>1
      <4> QED  BY <2>2, <4>2
    <3>2. CASE i \notin 1..Len(x)
      <4>1. PICK j \in 2..Len(s) : i = Len(x) + j - 1
        BY <3>0, <3>2, ThenSeq
      <4>2. r[i] = s[j] /\ j \in 1..Len(s)
        BY <3>0, <4>1, ThenSeq
      <4> QED  BY <2>5, <4>2 DEF Named
    <3> QED  BY <3>1, <3>2
  <2> HIDE DEF r
  <2>6. ASSUME NEW u \in Writers, NEW i \in 1..Len(todo'[u]), todo'[u][i][1] = "push"
        PROVE  todo'[u][i][2] \in Tokens(Len(stored))
    <3>1. CASE u = t
      BY <1>1, <2>1, <2>5, <2>6, <3>1
    <3>2. CASE u # t
      <4>1. todo'[u] = todo[u]
        BY <1>1, <2>1, <3>2
      <4> QED  BY <2>6, <4>1 DEF Named
    <3> QED  BY <3>1, <3>2
  <2> QED  BY <1>1, <2>1, <2>6 DEF Named, Tokens
<1> QED  BY <1>2, <1>3, <1>4, <1>5 DEF Store

\* The rabbit is told what was stored.
LEMMA PushNamed ==
  ASSUME Inv, VoiceInv, Named, NEW t \in Writers, Push(t)
  PROVE  Named'
<1> DEFINE s == todo[t]
<1>1. /\ UNCHANGED <<RES_LOCK, pending, stored, RES_DROPPED, missed>>
      /\ s # <<>> /\ s \in Seq(StepSet) /\ todo \in [Writers -> Seq(StepSet)]
      /\ Head(s) = s[1] /\ s[1][1] = "push" /\ 1 \in 1..Len(s)
      /\ todo' = [todo EXCEPT ![t] = <<>> \o Tail(s)] /\ programs' = programs \cup {s[1][2]}
  BY DEF Push, storeVars, At, Arg, Then, VoiceInv, VoiceTypes
<1>2. s[1][2] \in Tokens(Len(stored))
  BY <1>1 DEF Named
<1>3. \A i \in 1..Len(<<>> \o Tail(s)) :
        (<<>> \o Tail(s))[i][1] = "push" => \E j \in 1..Len(s) : (<<>> \o Tail(s))[i] = s[j]
  BY <1>1, NoStep, NoPushThen
<1>4. ASSUME NEW u \in Writers, NEW i \in 1..Len(todo'[u]), todo'[u][i][1] = "push"
      PROVE  todo'[u][i][2] \in Tokens(Len(stored))
  <2>1. CASE u = t
    <3>1. todo'[t] = <<>> \o Tail(s)
      BY <1>1
    <3>2. PICK j \in 1..Len(s) : todo'[t][i] = s[j]
      BY <1>3, <1>4, <2>1, <3>1
    <3> QED  BY <1>4, <2>1, <3>2 DEF Named
  <2>2. CASE u # t
    <3>1. todo'[u] = todo[u]
      BY <1>1, <2>2
    <3> QED  BY <1>4, <3>1 DEF Named
  <2> QED  BY <2>1, <2>2
<1>5. Tokens(Len(stored))' = Tokens(Len(stored)) /\ Tokens(RES_DROPPED)' = Tokens(RES_DROPPED)
  BY <1>1 DEF Tokens
<1>6. programs' \subseteq Tokens(Len(stored))
  BY <1>1, <1>2 DEF Named
<1> QED  BY <1>1, <1>4, <1>5, <1>6 DEF Named

\* What the rabbit is refused was stored, and is not in the store any more.
LEMMA FetchNamed ==
  ASSUME Inv, VoiceInv, Named, NEW token \in programs, Fetch(token)
  PROVE  Named'
<1>1. /\ UNCHANGED <<RES_LOCK, pending, stored, RES_DROPPED, todo>>
      /\ programs' = programs \ {token}
      /\ missed' = IF Holds(token) THEN missed ELSE missed \cup {token}
  BY DEF Fetch, storeVars
<1>2. ASSUME ~Holds(token) PROVE token \in Tokens(RES_DROPPED)
  <2>1. PICK i \in 1..Len(stored) : stored[i].token = token
    BY DEF Named, Tokens
  <2>2. /\ RES_DROPPED \in Nat /\ Len(RESOURCES) \in Nat /\ DOMAIN RESOURCES = 1..Len(RESOURCES)
        /\ Len(stored) = RES_DROPPED + Len(RESOURCES)
    BY DEF Inv, TypeInv, Suffix
  <2>3. CASE i <= RES_DROPPED
    <3>1. i \in 1..RES_DROPPED
      BY <2>2, <2>3
    <3> QED  BY <2>1, <3>1 DEF Tokens
  <2>4. CASE ~(i <= RES_DROPPED)
    <3>1. i - RES_DROPPED \in 1..Len(RESOURCES) /\ RES_DROPPED + (i - RES_DROPPED) = i
      BY <2>2, <2>4
    <3>2. RESOURCES[i - RES_DROPPED] = stored[RES_DROPPED + (i - RES_DROPPED)]
      BY <3>1 DEF Inv, Suffix
    <3>3. RESOURCES[i - RES_DROPPED].token = token
      BY <2>1, <3>1, <3>2
    <3> QED  BY <1>2, <2>2, <3>1, <3>3 DEF Holds
  <2> QED  BY <2>3, <2>4
<1> QED  BY <1>1, <1>2 DEF Named, Tokens
-----------------------------------------------------------------------------
\* At first there are recordings, and nothing else.
LEMMA PipelineInit == Init => PipelineInv
<1> SUFFICES ASSUME Init PROVE PipelineInv
  OBVIOUS
<1>1. Inv
  BY StoreInitInv DEF Init
<1> DEFINE x == << <<"bunny">> >>
<1>2. /\ x \in Seq(StepSet) /\ Len(x) = 1 /\ 1 \in 1..Len(x)
      /\ \A i \in 1..Len(x) : i = 1 /\ x[i] = <<"bunny">>
  <2>1. <<"bunny">> \in StepSet
    BY DEF StepSet
  <2> QED  BY <2>1, OneStep
<1>3. todo = [t \in Writers |-> IF t = Client THEN <<>> ELSE x]
  BY DEF Init
<1> HIDE DEF x
<1>4. VoiceTypes
  <2>1. todo \in [Writers -> Seq(StepSet)]
    BY <1>2, <1>3, NoStep
  <2>2. {} \in SUBSET Nat /\ IsFiniteSet({})
    BY FS_EmptySet
  <2> QED  BY <2>1, <2>2 DEF VoiceTypes, Init, Formats
<1>5. ASSUME NEW v \in Voices PROVE RecordingInv(v)
  <2>1. /\ todo[v] = x /\ text[v] = "nothing" /\ audio[v] = "none" /\ steps[v] = <<>>
        /\ temps[v] = {} /\ segments[v] = 0 /\ why[v] = {} /\ spoken[v] = <<>>
    BY <1>3, VoicePipelineAssumption DEF Init
  <2>2. Ordered(x)
    BY <1>2 DEF Ordered, Deciding
  <2>3. Audible(x, "nothing", <<>>, <<>>, {})
    BY <1>2 DEF Audible, Promises
  <2>4. Whole(x, <<>>, 0, <<>>)
    BY <1>2 DEF Whole, Quiet, Voiced
  <2>5. \A i \in 1..Len(x) : ~Delivers(x[i])
    BY <1>2 DEF Delivers, Voiced
  <2>6. Decodable(x, "none", <<>>, <<>>, {})
    BY <2>5 DEF Decodable
  <2> QED  BY <2>1, <2>2, <2>3, <2>4, <2>6 DEF RecordingInv, Recording, Owed, Kept
<1>6. Named
  <2>1. /\ RES_LOCK = "free" /\ programs = {} /\ missed = {}
    BY DEF Init, StoreInit
  <2>2. ASSUME NEW t \in Writers, NEW i \in 1..Len(todo[t]) PROVE todo[t][i][1] # "push"
    <3>1. todo[t] = <<>> \/ todo[t] = x
      BY <1>3
    <3>2. CASE todo[t] = x
      <4>1. todo[t][i] = <<"bunny">>
        BY <1>2, <3>2
      <4> QED  BY <4>1
    <3> QED  BY <3>1, <3>2, NoStep
  <2> QED  BY <2>1, <2>2 DEF Named
<1> QED  BY <1>1, <1>4, <1>5, <1>6 DEF PipelineInv, VoiceInv

\* The steps of the threads are steps of the store, or leave it alone.
LEMMA PipelineStores ==
  ASSUME Inv, VoiceInv, [Next]_vars
  PROVE  Inv' /\ [StoreNext]_storeVars
<1>1. ASSUME NEW t \in Writers, Store(t) PROVE Inv' /\ StoreNext
  <2>1. Arg(t) \in Nat
    <3>1. todo[t] \in Seq(StepSet) /\ todo[t] # <<>> /\ Head(todo[t])[1] = "store"
      BY <1>1 DEF Store, At, VoiceInv, VoiceTypes
    <3>2. Head(todo[t]) \in StepSet
      BY <3>1
    <3> QED  BY <3>1, <3>2, StepKinds DEF Arg
  <2>2. Stamp(t, Arg(t)) \/ Insert(t) \/ Evict(t) \/ Release(t)
    BY <1>1 DEF Store
  <2> QED  BY <2>1, <2>2, StampInv, InsertInv, EvictInv, ReleaseInv DEF StoreNext
<1>2. CASE TimePasses
  BY <1>2, TickInv DEF TimePasses, StoreNext
<1>3. CASE UNCHANGED storeVars
  BY <1>3 DEF storeVars, Inv, TypeInv, LockInv, Chained, Suffix, Account, Total,
              WithinBounds, NeverDroppedEarly
<1>4. ASSUME NEW v \in Voices, Voice(v) PROVE UNCHANGED storeVars
  BY <1>4 DEF Voice, OpenFilter, RunFilter, Unlink, FindBunny, OpenForWhisper, WriteForWhisper,
              Whisper, Ask, RunTags, Synthesize, Espeak, Keep, Play
<1>5. ASSUME NEW t \in Writers, Push(t) PROVE UNCHANGED storeVars
  BY <1>5 DEF Push
<1>6. Request \/ (\E token \in programs : Fetch(token)) \/ UNCHANGED vars => UNCHANGED storeVars
  BY DEF Request, Fetch, vars
<1> QED  BY <1>1, <1>2, <1>3, <1>4, <1>5, <1>6 DEF Next

\* The other steps of the pipeline.
LEMMA RequestNamed ==
  ASSUME VoiceInv, Named, Request
  PROVE  Named'
<1>1. UNCHANGED <<RES_LOCK, pending, stored, RES_DROPPED, programs, missed>>
      /\ todo \in [Writers -> Seq(StepSet)]
  BY DEF Request, storeVars, VoiceInv, VoiceTypes
<1>2. PICK size \in {Cue, Sound, Podcast} : todo' = [todo EXCEPT ![Client] = << <<"store", size>> >>]
  BY DEF Request
<1> DEFINE x == << <<"store", size>> >>
<1>3. \A i \in 1..Len(x) : x[i] = <<"store", size>>
  <2>1. <<"store", size>> \in StepSet
    BY ResourceStoreAssumption DEF StepSet, Cue, Sound, Podcast
  <2> QED  BY <2>1, OneStep
<1>4. todo' = [todo EXCEPT ![Client] = x]
  BY <1>2
<1> HIDE DEF x
<1>5. ASSUME NEW u \in Writers, NEW i \in 1..Len(todo'[u]), todo'[u][i][1] = "push"
      PROVE  todo'[u][i][2] \in Tokens(Len(stored))
  <2>1. todo'[u] = todo[u] \/ todo'[u] = x
    BY <1>1, <1>4
  <2>2. CASE todo'[u] = x
    <3>1. todo'[u][i] = <<"store", size>>
      BY <1>3, <2>2
    <3>2. todo'[u][i][1] = "store"
      BY <3>1
    <3> QED  BY <1>5, <3>2
  <2> QED  BY <1>5, <2>1, <2>2 DEF Named
<1>6. Tokens(Len(stored))' = Tokens(Len(stored)) /\ Tokens(RES_DROPPED)' = Tokens(RES_DROPPED)
  BY <1>1 DEF Tokens
<1> QED  BY <1>1, <1>5, <1>6 DEF Named

\* Where neither a thread nor the store moves, no name is lost.
LEMMA SameNamed ==
  ASSUME Named, UNCHANGED <<todo, programs, missed, RES_LOCK, pending, stored, RES_DROPPED>>
  PROVE  Named'
BY DEF Named, Tokens

\* Every step keeps the invariant.
LEMMA PipelineStep == PipelineInv /\ [Next]_vars => PipelineInv'
<1> SUFFICES ASSUME PipelineInv, [Next]_vars PROVE PipelineInv'
  OBVIOUS
<1>1. Inv /\ VoiceInv /\ Named /\ Inv'
  BY PipelineStores DEF PipelineInv
<1>2. ASSUME NEW v \in Voices, Voice(v) PROVE VoiceInv' /\ Named'
  <2>1. VoiceInv'
    BY <1>1, <1>2, OpenFilterInv, RunFilterInv, UnlinkInv, FindBunnyInv, OpenForWhisperInv,
       WriteForWhisperInv, WhisperInv, AskInv, RunTagsInv, SynthesizeInv, EspeakInv, KeepInv,
       PlayInv DEF Voice
  <2> QED  BY <1>1, <1>2, <2>1, VoiceNamed
<1>3. ASSUME NEW t \in Writers, Store(t) \/ Push(t) PROVE VoiceInv' /\ Named'
  <2>1. t \in Voices \/ t = Client
    BY VoicePipelineAssumption
  <2>2. VoiceInv'
    BY <1>1, <1>3, <2>1, StoreVoiceInv, PushVoiceInv, ClientVoiceInv
  <2> QED  BY <1>1, <1>3, <2>2, StoreNamed, PushNamed
<1>4. CASE Request
  <2>1. VoiceInv'
    BY <1>1, <1>4, ClientVoiceInv
  <2>2. Named'
    BY <1>1, <1>4, RequestNamed
  <2> QED  BY <1>1, <2>1, <2>2 DEF PipelineInv
<1>5. CASE TimePasses
  <2>1. UNCHANGED <<todo, speech, temps, spoken, why>>
    BY <1>5 DEF TimePasses
  <2>2. UNCHANGED <<todo, programs, missed, RES_LOCK, pending, stored, RES_DROPPED>>
    BY <1>5 DEF TimePasses, Tick, world
  <2> QED  BY <1>1, <2>1, <2>2, SameVoice, SameNamed DEF PipelineInv
<1>6. ASSUME NEW token \in programs, Fetch(token) PROVE VoiceInv' /\ Named'
  <2>1. UNCHANGED <<todo, speech, temps, spoken, why>>
    BY <1>6 DEF Fetch
  <2> QED  BY <1>1, <1>6, <2>1, SameVoice, FetchNamed
<1>7. CASE UNCHANGED vars
  <2>1. UNCHANGED <<todo, speech, temps, spoken, why>>
    BY <1>7 DEF vars, speech, histories
  <2>2. UNCHANGED <<todo, programs, missed, RES_LOCK, pending, stored, RES_DROPPED>>
    BY <1>7 DEF vars, storeVars, world
  <2> QED  BY <1>1, <2>1, <2>2, SameVoice, SameNamed DEF PipelineInv
<1> QED  BY <1>1, <1>2, <1>3, <1>4, <1>5, <1>6, <1>7 DEF Next, PipelineInv

\* The inductive invariant of the recordings and the store they share.
THEOREM PipelineInvariant == Spec => []PipelineInv
<1>1. Init => PipelineInv
  BY PipelineInit
<1>2. PipelineInv /\ [Next]_vars => PipelineInv'
  BY PipelineStep
<1> QED  BY <1>1, <1>2, PTL DEF Spec

\* The recordings and the client use the store as it is used alone: whatever is
\* shown of store_resource holds of it here.
THEOREM PipelineUsesTheStore == Spec => StoreSpec
<1>1. Init => StoreInit
  BY DEF Init
<1>2. PipelineInv /\ [Next]_vars => [StoreNext]_storeVars
  BY PipelineStores DEF PipelineInv
<1> QED  BY <1>1, <1>2, PipelineInvariant, PTL DEF Spec, StoreSpec

\* No recording leaves a temporary file, however stt_transcribe, synth_tts and the
\* filters fail, unless the disk was full.
THEOREM PipelineTempsCleaned == Spec => []TempsCleaned
<1>1. PipelineInv => TempsCleaned
  <2> SUFFICES ASSUME PipelineInv, NEW v \in Voices, todo[v] = <<>>, "disk" \notin why[v]
               PROVE  temps[v] = {}
    BY DEF TempsCleaned, Finished
  <2>1. Owed(todo[v], temps[v], why[v])
    BY DEF PipelineInv, VoiceInv, RecordingInv, Recording
  <2> QED  BY <2>1, NoStep DEF Owed
<1> QED  BY <1>1, PipelineInvariant, PTL

\* handle_voice is silent only for its five reasons: no rabbit, nothing heard, no
\* espeak-ng, a full disk, or a reply of tags alone.
THEOREM PipelineSilenceHasAReason == Spec => []SilenceHasAReason
<1>1. PipelineInv => SilenceHasAReason
  <2> SUFFICES ASSUME PipelineInv, NEW v \in Voices, todo[v] = <<>>, spoken[v] = <<>>, ~Fatal(why[v])
               PROVE  text[v] = "tags"
    BY DEF SilenceHasAReason, Finished, Fatal
  <2>1. Audible(todo[v], text[v], steps[v], spoken[v], why[v]) /\ Kept(todo[v], steps[v], why[v])
    BY DEF PipelineInv, VoiceInv, RecordingInv, Recording
  <2>2. Settled(text[v], steps[v], spoken[v], why[v])
    BY <2>1, NoStep DEF Audible
  <2>3. steps[v] = <<>>
    BY <2>1 DEF Kept
  <2> QED  BY <2>2, <2>3 DEF Settled
<1> QED  BY <1>1, PipelineInvariant, PTL

\* _speak says a phrase whole, or not at all.
THEOREM PipelinePhraseWhole == Spec => []PhraseWhole
<1>1. PipelineInv => PhraseWhole
  <2> SUFFICES ASSUME PipelineInv, NEW v \in Voices, todo[v] = <<>>
               PROVE  Len(spoken[v]) \in {0, segments[v]}
    BY DEF PhraseWhole, Finished
  <2>1. Whole(<<>>, steps[v], segments[v], spoken[v])
    BY DEF PipelineInv, VoiceInv, RecordingInv, Recording
  <2>2. \A m : ~Phrase(<<>>, steps[v], segments[v], spoken[v], m)
    BY DEF Phrase
  <2>3. Len(<<>>) = 0
    OBVIOUS
  <2> QED  BY <2>1, <2>2, <2>3 DEF Whole, Quiet
<1> QED  BY <1>1, PipelineInvariant, PTL

\* What is sent to the rabbit it can decode, if ffmpeg did its work.
THEOREM PipelineSpeechIsPlayable == Spec => []SpeechIsPlayable
<1>1. PipelineInv => SpeechIsPlayable
  <2> SUFFICES ASSUME PipelineInv, NEW v \in Voices, why[v] \cap {"ffmpeg", "disk"} = {}
               PROVE  ToSet(spoken[v]) \subseteq {"mp3", "wav8"}
    BY DEF SpeechIsPlayable
  <2>1. Decodable(todo[v], audio[v], steps[v], spoken[v], why[v]) /\ spoken[v] \in Seq(Formats)
    BY DEF PipelineInv, VoiceInv, VoiceTypes, RecordingInv, Recording
  <2>2. \A i \in 1..Len(spoken[v]) : spoken[v][i] \in Playable
    BY <2>1 DEF Decodable
  <2>3. DOMAIN spoken[v] = 1..Len(spoken[v])
    BY <2>1
  <2> QED  BY <2>2, <2>3 DEF ToSet, Playable
<1> QED  BY <1>1, PipelineInvariant, PTL

\* The rabbit is refused only what GET /res/ would have found before it was dropped.
THEOREM PipelineMissedWasDropped == Spec => []MissedWasDropped
<1>1. PipelineInv => MissedWasDropped
  BY DEF PipelineInv, Named, Tokens, MissedWasDropped
<1> QED  BY <1>1, PipelineInvariant, PTL

\* The bounds and the accounts of the store hold with recordings and requests.
THEOREM PipelineStoreBounds ==
  Spec => [](WithinBounds /\ KeepsTheNewest /\ NeverDroppedEarly)
BY PipelineUsesTheStore, StoreWithinBounds, StoreKeepsTheNewest, StoreNeverDropsEarly, PTL
=============================================================================
