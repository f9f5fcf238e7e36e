----------------------- MODULE SessionRegistryProofs -----------------------
(***************************************************************************)
(* What SessionRegistryProps states of the safety of the registry, proved  *)
(* for any set of rabbits and any number of connections and of unread      *)
(* stanzas.  IInv is the inductive invariant the theorems come from.       *)
(***************************************************************************)
EXTENDS SessionRegistryProps, TLAPS

\* Numbers are handed out in order, and a session without one does nothing.
Allocated ==
  \A s \in Sids : s >= nextSid =>
    /\ pc[s] = "none" /\ ~alive[s] /\ ~connected[s]
    /\ rabbit[s] = NoMac /\ peer[s] = "none" /\ inbox[s] = <<>>

\* From its bind on, a session goes by the MAC of the rabbit at its socket.
KnowsItsRabbit ==
  \A s \in Sids :
    /\ s < nextSid => rabbit[s] \in Macs /\ pc[s] # "none"
    /\ mac[s] \in {NoMac, rabbit[s]}
    /\ (pc[s] \in {"bind", "stale", "evict"} \/ connected[s]) => mac[s] = rabbit[s]

\* What a thread remembers across the lock: only an earlier session of the
\* same rabbit is ever closed by a later one.
RemembersPrev ==
  \A s \in Sids : pc[s] = "evict" =>
    /\ prev[s] \in Sids
    /\ prev[s] < s
    /\ rabbit[prev[s]] = rabbit[s]

\* It has been put into BUNNIES at some time.
Entered(s) == connected[s] \/ pc[s] = "evict"

\* NewestWins, also for the session that has registered and is still closing
\* the one before it.
EnteredIsRegistered ==
  \A s \in Sids :
    (alive[s] /\ Entered(s) /\ pc[s] \notin {"final", "done"}) =>
      \/ bunnies[mac[s]] = s
      \/ \E t \in Sids : pc[t] = "evict" /\ prev[t] = s

\* A registered session has entered; who has entered and is not registered
\* any more has left a successor or a date.
RegisteredHasEntered ==
  /\ \A m \in Macs : bunnies[m] # NoSid => Entered(bunnies[m])
  /\ \A s \in Sids : Entered(s) => bunnies[mac[s]] # NoSid \/ mac[s] \in lastSeen
  /\ \A m \in lastSeen : bunnies[m] = NoSid

IInv == /\ TypeOK
        /\ Allocated
        /\ KnowsItsRabbit
        /\ RemembersPrev
        /\ NoGhost
        /\ EnteredIsRegistered
        /\ RegisteredHasEntered

-----------------------------------------------------------------------------
(* One lemma per action: it preserves each conjunct of the invariant. *)

LEMMA AcceptPreserves ==
  ASSUME IInv, NEW m \in Macs, Accept(m)
  PROVE  IInv'
<1> USE RegistryAssumption DEF Sids, Steps, Stanzas, NoSid
<1> USE DEF IInv, TypeOK, threads, registry, network
<1>1. TypeOK'
  BY DEF Accept, KnowsItsRabbit, RemembersPrev
<1>2. Allocated'
  <2>1. nextSid' = nextSid + 1
    BY DEF Accept
  <2>2. ASSUME NEW s \in Sids, s >= nextSid'
        PROVE  s # nextSid /\ s >= nextSid
    BY <2>1, <2>2
  <2>3. QED
    BY <2>2, ZenonT(30) DEF Accept, Allocated
<1>3. KnowsItsRabbit'
  <2>1. ASSUME NEW s \in Sids, s < nextSid', s # nextSid
        PROVE  s < nextSid
    BY <2>1 DEF Accept
  <2>2. mac[nextSid] = NoMac \/ mac[nextSid] = rabbit[nextSid]
    BY DEF KnowsItsRabbit, Accept
  <2>3. mac[nextSid] = NoMac /\ ~connected[nextSid]
    BY <2>2 DEF Allocated, Accept
  <2>4. QED
    BY <2>1, <2>3 DEF Accept, KnowsItsRabbit
<1>4. RemembersPrev'
  BY DEF Accept, RemembersPrev, KnowsItsRabbit, NoGhost, Allocated
<1>5. NoGhost'
  BY DEF Accept, NoGhost, KnowsItsRabbit, Allocated
<1>6. EnteredIsRegistered'
  <2>1. pc[nextSid] = "none" /\ ~connected[nextSid]
    BY DEF Allocated, Accept
  <2>2. \A s \in Sids : pc'[s] = "evict" <=> pc[s] = "evict"
    BY <2>1 DEF Accept
  <2>3. QED
    BY <2>1, <2>2 DEF EnteredIsRegistered, Entered, Accept
<1>7. RegisteredHasEntered'
  <2>1. pc[nextSid] = "none" /\ ~connected[nextSid]
    BY DEF Allocated, Accept
  <2>2. \A s \in Sids : pc'[s] = "evict" <=> pc[s] = "evict"
    BY <2>1 DEF Accept
  <2>3. QED
    BY <2>2 DEF RegisteredHasEntered, Entered, Accept
<1>8. QED
  BY <1>1, <1>2, <1>3, <1>4, <1>5, <1>6, <1>7

LEMMA RabbitSaysPreserves ==
  ASSUME IInv, NEW s \in Sids, NEW st \in Stanzas, RabbitSays(s, st)
  PROVE  IInv'
<1> USE RegistryAssumption DEF Sids, Steps, Stanzas, NoSid
<1> USE DEF IInv, TypeOK, threads, registry, network
<1>1. TypeOK'
  BY DEF RabbitSays, KnowsItsRabbit, RemembersPrev
<1>2. Allocated'
  BY DEF RabbitSays, Allocated
<1>3. KnowsItsRabbit'
  BY DEF RabbitSays, KnowsItsRabbit, Allocated
<1>4. RemembersPrev'
  BY DEF RabbitSays, RemembersPrev, KnowsItsRabbit, NoGhost, Allocated
<1>5. NoGhost'
  BY DEF RabbitSays, NoGhost, KnowsItsRabbit, Allocated
<1>6. EnteredIsRegistered'
  BY DEF RabbitSays, EnteredIsRegistered, Entered, KnowsItsRabbit, Allocated, NoGhost
<1>7. RegisteredHasEntered'
  BY DEF RabbitSays, RegisteredHasEntered, Entered, NoGhost, KnowsItsRabbit, Allocated
<1>8. QED
  BY <1>1, <1>2, <1>3, <1>4, <1>5, <1>6, <1>7

LEMMA RabbitLeavesPreserves ==
  ASSUME IInv, NEW s \in Sids, NEW how \in {"closed", "lost"}, RabbitLeaves(s, how)
  PROVE  IInv'
<1> USE RegistryAssumption DEF Sids, Steps, Stanzas, NoSid
<1> USE DEF IInv, TypeOK, threads, registry, network
<1>1. TypeOK'
  BY DEF RabbitLeaves, KnowsItsRabbit, RemembersPrev
<1>2. Allocated'
  BY DEF RabbitLeaves, Allocated
<1>3. KnowsItsRabbit'
  BY DEF RabbitLeaves, KnowsItsRabbit, Allocated
<1>4. RemembersPrev'
  BY DEF RabbitLeaves, RemembersPrev, KnowsItsRabbit, NoGhost, Allocated
<1>5. NoGhost'
  BY DEF RabbitLeaves, NoGhost, KnowsItsRabbit, Allocated
<1>6. EnteredIsRegistered'
  BY DEF RabbitLeaves, EnteredIsRegistered, Entered, KnowsItsRabbit, Allocated, NoGhost
<1>7. RegisteredHasEntered'
  BY DEF RabbitLeaves, RegisteredHasEntered, Entered, NoGhost, KnowsItsRabbit, Allocated
<1>8. QED
  BY <1>1, <1>2, <1>3, <1>4, <1>5, <1>6, <1>7

LEMMA HandleAuthPreserves ==
  ASSUME IInv, NEW s \in Sids, HandleAuth(s)
  PROVE  IInv'
<1> USE RegistryAssumption DEF Sids, Steps, Stanzas, NoSid
<1> USE DEF IInv, TypeOK, threads, registry, network
<1>1. TypeOK'
  BY DEF HandleAuth, Reads, KnowsItsRabbit, RemembersPrev
<1>2. Allocated'
  BY DEF HandleAuth, Reads, Allocated
<1>3. KnowsItsRabbit'
  BY DEF HandleAuth, Reads, KnowsItsRabbit, Allocated
<1>4. RemembersPrev'
  BY DEF HandleAuth, Reads, RemembersPrev, KnowsItsRabbit, NoGhost, Allocated
<1>5. NoGhost'
  BY DEF HandleAuth, Reads, NoGhost, KnowsItsRabbit, Allocated
<1>6. EnteredIsRegistered'
  BY DEF HandleAuth, Reads, EnteredIsRegistered, Entered, KnowsItsRabbit, Allocated, NoGhost
<1>7. RegisteredHasEntered'
  BY DEF HandleAuth, Reads, RegisteredHasEntered, Entered, NoGhost, KnowsItsRabbit, Allocated
<1>8. QED
  BY <1>1, <1>2, <1>3, <1>4, <1>5, <1>6, <1>7

LEMMA HandleBindPreserves ==
  ASSUME IInv, NEW s \in Sids, HandleBind(s)
  PROVE  IInv'
<1> USE RegistryAssumption DEF Sids, Steps, Stanzas, NoSid
<1> USE DEF IInv, TypeOK, threads, registry, network
<1>1. TypeOK'
  BY DEF HandleBind, Reads, KnowsItsRabbit, RemembersPrev
<1>2. Allocated'
  BY DEF HandleBind, Reads, Allocated
<1>3. KnowsItsRabbit'
  BY DEF HandleBind, Reads, KnowsItsRabbit, Allocated
<1>4. RemembersPrev'
  BY DEF HandleBind, Reads, RemembersPrev, KnowsItsRabbit, NoGhost, Allocated
<1>5. NoGhost'
  BY DEF HandleBind, Reads, NoGhost, KnowsItsRabbit, Allocated
<1>6. EnteredIsRegistered'
  BY DEF HandleBind, Reads, EnteredIsRegistered, Entered, KnowsItsRabbit, Allocated, NoGhost
<1>7. RegisteredHasEntered'
  BY DEF HandleBind, Reads, RegisteredHasEntered, Entered, NoGhost, KnowsItsRabbit, Allocated
<1>8. QED
  BY <1>1, <1>2, <1>3, <1>4, <1>5, <1>6, <1>7

LEMMA HandleSessionPreserves ==
  ASSUME IInv, NEW s \in Sids, HandleSession(s)
  PROVE  IInv'
<1> USE RegistryAssumption DEF Sids, Steps, Stanzas, NoSid
<1> USE DEF IInv, TypeOK, threads, registry, network
<1>1. TypeOK'
  BY DEF HandleSession, Reads, KnowsItsRabbit, RemembersPrev
<1>2. Allocated'
  BY DEF HandleSession, Reads, Allocated
<1>3. KnowsItsRabbit'
  BY DEF HandleSession, Reads, KnowsItsRabbit, Allocated
<1>4. RemembersPrev'
  BY DEF HandleSession, Reads, RemembersPrev, KnowsItsRabbit, NoGhost, Allocated
<1>5. NoGhost'
  BY DEF HandleSession, Reads, NoGhost, KnowsItsRabbit, Allocated
<1>6. EnteredIsRegistered'
  BY DEF HandleSession, Reads, EnteredIsRegistered, Entered, KnowsItsRabbit, Allocated, NoGhost
<1>7. RegisteredHasEntered'
  BY DEF HandleSession, Reads, RegisteredHasEntered, Entered, NoGhost, KnowsItsRabbit, Allocated
<1>8. QED
  BY <1>1, <1>2, <1>3, <1>4, <1>5, <1>6, <1>7

LEMMA RegisterPreserves ==
  ASSUME IInv, NEW s \in Sids, Register(s)
  PROVE  IInv'
<1> USE RegistryAssumption DEF Sids, Steps, Stanzas, NoSid
<1> USE DEF IInv, TypeOK, threads, registry, network
<1>1. TypeOK'
  <2>1. mac[s] \in Macs
    BY DEF Register, KnowsItsRabbit, Allocated
  <2>2. bunnies[mac[s]] \in Sids \cup {NoSid}
    BY <2>1
  <2>3. QED
    BY <2>1, <2>2 DEF Register, Stale
<1>2. Allocated'
  BY DEF Register, Stale, Allocated
<1>3. KnowsItsRabbit'
  <2>1. pc[s] = "bind" /\ mac' = mac /\ rabbit' = rabbit /\ nextSid' = nextSid
    BY DEF Register
  <2>2. mac[s] = rabbit[s] /\ pc'[s] \in {"recv", "evict"}
    BY <2>1 DEF Register, KnowsItsRabbit
  <2>3. \A r \in Sids \ {s} : pc'[r] = pc[r] /\ connected'[r] = connected[r]
    BY DEF Register
  <2>4. QED
    BY <2>1, <2>2, <2>3 DEF KnowsItsRabbit
<1>4. RemembersPrev'
  BY DEF Register, Stale, RemembersPrev, KnowsItsRabbit, NoGhost, Allocated
<1>5. NoGhost'
  BY DEF Register, Stale, NoGhost, KnowsItsRabbit, Allocated
<1>6. EnteredIsRegistered'
  <2>1. mac[s] \in Macs /\ \A r \in Sids : Entered(r) => mac[r] \in Macs
    BY DEF Register, Entered, KnowsItsRabbit, Allocated
  <2>2. mac' = mac /\ alive' = alive /\ bunnies' = [bunnies EXCEPT ![mac[s]] = s]
    BY DEF Register
  <2>3. /\ \A r \in Sids \ {s} : pc'[r] = pc[r] /\ connected'[r] = connected[r]
        /\ \A r \in Sids \ {s} : prev'[r] = prev[r]
        /\ pc[s] = "bind"
    BY DEF Register
  <2>4. \A t \in Sids : pc[t] = "evict" => pc'[t] = "evict" /\ prev'[t] = prev[t]
    BY <2>3
  <2>5. bunnies'[mac[s]] = s
    BY <2>1, <2>2
  <2>6. ASSUME NEW r \in Sids, r # s, bunnies[mac[r]] = r, Entered(r), mac[r] = mac[s]
        PROVE  pc'[s] = "evict" /\ prev'[s] = r
    BY <2>1, <2>6 DEF Register
  <2>7. SUFFICES ASSUME NEW r \in Sids,
                        alive'[r], Entered(r)', pc'[r] \notin {"final", "done"}
                 PROVE  \/ bunnies'[mac'[r]] = r
                        \/ \E t \in Sids : pc'[t] = "evict" /\ prev'[t] = r
    BY DEF EnteredIsRegistered
  <2>8. CASE r = s
    BY <2>2, <2>5, <2>8
  <2>9. CASE r # s
    <3>1. alive[r] /\ Entered(r) /\ pc[r] \notin {"final", "done"}
      BY <2>2, <2>3, <2>7, <2>9 DEF Entered
    <3>2. CASE bunnies[mac[r]] = r
      <4>1. CASE mac[r] = mac[s]
        BY <2>6, <2>9, <3>1, <3>2, <4>1
      <4>2. CASE mac[r] # mac[s]
        BY <2>1, <2>2, <3>1, <3>2, <4>2
      <4>3. QED
        BY <4>1, <4>2
    <3>3. CASE \E t \in Sids : pc[t] = "evict" /\ prev[t] = r
      BY <2>4, <3>3
    <3>4. QED
      BY <3>1, <3>2, <3>3 DEF EnteredIsRegistered
  <2>10. QED
    BY <2>8, <2>9
<1>7. RegisteredHasEntered'
  <2>1. mac[s] \in Macs /\ \A r \in Sids : Entered(r) => mac[r] \in Macs
    BY DEF Register, Entered, KnowsItsRabbit, Allocated
  <2>2. /\ mac' = mac
        /\ bunnies' = [bunnies EXCEPT ![mac[s]] = s]
        /\ lastSeen' = lastSeen \ {mac[s]}
        /\ pc[s] = "bind"
    BY DEF Register
  <2>3. Entered(s)'
    BY DEF Register, Entered
  <2>4. \A r \in Sids \ {s} : Entered(r)' <=> Entered(r)
    BY DEF Register, Entered
  <2>5. \A m \in Macs : bunnies'[m] = IF m = mac[s] THEN s ELSE bunnies[m]
    BY <2>1, <2>2
  <2>6. ASSUME NEW m \in Macs, bunnies'[m] # NoSid
        PROVE  connected'[bunnies'[m]] \/ pc'[bunnies'[m]] = "evict"
    <3>1. CASE m = mac[s]
      BY <2>3, <2>5, <3>1 DEF Entered
    <3>2. CASE m # mac[s]
      <4>1. bunnies'[m] = bunnies[m] /\ bunnies[m] \in Sids /\ bunnies[m] # s
        <5>1. bunnies'[m] = bunnies[m] /\ bunnies[m] \in Sids
          BY <2>5, <2>6, <3>2
        <5>2. mac[bunnies[m]] = m
          BY <5>1 DEF NoGhost
        <5>3. QED
          BY <3>2, <5>1, <5>2
      <4>2. Entered(bunnies[m])
        BY <4>1 DEF RegisteredHasEntered
      <4>3. QED
        BY <2>4, <4>1, <4>2 DEF Entered
    <3>3. QED
      BY <3>1, <3>2
  <2>7. ASSUME NEW r \in Sids, Entered(r)'
        PROVE  bunnies'[mac'[r]] # NoSid \/ mac'[r] \in lastSeen'
    BY <2>1, <2>2, <2>4, <2>5, <2>7 DEF RegisteredHasEntered
  <2>8. \A m \in lastSeen' : bunnies'[m] = NoSid
    BY <2>2, <2>5 DEF RegisteredHasEntered
  <2>9. QED
    BY <2>6, <2>7, <2>8 DEF RegisteredHasEntered, Entered
<1>8. QED
  BY <1>1, <1>2, <1>3, <1>4, <1>5, <1>6, <1>7

LEMMA RegisterRefusedPreserves ==
  ASSUME IInv, NEW s \in Sids, RegisterRefused(s)
  PROVE  IInv'
<1> USE RegistryAssumption DEF Sids, Steps, Stanzas, NoSid
<1> USE DEF IInv, TypeOK, threads, registry, network
<1>1. TypeOK'
  BY DEF RegisterRefused, Stale, KnowsItsRabbit, RemembersPrev
<1>2. Allocated'
  BY DEF RegisterRefused, Stale, Allocated
<1>3. KnowsItsRabbit'
  BY DEF RegisterRefused, Stale, KnowsItsRabbit, Allocated
<1>4. RemembersPrev'
  BY DEF RegisterRefused, Stale, RemembersPrev, KnowsItsRabbit, NoGhost, Allocated
<1>5. NoGhost'
  BY DEF RegisterRefused, Stale, NoGhost, KnowsItsRabbit, Allocated
<1>6. EnteredIsRegistered'
  BY DEF RegisterRefused, Stale, EnteredIsRegistered, Entered, KnowsItsRabbit, Allocated, NoGhost
<1>7. RegisteredHasEntered'
  BY DEF RegisterRefused, Stale, RegisteredHasEntered, Entered, NoGhost, KnowsItsRabbit, Allocated
<1>8. QED
  BY <1>1, <1>2, <1>3, <1>4, <1>5, <1>6, <1>7

LEMMA CloseSelfPreserves ==
  ASSUME IInv, NEW s \in Sids, CloseSelf(s)
  PROVE  IInv'
<1> USE RegistryAssumption DEF Sids, Steps, Stanzas, NoSid
<1> USE DEF IInv, TypeOK, threads, registry, network
<1>1. TypeOK'
  BY DEF CloseSelf, KnowsItsRabbit, RemembersPrev
<1>2. Allocated'
  BY DEF CloseSelf, Allocated
<1>3. KnowsItsRabbit'
  BY DEF CloseSelf, KnowsItsRabbit, Allocated
<1>4. RemembersPrev'
  BY DEF CloseSelf, RemembersPrev, KnowsItsRabbit, NoGhost, Allocated
<1>5. NoGhost'
  BY DEF CloseSelf, NoGhost, KnowsItsRabbit, Allocated
<1>6. EnteredIsRegistered'
  BY DEF CloseSelf, EnteredIsRegistered, Entered, KnowsItsRabbit, Allocated, NoGhost
<1>7. RegisteredHasEntered'
  BY DEF CloseSelf, RegisteredHasEntered, Entered, NoGhost, KnowsItsRabbit, Allocated
<1>8. QED
  BY <1>1, <1>2, <1>3, <1>4, <1>5, <1>6, <1>7

LEMMA ClosePrevPreserves ==
  ASSUME IInv, NEW s \in Sids, ClosePrev(s)
  PROVE  IInv'
<1> USE RegistryAssumption DEF Sids, Steps, Stanzas, NoSid
<1> USE DEF IInv, TypeOK, threads, registry, network
<1>1. TypeOK'
  BY DEF ClosePrev, KnowsItsRabbit, RemembersPrev
<1>2. Allocated'
  BY DEF ClosePrev, Allocated
<1>3. KnowsItsRabbit'
  BY DEF ClosePrev, KnowsItsRabbit, Allocated
<1>4. RemembersPrev'
  BY DEF ClosePrev, RemembersPrev, KnowsItsRabbit, NoGhost, Allocated
<1>5. NoGhost'
  BY DEF ClosePrev, NoGhost, KnowsItsRabbit, Allocated
<1>6. EnteredIsRegistered'
  BY DEF ClosePrev, EnteredIsRegistered, Entered, KnowsItsRabbit, Allocated, NoGhost
<1>7. RegisteredHasEntered'
  BY DEF ClosePrev, RegisteredHasEntered, Entered, NoGhost, KnowsItsRabbit, Allocated
<1>8. QED
  BY <1>1, <1>2, <1>3, <1>4, <1>5, <1>6, <1>7

LEMMA LeaveLoopPreserves ==
  ASSUME IInv, NEW s \in Sids, LeaveLoop(s)
  PROVE  IInv'
<1> USE RegistryAssumption DEF Sids, Steps, Stanzas, NoSid
<1> USE DEF IInv, TypeOK, threads, registry, network
<1>1. TypeOK'
  BY DEF LeaveLoop, KnowsItsRabbit, RemembersPrev
<1>2. Allocated'
  BY DEF LeaveLoop, Allocated
<1>3. KnowsItsRabbit'
  BY DEF LeaveLoop, KnowsItsRabbit, Allocated
<1>4. RemembersPrev'
  BY DEF LeaveLoop, RemembersPrev, KnowsItsRabbit, NoGhost, Allocated
<1>5. NoGhost'
  BY DEF LeaveLoop, NoGhost, KnowsItsRabbit, Allocated
<1>6. EnteredIsRegistered'
  <2>1. \A r \in Sids : pc'[r] = "evict" <=> pc[r] = "evict"
    BY DEF LeaveLoop
  <2>2. QED
    BY <2>1 DEF EnteredIsRegistered, Entered, LeaveLoop
<1>7. RegisteredHasEntered'
  <2>1. \A r \in Sids : pc'[r] = "evict" <=> pc[r] = "evict"
    BY DEF LeaveLoop
  <2>2. QED
    BY <2>1 DEF RegisteredHasEntered, Entered, LeaveLoop
<1>8. QED
  BY <1>1, <1>2, <1>3, <1>4, <1>5, <1>6, <1>7

LEMMA IdleTimeoutPreserves ==
  ASSUME IInv, NEW s \in Sids, IdleTimeout(s)
  PROVE  IInv'
<1> USE RegistryAssumption DEF Sids, Steps, Stanzas, NoSid
<1> USE DEF IInv, TypeOK, threads, registry, network
<1>1. TypeOK'
  BY DEF IdleTimeout, KnowsItsRabbit, RemembersPrev
<1>2. Allocated'
  BY DEF IdleTimeout, Allocated
<1>3. KnowsItsRabbit'
  BY DEF IdleTimeout, KnowsItsRabbit, Allocated
<1>4. RemembersPrev'
  BY DEF IdleTimeout, RemembersPrev, KnowsItsRabbit, NoGhost, Allocated
<1>5. NoGhost'
  BY DEF IdleTimeout, NoGhost, KnowsItsRabbit, Allocated
<1>6. EnteredIsRegistered'
  <2>1. /\ UNCHANGED <<alive, connected, mac, prev, bunnies, lastSeen>>
        /\ pc' = [pc EXCEPT ![s] = "final"]
        /\ pc[s] = "recv"
    BY DEF IdleTimeout
  <2>2. \A r \in Sids : /\ pc'[r] = "evict" <=> pc[r] = "evict"
                       /\ pc[r] \in {"final", "done"} => pc'[r] \in {"final", "done"}
    BY <2>1
  <2>3. QED
    BY <2>1, <2>2 DEF EnteredIsRegistered, Entered
<1>7. RegisteredHasEntered'
  <2>1. /\ UNCHANGED <<alive, connected, mac, prev, bunnies, lastSeen>>
        /\ pc' = [pc EXCEPT ![s] = "final"]
        /\ pc[s] = "recv"
    BY DEF IdleTimeout
  <2>2. \A r \in Sids : /\ pc'[r] = "evict" <=> pc[r] = "evict"
                       /\ pc[r] \in {"final", "done"} => pc'[r] \in {"final", "done"}
    BY <2>1
  <2>3. QED
    BY <2>1, <2>2 DEF RegisteredHasEntered, Entered
<1>8. QED
  BY <1>1, <1>2, <1>3, <1>4, <1>5, <1>6, <1>7

LEMMA CleanupPreserves ==
  ASSUME IInv, NEW s \in Sids, Cleanup(s)
  PROVE  IInv'
<1> USE RegistryAssumption DEF Sids, Steps, NoSid, threads, registry, network
<1>a. /\ pc[s] = "final"
      /\ pc' = [pc EXCEPT ![s] = "done"]
      /\ inbox' = [inbox EXCEPT ![s] = <<>>]
      /\ UNCHANGED <<nextSid, alive, bound, mac, connected, prev, rabbit, peer, said>>
  BY DEF Cleanup
<1>b. /\ pc \in [Sids -> Steps]
      /\ mac \in [Sids -> Macs \cup {NoMac}]
      /\ bunnies \in [Macs -> Sids \cup {NoSid}]
      /\ lastSeen \in SUBSET Macs
  BY DEF IInv, TypeOK
<1>c. \/ /\ mac[s] \in Macs
         /\ bunnies[mac[s]] = s
         /\ bunnies' = [bunnies EXCEPT ![mac[s]] = NoSid]
         /\ lastSeen' = lastSeen \cup {mac[s]}
      \/ /\ ~(mac[s] \in Macs /\ bunnies[mac[s]] = s)
         /\ UNCHANGED <<bunnies, lastSeen>>
  BY <1>b DEF Cleanup
\* The session is registered nowhere any more, and nothing else has moved.
<1>d. ASSUME NEW m \in Macs
      PROVE  /\ bunnies'[m] \in {bunnies[m], NoSid}
             /\ bunnies'[m] # bunnies[m] => m = mac[s]
             /\ bunnies'[m] # s
  <2>1. bunnies[m] = s => mac[s] = m
    BY DEF IInv, NoGhost
  <2>2. QED
    BY <1>b, <1>c, <2>1
<1>e. \A r \in Sids : /\ r # s => pc'[r] = pc[r]
                     /\ pc'[r] = "evict" <=> pc[r] = "evict"
  BY <1>a, <1>b
<1>f. \A r \in Sids : Entered(r) => mac[r] \in Macs
  BY DEF IInv, TypeOK, Entered, KnowsItsRabbit, Allocated
<1>1. TypeOK'
  <2>1. <<>> \in Seq(Stanzas)
    OBVIOUS
  <2>2. inbox' \in [Sids -> Seq(Stanzas)] /\ pc' \in [Sids -> Steps]
    BY <1>a, <1>b, <2>1 DEF IInv, TypeOK
  <2>3. bunnies' \in [Macs -> Sids \cup {NoSid}] /\ lastSeen' \in SUBSET Macs
    BY <1>b, <1>c
  <2>4. QED
    BY <1>a, <2>2, <2>3 DEF IInv, TypeOK
<1>2. Allocated'
  BY <1>a, <1>b DEF IInv, TypeOK, Allocated
<1>3. KnowsItsRabbit'
  BY <1>a, <1>b DEF IInv, KnowsItsRabbit
<1>4. RemembersPrev'
  BY <1>a, <1>b DEF IInv, RemembersPrev
<1>5. NoGhost'
  BY <1>a, <1>b, <1>d, <1>e DEF IInv, NoGhost
<1>6. EnteredIsRegistered'
  <2>1. ASSUME NEW r \in Sids, pc'[r] \notin {"final", "done"}
        PROVE  r # s /\ pc[r] \notin {"final", "done"}
    BY <1>a, <1>b, <1>e, <2>1
  <2>2. ASSUME NEW r \in Sids, r # s, mac[r] \in Macs, bunnies[mac[r]] = r
        PROVE  bunnies'[mac[r]] = r
    BY <1>b, <1>c, <2>2
  <2>3. \A r \in Sids : Entered(r)' <=> Entered(r)
    BY <1>a, <1>e DEF Entered
  <2>4. QED
    BY <1>a, <1>e, <1>f, <2>1, <2>2, <2>3 DEF IInv, EnteredIsRegistered
<1>7. RegisteredHasEntered'
  <2>1. \A r \in Sids : Entered(r)' <=> Entered(r)
    BY <1>a, <1>e DEF Entered
  <2>2. ASSUME NEW m \in Macs, bunnies'[m] # NoSid
        PROVE  connected'[bunnies'[m]] \/ pc'[bunnies'[m]] = "evict"
    <3>1. bunnies'[m] = bunnies[m] /\ bunnies[m] \in Sids
      BY <1>b, <1>d, <2>2
    <3>2. QED
      BY <1>a, <1>e, <3>1 DEF IInv, RegisteredHasEntered, Entered
  <2>3. ASSUME NEW r \in Sids, Entered(r)'
        PROVE  bunnies'[mac'[r]] # NoSid \/ mac'[r] \in lastSeen'
    <3>1. mac[r] \in Macs
      BY <1>f, <2>1, <2>3
    <3>2. bunnies[mac[r]] # NoSid \/ mac[r] \in lastSeen
      BY <2>1, <2>3 DEF IInv, RegisteredHasEntered
    <3>3. QED
      BY <1>a, <1>b, <1>c, <3>1, <3>2
  <2>4. ASSUME NEW m \in lastSeen' PROVE bunnies'[m] = NoSid
    <3>1. \A n \in lastSeen : bunnies[n] = NoSid
      BY DEF IInv, RegisteredHasEntered
    <3>2. QED
      BY <1>b, <1>c, <2>4, <3>1
  <2>5. QED
    BY <2>2, <2>3, <2>4 DEF RegisteredHasEntered, Entered
<1>8. QED
  BY <1>1, <1>2, <1>3, <1>4, <1>5, <1>6, <1>7 DEF IInv

LEMMA SendFailsPreserves ==
  ASSUME IInv, NEW s \in Sids, SendFails(s)
  PROVE  IInv'
<1> USE RegistryAssumption DEF Sids, Steps, Stanzas, NoSid
<1> USE DEF IInv, TypeOK, threads, registry, network
<1>1. TypeOK'
  BY DEF SendFails, KnowsItsRabbit, RemembersPrev
<1>2. Allocated'
  BY DEF SendFails, Allocated
<1>3. KnowsItsRabbit'
  BY DEF SendFails, KnowsItsRabbit, Allocated
<1>4. RemembersPrev'
  BY DEF SendFails, RemembersPrev, KnowsItsRabbit, NoGhost, Allocated
<1>5. NoGhost'
  BY DEF SendFails, NoGhost, KnowsItsRabbit, Allocated
<1>6. EnteredIsRegistered'
  BY DEF SendFails, EnteredIsRegistered, Entered, KnowsItsRabbit, Allocated, NoGhost
<1>7. RegisteredHasEntered'
  BY DEF SendFails, RegisteredHasEntered, Entered, NoGhost, KnowsItsRabbit, Allocated
<1>8. QED
  BY <1>1, <1>2, <1>3, <1>4, <1>5, <1>6, <1>7

LEMMA SoundAckDropPreserves ==
  ASSUME IInv, NEW s \in Sids, SoundAckDrop(s)
  PROVE  IInv'
<1> USE RegistryAssumption DEF Sids, Steps, Stanzas, NoSid
<1> USE DEF IInv, TypeOK, threads, registry, network
<1>1. TypeOK'
  BY DEF SoundAckDrop, KnowsItsRabbit, RemembersPrev
<1>2. Allocated'
  BY DEF SoundAckDrop, Allocated
<1>3. KnowsItsRabbit'
  BY DEF SoundAckDrop, KnowsItsRabbit, Allocated
<1>4. RemembersPrev'
  BY DEF SoundAckDrop, RemembersPrev, KnowsItsRabbit, NoGhost, Allocated
<1>5. NoGhost'
  BY DEF SoundAckDrop, NoGhost, KnowsItsRabbit, Allocated
<1>6. EnteredIsRegistered'
  BY DEF SoundAckDrop, EnteredIsRegistered, Entered, KnowsItsRabbit, Allocated, NoGhost
<1>7. RegisteredHasEntered'
  BY DEF SoundAckDrop, RegisteredHasEntered, Entered, NoGhost, KnowsItsRabbit, Allocated
<1>8. QED
  BY <1>1, <1>2, <1>3, <1>4, <1>5, <1>6, <1>7

LEMMA StutterPreserves ==
  ASSUME IInv, UNCHANGED vars
  PROVE  IInv'
BY DEF IInv, TypeOK, Allocated, KnowsItsRabbit, RemembersPrev, NoGhost, Entered,
       EnteredIsRegistered, RegisteredHasEntered, vars, threads, registry, network

LEMMA InitEstablishes == Init => IInv
<1> USE RegistryAssumption DEF Sids, Steps, Stanzas, NoSid, Init
<1>1. Init => TypeOK
  BY DEF TypeOK
<1>2. Init => Allocated /\ KnowsItsRabbit /\ RemembersPrev
  BY DEF Allocated, KnowsItsRabbit, RemembersPrev
<1>3. Init => NoGhost /\ EnteredIsRegistered /\ RegisteredHasEntered
  BY DEF NoGhost, Entered, EnteredIsRegistered, RegisteredHasEntered
<1>4. QED
  BY <1>1, <1>2, <1>3 DEF IInv

LEMMA NextPreserves == IInv /\ [Next]_vars => IInv'
<1> SUFFICES ASSUME IInv, [Next]_vars PROVE IInv'
  OBVIOUS
<1>1. ASSUME NEW m \in Macs, Accept(m) PROVE IInv'
  BY <1>1, AcceptPreserves
<1>2. ASSUME NEW s \in Sids, NEW st \in Stanzas, RabbitSays(s, st) PROVE IInv'
  BY <1>2, RabbitSaysPreserves
<1>3. ASSUME NEW s \in Sids, NEW how \in {"closed", "lost"}, RabbitLeaves(s, how)
      PROVE  IInv'
  BY <1>3, RabbitLeavesPreserves
<1>4. ASSUME NEW s \in Sids, ThreadStep(s) PROVE IInv'
  BY <1>4, HandleAuthPreserves, HandleBindPreserves, HandleSessionPreserves,
     RegisterPreserves, RegisterRefusedPreserves, CloseSelfPreserves,
     ClosePrevPreserves, LeaveLoopPreserves, IdleTimeoutPreserves,
     CleanupPreserves DEF ThreadStep
<1>5. ASSUME NEW s \in Sids, SendFails(s) \/ SoundAckDrop(s) PROVE IInv'
  BY <1>5, SendFailsPreserves, SoundAckDropPreserves
<1>6. QED
  BY <1>1, <1>2, <1>3, <1>4, <1>5, StutterPreserves DEF Next

-----------------------------------------------------------------------------
(* The theorems *)

\* The invariant is one: it holds at the start and every step preserves it.
THEOREM Invariance == Spec => []IInv
BY InitEstablishes, NextPreserves, PTL DEF Spec

\* The variables keep their types.  In _register the entry that is displaced is
\* a session and the key is a rabbit, which takes the rest of IInv to see.
THEOREM TypeCorrect == Spec => []TypeOK
<1>1. IInv => TypeOK
  BY DEF IInv
<1>2. QED
  BY <1>1, Invariance, PTL

\* No dead session, and no other rabbit's, is ever the target of a command,
\* whatever the finally clauses and the binds of its sessions interleave with.
THEOREM NoGhostHolds == Spec => []NoGhost
<1>1. IInv => NoGhost
  BY DEF IInv
<1>2. QED
  BY <1>1, Invariance, PTL

\* A live session that has registered is the registered one, or the session
\* that displaced it is about to close it.
THEOREM NewestWinsHolds == Spec => []NewestWins
<1>1. IInv => NewestWins
  BY DEF IInv, NewestWins, EnteredIsRegistered, Entered
<1>2. QED
  BY <1>1, Invariance, PTL

\* Online and offline-since exclude each other, and a rabbit whose session is
\* over is one or the other.
THEOREM LastSeenHolds == Spec => []LastSeenAgrees
<1>1. IInv => LastSeenAgrees
  BY DEF IInv, LastSeenAgrees, RegisteredHasEntered, Entered
<1>2. QED
  BY <1>1, Invariance, PTL

-----------------------------------------------------------------------------
(* The refinement: every step is a rabbit coming online through a later    *)
(* session, a rabbit going offline, or nothing at all to the abstract view.*)

LEMMA StepSimulated ==
  ASSUME IInv, [Next]_vars
  PROVE  [Abstract!Next]_(Abstract!vars)
<1> USE RegistryAssumption DEF Sids, NoSid, Abstract!NoSid, Abstract!vars
<1> USE DEF threads, registry, network
<1>a. /\ mac \in [Sids -> Macs \cup {NoMac}]
      /\ bunnies \in [Macs -> Sids \cup {NoSid}]
      /\ lastSeen \in SUBSET Macs
  BY DEF IInv, TypeOK
<1>1. ASSUME NEW s \in Sids, Register(s) PROVE [Abstract!Next]_(Abstract!vars)
  <2>1. /\ bunnies' = [bunnies EXCEPT ![mac[s]] = s]
        /\ lastSeen' = lastSeen \ {mac[s]}
        /\ ~(bunnies[mac[s]] > s)
    BY <1>1 DEF Register, Stale
  <2>2. mac[s] \in Macs
    BY <1>1 DEF Register, IInv, TypeOK, KnowsItsRabbit, Allocated, Steps
  <2>3. CASE bunnies[mac[s]] = s
    <3>1. mac[s] \notin lastSeen
      BY <2>3 DEF IInv, RegisteredHasEntered
    <3>2. QED
      BY <1>a, <2>1, <2>2, <2>3, <3>1
  <2>4. CASE bunnies[mac[s]] # s
    <3>1. bunnies[mac[s]] < s
      BY <1>a, <2>1, <2>2, <2>4
    <3>2. Abstract!Online(mac[s], s)
      BY <2>1, <3>1 DEF Abstract!Online
    <3>3. QED
      BY <2>2, <3>2 DEF Abstract!Next
  <2>5. QED
    BY <2>3, <2>4
<1>2. ASSUME NEW s \in Sids, Cleanup(s) PROVE [Abstract!Next]_(Abstract!vars)
  <2>1. CASE mac[s] # NoMac /\ bunnies[mac[s]] = s
    <3>1. mac[s] \in Macs
      BY <1>a, <2>1
    <3>2. Abstract!Offline(mac[s])
      BY <1>2, <2>1 DEF Cleanup, Abstract!Offline
    <3>3. QED
      BY <3>1, <3>2 DEF Abstract!Next
  <2>2. CASE ~(mac[s] # NoMac /\ bunnies[mac[s]] = s)
    BY <1>2, <2>2 DEF Cleanup
  <2>3. QED
    BY <2>1, <2>2
<1>3. ASSUME NEW m \in Macs, Accept(m) PROVE UNCHANGED <<bunnies, lastSeen>>
  BY <1>3 DEF Accept
<1>4. ASSUME NEW s \in Sids, NEW st \in Stanzas, RabbitSays(s, st)
      PROVE  UNCHANGED <<bunnies, lastSeen>>
  BY <1>4 DEF RabbitSays
<1>5. ASSUME NEW s \in Sids, NEW how \in {"closed", "lost"}, RabbitLeaves(s, how)
      PROVE  UNCHANGED <<bunnies, lastSeen>>
  BY <1>5 DEF RabbitLeaves
<1>6. ASSUME NEW s \in Sids, ThreadStep(s), ~Register(s), ~Cleanup(s)
      PROVE  UNCHANGED <<bunnies, lastSeen>>
  BY <1>6 DEF ThreadStep, HandleAuth, HandleBind, HandleSession, Reads,
              RegisterRefused, CloseSelf, ClosePrev, LeaveLoop, IdleTimeout
<1>7. ASSUME NEW s \in Sids, SendFails(s) \/ SoundAckDrop(s)
      PROVE  UNCHANGED <<bunnies, lastSeen>>
  BY <1>7 DEF SendFails, SoundAckDrop
<1>8. CASE UNCHANGED vars
  BY <1>8 DEF vars
<1>9. QED
  BY <1>1, <1>2, <1>3, <1>4, <1>5, <1>6, <1>7, <1>8 DEF Next

\* The registry of server.py implements the presence of a rabbit: no late bind
\* puts an older session back, no late finally clause takes a newer one out.
THEOREM PresenceImplemented == Spec => ImplementsPresence
<1>1. Init => Abstract!Init
  BY DEF Init, Abstract!Init, NoSid, Abstract!NoSid
<1>2. IInv /\ [Next]_vars => [Abstract!Next]_(Abstract!vars)
  BY StepSimulated
<1>3. QED
  BY <1>1, <1>2, Invariance, PTL DEF Spec, ImplementsPresence, Abstract!Spec
=============================================================================
