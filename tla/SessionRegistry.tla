-------------------------- MODULE SessionRegistry --------------------------
(***************************************************************************)
(* The XMPP sessions of nabaztag-violet/server.py and the BUNNIES registry *)
(* they share.  Every TCP connection gets a number and a thread.  The      *)
(* thread reads stanzas, registers itself under its rabbit's MAC when the  *)
(* rabbit binds a resource, closes the session it displaces, and takes     *)
(* itself out of the registry when its loop ends.  BUNNIES_LOCK makes each *)
(* critical section one action; everything between two of them (noticing   *)
(* that one is stale, closing the old socket) is a step of its own that    *)
(* the other threads may interleave with.                                  *)
(***************************************************************************)
EXTENDS Naturals, Sequences

CONSTANTS Macs,         \* the rabbits, by MAC address
          NoMac,        \* XmppSession.mac before the rabbit has said who it is
          MaxSid,       \* bound: how many TCP connections are accepted in all
          MaxInbox,     \* bound: stanzas received on a socket and not yet read
          IdleDrop      \* XMPP_IDLE_S # 0: a bound, silent session is dropped

ASSUME RegistryAssumption == /\ NoMac \notin Macs
                             /\ MaxSid \in Nat
                             /\ MaxInbox \in Nat
                             /\ IdleDrop \in BOOLEAN

NoSid == 0
Sids == 1..MaxSid

\* Where a session's thread is.
\*   recv   in the receive loop, between two stanzas
\*   bind   in the bind branch, about to take BUNNIES_LOCK in _register
\*   stale  lock released: a newer session is registered, about to close itself
\*   evict  lock released: registered, about to close the session it displaced
\*   final  out of the loop, about to run the finally clause
Steps == {"none", "recv", "bind", "stale", "evict", "final", "done"}

Stanzas == {"auth", "bind", "session"}

VARIABLES nextSid,      \* the counter behind _SID
          pc,           \* sid -> where its thread is
          alive,        \* sid -> _alive
          bound,        \* sid -> bound
          mac,          \* sid -> mac
          connected,    \* sid -> connected_at is set
          prev,         \* sid -> the local variable prev of _register
          bunnies,      \* BUNNIES
          lastSeen,     \* the keys of LAST_SEEN
          rabbit,       \* sid -> the rabbit at the other end of the socket
          peer,         \* sid -> what the rabbit did with the socket
          said,         \* sid -> the last stanza the rabbit sent, while it is up
          inbox         \* sid -> what has arrived and has not been read

threads  == <<pc, alive, bound, mac, connected, prev>>
registry == <<bunnies, lastSeen>>
network  == <<rabbit, peer, said, inbox>>
vars     == <<nextSid, threads, registry, network>>

TypeOK ==
  /\ nextSid \in 1..(MaxSid + 1)
  /\ pc \in [Sids -> Steps]
  /\ alive \in [Sids -> BOOLEAN]
  /\ bound \in [Sids -> BOOLEAN]
  /\ mac \in [Sids -> Macs \cup {NoMac}]
  /\ connected \in [Sids -> BOOLEAN]
  /\ prev \in [Sids -> Sids \cup {NoSid}]
  /\ bunnies \in [Macs -> Sids \cup {NoSid}]
  /\ lastSeen \in SUBSET Macs
  /\ rabbit \in [Sids -> Macs \cup {NoMac}]
  /\ peer \in [Sids -> {"none", "up", "closed", "lost"}]
  /\ said \in [Sids -> Stanzas \cup {"none"}]
  /\ inbox \in [Sids -> Seq(Stanzas)]

Init ==
  /\ nextSid = 1
  /\ pc = [s \in Sids |-> "none"]
  /\ alive = [s \in Sids |-> FALSE]
  /\ bound = [s \in Sids |-> FALSE]
  /\ mac = [s \in Sids |-> NoMac]
  /\ connected = [s \in Sids |-> FALSE]
  /\ prev = [s \in Sids |-> NoSid]
  /\ bunnies = [m \in Macs |-> NoSid]
  /\ lastSeen = {}
  /\ rabbit = [s \in Sids |-> NoMac]
  /\ peer = [s \in Sids |-> "none"]
  /\ said = [s \in Sids |-> "none"]
  /\ inbox = [s \in Sids |-> <<>>]

-----------------------------------------------------------------------------
(* The rabbit and the network *)

\* A rabbit has one connection at a time: it dials again only when it has
\* closed, or lost, the socket before.  The server accepts it.
Accept(m) ==
  /\ nextSid \in Sids
  /\ \A s \in Sids : rabbit[s] = m => peer[s] # "up"
  /\ nextSid' = nextSid + 1
  /\ pc' = [pc EXCEPT ![nextSid] = "recv"]
  /\ alive' = [alive EXCEPT ![nextSid] = TRUE]
  /\ rabbit' = [rabbit EXCEPT ![nextSid] = m]
  /\ peer' = [peer EXCEPT ![nextSid] = "up"]
  /\ UNCHANGED <<bound, mac, connected, prev, registry, said, inbox>>

\* The handshake authenticates, binds and opens a session; from then on the
\* rabbit rebinds around every sound, and may open a session again.
RabbitSays(s, st) ==
  /\ peer[s] = "up"
  /\ pc[s] # "done"
  /\ Len(inbox[s]) < MaxInbox
  /\ CASE st = "auth"    -> said[s] = "none"
       [] st = "bind"    -> said[s] # "none"
       [] st = "session" -> said[s] = "bind"
  /\ said' = [said EXCEPT ![s] = st]
  /\ inbox' = [inbox EXCEPT ![s] = Append(@, st)]
  /\ UNCHANGED <<nextSid, threads, registry, rabbit, peer>>

\* It closes the socket, or vanishes without a word (Wi-Fi lost, unplugged).
\* What it sent before is still on its way.
RabbitLeaves(s, how) ==
  /\ peer[s] = "up"
  /\ peer' = [peer EXCEPT ![s] = how]
  /\ said' = [said EXCEPT ![s] = "none"]
  /\ UNCHANGED <<nextSid, threads, registry, rabbit, inbox>>

-----------------------------------------------------------------------------
(* A session's thread *)

\* _feed hands the next complete stanza over, as long as _alive holds.
Reads(s, st) ==
  /\ pc[s] = "recv"
  /\ alive[s]
  /\ inbox[s] # <<>>
  /\ Head(inbox[s]) = st
  /\ inbox' = [inbox EXCEPT ![s] = Tail(@)]

\* <auth>, <response> and violet:iq:register: the MAC is the username.
HandleAuth(s) ==
  /\ Reads(s, "auth")
  /\ mac' = [mac EXCEPT ![s] = rabbit[s]]
  /\ UNCHANGED <<nextSid, pc, alive, bound, connected, prev, registry,
                 rabbit, peer, said>>

\* The bind branch up to the call of _register.
HandleBind(s) ==
  /\ Reads(s, "bind")
  /\ mac' = [mac EXCEPT ![s] = rabbit[s]]
  /\ pc' = [pc EXCEPT ![s] = "bind"]
  /\ UNCHANGED <<nextSid, alive, bound, connected, prev, registry,
                 rabbit, peer, said>>

\* The session branch (and the unbind of the boot resource).
HandleSession(s) ==
  /\ Reads(s, "session")
  /\ bound' = [bound EXCEPT ![s] = TRUE]
  /\ UNCHANGED <<nextSid, pc, alive, mac, connected, prev, registry,
                 rabbit, peer, said>>

\* Mutant: sessions are not numbered (before 0.15.8).
StaleNever(s) == FALSE

\* A newer session of the same rabbit is already registered.
Stale(s) == bunnies[mac[s]] > s

\* Mutant: the displaced session is not closed.
RegisterForgetsPrev(s) ==
  /\ pc[s] = "bind"
  /\ ~Stale(s)
  /\ bunnies' = [bunnies EXCEPT ![mac[s]] = s]
  /\ lastSeen' = lastSeen \ {mac[s]}
  /\ pc' = [pc EXCEPT ![s] = "recv"]
  /\ connected' = [connected EXCEPT ![s] = TRUE]
  /\ UNCHANGED <<nextSid, alive, bound, mac, prev, network>>

\* Mutant: LAST_SEEN keeps its date when the rabbit is back.
RegisterKeepsLastSeen(s) ==
  /\ pc[s] = "bind"
  /\ ~Stale(s)
  /\ bunnies' = [bunnies EXCEPT ![mac[s]] = s]
  /\ pc' = [pc EXCEPT ![s] = "evict"]
  /\ prev' = [prev EXCEPT ![s] = bunnies[mac[s]]]
  /\ UNCHANGED <<nextSid, alive, bound, mac, connected, lastSeen, network>>

\* _register under BUNNIES_LOCK: the newest session wins.
Register(s) ==
  /\ pc[s] = "bind"
  /\ ~Stale(s)
  /\ bunnies' = [bunnies EXCEPT ![mac[s]] = s]
  /\ lastSeen' = lastSeen \ {mac[s]}
  /\ IF bunnies[mac[s]] \in {NoSid, s}
       THEN /\ pc' = [pc EXCEPT ![s] = "recv"]
            /\ connected' = [connected EXCEPT ![s] = TRUE]
            /\ UNCHANGED prev
       ELSE /\ pc' = [pc EXCEPT ![s] = "evict"]
            /\ prev' = [prev EXCEPT ![s] = bunnies[mac[s]]]
            /\ UNCHANGED connected
  /\ UNCHANGED <<nextSid, alive, bound, mac, network>>

\* ... or, under the same lock, the session finds that it is an old one,
RegisterRefused(s) ==
  /\ pc[s] = "bind"
  /\ Stale(s)
  /\ pc' = [pc EXCEPT ![s] = "stale"]
  /\ UNCHANGED <<nextSid, alive, bound, mac, connected, prev, registry, network>>

\* Mutant: the refused session returns from _register without closing.
CloseSelfForgotten(s) ==
  /\ pc[s] = "stale"
  /\ pc' = [pc EXCEPT ![s] = "recv"]
  /\ UNCHANGED <<nextSid, alive, bound, mac, connected, prev, registry, network>>

\* and closes itself after the lock.
CloseSelf(s) ==
  /\ pc[s] = "stale"
  /\ alive' = [alive EXCEPT ![s] = FALSE]
  /\ pc' = [pc EXCEPT ![s] = "recv"]
  /\ UNCHANGED <<nextSid, bound, mac, connected, prev, registry, network>>

\* After the lock: prev.close(), then the rest of _register.
ClosePrev(s) ==
  /\ pc[s] = "evict"
  /\ alive' = [alive EXCEPT ![prev[s]] = FALSE]
  /\ connected' = [connected EXCEPT ![s] = TRUE]
  /\ prev' = [prev EXCEPT ![s] = NoSid]
  /\ pc' = [pc EXCEPT ![s] = "recv"]
  /\ UNCHANGED <<nextSid, bound, mac, registry, network>>

\* Mutant: run loops for ever and only the socket ends it.
LeaveLoopIgnoresAlive(s) ==
  /\ pc[s] = "recv"
  /\ peer[s] = "closed"
  /\ pc' = [pc EXCEPT ![s] = "final"]
  /\ UNCHANGED <<nextSid, alive, bound, mac, connected, prev, registry, network>>

\* The loop ends: _alive is cleared, recv returns b"", or it raises, in which
\* case what had arrived may never be read.
LeaveLoop(s) ==
  /\ pc[s] = "recv"
  /\ ~alive[s] \/ peer[s] = "closed"
  /\ pc' = [pc EXCEPT ![s] = "final"]
  /\ UNCHANGED <<nextSid, alive, bound, mac, connected, prev, registry, network>>

\* Mutant: a silent socket is waited for without end (before 0.15.8).
IdleTimeoutContinues(s) ==
  /\ pc[s] = "recv"
  /\ UNCHANGED vars

\* recv times out and nothing has been heard for XMPP_IDLE_S.  A rabbit that
\* is still there writes a space every 8 s, so only a lost one is silent.
IdleTimeout(s) ==
  /\ IdleDrop
  /\ pc[s] = "recv"
  /\ alive[s] /\ bound[s]
  /\ peer[s] = "lost" /\ inbox[s] = <<>>
  /\ pc' = [pc EXCEPT ![s] = "final"]
  /\ UNCHANGED <<nextSid, alive, bound, mac, connected, prev, registry, network>>

\* Mutant: it takes the rabbit out whoever is registered.
CleanupIgnoresSelf(s) ==
  /\ pc[s] = "final"
  /\ pc' = [pc EXCEPT ![s] = "done"]
  /\ inbox' = [inbox EXCEPT ![s] = <<>>]
  /\ bunnies' = [m \in Macs |-> IF m = mac[s] THEN NoSid ELSE bunnies[m]]
  /\ lastSeen' = lastSeen \cup {mac[s]}
  /\ UNCHANGED <<nextSid, alive, bound, mac, connected, prev,
                 rabbit, peer, said>>

\* Mutant: it closes the socket and leaves BUNNIES alone.
CleanupLeavesGhost(s) ==
  /\ pc[s] = "final"
  /\ pc' = [pc EXCEPT ![s] = "done"]
  /\ inbox' = [inbox EXCEPT ![s] = <<>>]
  /\ UNCHANGED <<nextSid, alive, bound, mac, connected, prev, registry,
                 rabbit, peer, said>>

\* The finally clause of run: the registry under BUNNIES_LOCK, then conn.close,
\* which discards what was not read.
Cleanup(s) ==
  /\ pc[s] = "final"
  /\ pc' = [pc EXCEPT ![s] = "done"]
  /\ inbox' = [inbox EXCEPT ![s] = <<>>]
  /\ IF mac[s] # NoMac /\ bunnies[mac[s]] = s
       THEN /\ bunnies' = [bunnies EXCEPT ![mac[s]] = NoSid]
            /\ lastSeen' = lastSeen \cup {mac[s]}
       ELSE UNCHANGED registry
  /\ UNCHANGED <<nextSid, alive, bound, mac, connected, prev,
                 rabbit, peer, said>>

-----------------------------------------------------------------------------
(* The other threads.  Nothing reads _alive once the session's thread is    *)
(* over, so what they do to a finished session is left out.                *)

\* An API thread or a timer pushes on a socket whose rabbit is gone, and
\* sendall raises.
SendFails(s) ==
  /\ pc[s] \notin {"none", "done"}
  /\ alive[s]
  /\ peer[s] # "up"
  /\ alive' = [alive EXCEPT ![s] = FALSE]
  /\ UNCHANGED <<nextSid, pc, bound, mac, connected, prev, registry, network>>

\* The timer behind _check_sound_ack closes a session that a command was
\* pushed on.  (Which sound went unanswered is SpeakerMic's business.)
SoundAckDrop(s) ==
  /\ pc[s] \notin {"none", "done"}
  /\ alive[s] /\ connected[s]
  /\ alive' = [alive EXCEPT ![s] = FALSE]
  /\ UNCHANGED <<nextSid, pc, bound, mac, connected, prev, registry, network>>

-----------------------------------------------------------------------------
ThreadStep(s) ==
  \/ HandleAuth(s) \/ HandleBind(s) \/ HandleSession(s)
  \/ Register(s) \/ RegisterRefused(s) \/ CloseSelf(s) \/ ClosePrev(s)
  \/ LeaveLoop(s) \/ IdleTimeout(s) \/ Cleanup(s)

Next ==
  \/ \E m \in Macs : Accept(m)
  \/ \E s \in Sids :
       \/ \E st \in Stanzas : RabbitSays(s, st)
       \/ \E how \in {"closed", "lost"} : RabbitLeaves(s, how)
       \/ ThreadStep(s)
       \/ SendFails(s) \/ SoundAckDrop(s)

\* Each session has an operating-system thread of its own that is scheduled
\* for as long as it has something to do.  Nothing is assumed of the rabbit.
Fairness == \A s \in Sids : WF_vars(ThreadStep(s))

Spec == Init /\ [][Next]_vars
FairSpec == Spec /\ Fairness
=============================================================================
