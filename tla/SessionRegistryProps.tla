----------------------- MODULE SessionRegistryProps -----------------------
(* What the session registry must guarantee. *)
EXTENDS SessionRegistry

\* A session whose thread has ended, or that belongs to another rabbit, is
\* never the one commands are sent to: the finally clause of run leaves no
\* ghost in BUNNIES, whatever interleaves with it.
NoGhost ==
  \A m \in Macs : bunnies[m] # NoSid =>
    /\ pc[bunnies[m]] \notin {"none", "done"}
    /\ mac[bunnies[m]] = m

\* A session that has registered and is still alive is the registered one,
\* unless the session that displaced it is at this moment about to close it.
\* So no live session is shadowed by a dead one (CHANGELOG 0.15.8), and none
\* that has been displaced is forgotten: that was one leaked socket and one
\* leaked thread per reconnect.
NewestWins ==
  \A s \in Sids :
    (alive[s] /\ connected[s] /\ pc[s] \notin {"final", "done"}) =>
      \/ bunnies[mac[s]] = s
      \/ \E t \in Sids : pc[t] = "evict" /\ prev[t] = s

\* /api/status never shows a rabbit both online and offline since a date, and
\* once a registered session is over with no successor the date is there.
LastSeenAgrees ==
  /\ \A m \in lastSeen : bunnies[m] = NoSid
  /\ \A s \in Sids :
       (pc[s] = "done" /\ connected[s] /\ bunnies[mac[s]] = NoSid)
         => mac[s] \in lastSeen

\* The registry implements the abstract presence of a rabbit; in particular a
\* late bind on an old socket never puts it back over a newer session.
Abstract == INSTANCE Presence
              WITH Macs <- Macs, Sids <- Sids, bunnies <- bunnies, lastSeen <- lastSeen
ImplementsPresence == Abstract!Spec

\* A displaced session is not only marked closed: its thread ends.
DisplacedEnds ==
  \A s \in Sids :
    (\E t \in Sids : pc[t] = "evict" /\ prev[t] = s) ~> (pc[s] = "done")

\* A rabbit that vanishes without closing its socket does not stay online for
\* ever: once its session is bound, the registry lets go of it.
LostRabbitGoesOffline ==
  \A s \in Sids :
    (peer[s] = "lost" /\ bound[s]) ~> (\A m \in Macs : bunnies[m] # s)

\* A bind that has reached the server is never left in between: its session
\* becomes the one commands go to, or it ends and with it its thread, even when
\* the rabbit has silently reconnected and the old socket says nothing more.
BindIsServed ==
  \A s \in Sids, m \in Macs :
    (rabbit[s] = m /\ inbox[s] # <<>> /\ Head(inbox[s]) = "bind")
      ~> (bunnies[m] = s \/ pc[s] = "done")
=============================================================================
