\* Two rabbits and two connections, under the fairness of the session threads:
\* with every session a bind, a session and a rebind can be in flight while the
\* other is being displaced. SessionRegistryProofs has no bound on either.
CONSTANTS
  m1 = m1
  m2 = m2
  Macs <- TwoRabbits
  NoMac = NoMac
  MaxSid = 2
  MaxInbox = 1
  IdleDrop = TRUE
SPECIFICATION FairSpec
INVARIANTS TypeOK NoGhost NewestWins LastSeenAgrees
PROPERTIES ImplementsPresence DisplacedEnds LostRabbitGoesOffline BindIsServed
CHECK_DEADLOCK FALSE
