----------------------------- MODULE Presence -----------------------------
(***************************************************************************)
(* What the warren promises about a rabbit being reachable: each rabbit is *)
(* online through at most one session, a session is only ever displaced by *)
(* a later one, and the moment a rabbit goes offline it is listed under    *)
(* last_seen, where it stays until it is online again.  It is this that    *)
(* /api/status reports and that every /api/ command picks its target from. *)
(***************************************************************************)
EXTENDS Naturals

CONSTANTS Macs,    \* the rabbits, by MAC address
          Sids     \* the session numbers (1, 2, ...), in the order of the connections

NoSid == 0

VARIABLES bunnies,    \* mac -> the session commands go to, or NoSid
          lastSeen    \* the macs listed as offline since some date

vars == <<bunnies, lastSeen>>

Init == /\ bunnies = [m \in Macs |-> NoSid]
        /\ lastSeen = {}

\* The rabbit comes online: a session takes an empty place, or takes it over
\* from an earlier session.
Online(m, s) == /\ bunnies[m] < s
                /\ bunnies' = [bunnies EXCEPT ![m] = s]
                /\ lastSeen' = lastSeen \ {m}

Offline(m) == /\ bunnies[m] # NoSid
              /\ bunnies' = [bunnies EXCEPT ![m] = NoSid]
              /\ lastSeen' = lastSeen \cup {m}

Next == \E m \in Macs : Offline(m) \/ \E s \in Sids : Online(m, s)

Spec == Init /\ [][Next]_vars
=============================================================================
