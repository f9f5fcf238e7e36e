------------------------------ MODULE Firmware ------------------------------
(***************************************************************************)
(* What a rabbit's updates promise: it goes from one whole firmware to     *)
(* another, which the one it leaves trusts; and only a flash that did not  *)
(* take, or a power cut while it was being written, can leave it with none. *)
(***************************************************************************)
CONSTANTS Images, Broken

VARIABLES booted,   \* the firmware it started from
          hurt      \* has the flash, or the power, failed under a write?

Init == booted \in Images \ {Broken} /\ hurt = FALSE

Install ==
  /\ booted # Broken
  /\ booted' \in {i \in Images \ {Broken} : i.sig = booted.key}
  /\ UNCHANGED hurt

\* The flash fails, or loses its power, under a write; from then on it may be
\* found at any start that no whole firmware is left.
Fail == hurt' = TRUE /\ booted' \in {booted, Broken}

Spec == Init /\ [][Install \/ Fail]_<<booted, hurt>>
=============================================================================
