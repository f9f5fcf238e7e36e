-------------------------- MODULE SpeakerMicProps --------------------------
(* What the server promises about the microphone and the loudspeaker. *)
EXTENDS SpeakerMic, FiniteSets

\* All but TypeOK and HoldIsCounted are promises to a patient user, who waits
\* until a request has had its effect before the next one.

TypeOK ==
  /\ scenario \in Scenario
  /\ WAKE \in [on : BOOLEAN, streaming : BOOLEAN, rearm : BOOLEAN, hold : Nat,
               capturing : BOOLEAN, cooling : BOOLEAN]
  /\ hasListen \in BOOLEAN
  /\ session \in [Sess -> [resource : {"Boot", "idle", "streaming"}, bound : BOOLEAN,
                           inited : BOOLEAN, soundAt : BOOLEAN]]
  /\ ref \in [Threads -> 0..MaxSess]
  /\ copy \in [Threads -> Nat]
  /\ turn \in Threads \cup {Nobody}
  /\ sess \in 0..MaxSess
  /\ link \in BOOLEAN
  /\ rabbit \in [streamOn : BOOLEAN, arp : BOOLEAN, rec : BOOLEAN,
                 play : {"none", "fetching", "playing", "muted"},
                 deaf : BOOLEAN, refused : BOOLEAN]

\* No sound the server pushes meets a live capture: "Every pushed sound gets
\* the speaker to itself" (CHANGELOG 0.16.0).
SoundGetsSpeaker == scenario.patient => ~rabbit.refused

\* What the server believes of the microphone is what the rabbit does: neither
\* a capture nobody knows of, nor one that was refused in silence.
BeliefIsTrue == (scenario.patient /\ Settled /\ ~rabbit.deaf) => (WAKE.streaming <=> rabbit.rec)

\* The microphone is where the user put it: it comes back after every sound and
\* every reconnection, and once turned off it stays off.
MicFollowsUser == (scenario.patient /\ Settled /\ ~rabbit.deaf) => (rabbit.rec <=> wanted)

\* The hold counts the operations that have taken it and not yet released it,
\* the jingle's being taken for it by the session thread; unless an update is
\* lost between the read and the write.
With(step) == {t \in Threads : Contains(ctl[t], step)}
HoldIsCounted ==
  ~scenario.preempt =>
    WAKE.hold = Cardinality(With("decHold")) - Cardinality(With("incHold"))

\* The microphone does come back.
MicComesBack ==
  <>[](scenario.patient /\ wanted /\ link /\ ~rabbit.deaf) => <>[](rabbit.rec)

\* A rabbit that stopped applying what it is sent is found out by the sound it
\* does not answer, no answer being on its way, and made to reconnect.
DeafRabbitIsDropped ==
  (scenario.patient /\ rabbit.deaf /\ link /\ session[sess].soundAt /\ toServer = <<>>)
    ~> (~link \/ ~rabbit.deaf)
=============================================================================
