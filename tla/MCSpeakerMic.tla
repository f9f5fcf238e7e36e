---------------------------- MODULE MCSpeakerMic ----------------------------
(***************************************************************************)
(* SpeakerMic for TLC: the scenarios of the configurations, each described *)
(* by where it departs from a rabbit at rest.                              *)
(***************************************************************************)
EXTENDS SpeakerMicProps

AtRest == [jingle |-> FALSE, autoListen |-> FALSE, saved |-> "on",
           prompt |-> TRUE, patient |-> TRUE, preempt |-> FALSE,
           clients |-> {}, requests |-> 0, wakes |-> 0, sessions |-> 1, deaf |-> 0]

Toggles == {"play", "micOn", "micOff"}

\* One request at a time, among lost connections and deaf spells.
ThreeRequests == [AtRest EXCEPT !.clients = Toggles, !.requests = 3]
WithJingle  == [ThreeRequests EXCEPT !.jingle = TRUE, !.sessions = 2, !.deaf = 1]
Reconnecting == [AtRest EXCEPT !.jingle = TRUE, !.clients = {"play"}, !.requests = 1,
                               !.sessions = 3, !.deaf = 1]
SlowNetwork == [AtRest EXCEPT !.prompt = FALSE, !.clients = Toggles, !.requests = 2,
                              !.sessions = 2, !.deaf = 1]
FreshInstall == [ThreeRequests EXCEPT !.autoListen = TRUE, !.saved = "none", !.sessions = 2]
TwoWakeWords == [ThreeRequests EXCEPT !.jingle = TRUE, !.wakes = 2]
OneAtATime == {WithJingle, Reconnecting, SlowNetwork, FreshInstall, TwoWakeWords}

\* A phrase, the jingle and a wake word in any overlap.
Overlap == [AtRest EXCEPT !.jingle = TRUE, !.patient = FALSE, !.clients = {"voice"},
                          !.requests = 1, !.wakes = 1]
OverlapPreempted == [Overlap EXCEPT !.preempt = TRUE, !.saved = "off"]
Overlaps == {Overlap, OverlapPreempted}

AllScenarios == OneAtATime \cup Overlaps

\* What the documentation speaks of and the code does not keep.
PhraseWhileListening == {[AtRest EXCEPT !.clients = {"voice"}, !.requests = 1]}
=============================================================================
