----------------------------- MODULE SpeakerMic -----------------------------
(***************************************************************************)
(* Who has the rabbit's one codec: the microphone or the loudspeaker.      *)
(* The firmware refuses a sound while it records and a recording while it  *)
(* plays, both without a word, so nabaztag-violet/server.py stops the      *)
(* microphone around every sound and gives it back afterwards.  Its        *)
(* book-keeping is the WAKE dictionary and XmppSession.resource, shared    *)
(* without a lock by the session thread, the API threads, the timers and   *)
(* the wake loop.                                                          *)
(*                                                                         *)
(* A thread is the sequence of steps it has still to take; an operation is *)
(* the sequence it consists of.  The server and the rabbit talk over one   *)
(* TCP connection, in order, until it drops.                               *)
(***************************************************************************)
EXTENDS Integers, Sequences, SequencesExt

CONSTANTS Scenarios,    \* what the runs of the system may start from
          MaxSess       \* bound: connections of the rabbit

Requests == {"play", "voice", "micOn", "micOff"}
Sess == 1..MaxSess

\* The settings of the add-on, the timing assumed, and bounds on what is still
\* to come from outside.
Scenario ==
  [jingle : BOOLEAN,               \* CONNECT_JINGLE is set
   autoListen : BOOLEAN,           \* AUTO_LISTEN
   saved : {"on", "off", "none"},  \* "listen" in state.json at the start
   prompt : BOOLEAN,    \* network and rabbit answer well within a second
   patient : BOOLEAN,   \* requests wait until the previous sound is over
   preempt : BOOLEAN,   \* threads also switch at any call, not only where one
                        \* sends or sleeps
   clients : SUBSET Requests,      \* the requests that come in,
   requests : Nat,                 \* bound: how many of them
   wakes : Nat,                    \* bound: wake words heard
   sessions : Sess,                \* bound: connections of the rabbit
   deaf : Nat]                     \* bound: times it stops applying commands

ASSUME SpeakerMicAssumption ==
  MaxSess \in Nat \ {0} /\ Scenarios \subseteq Scenario

Timers == {"clear", "jingle", "listen"} \X Sess
Workers == {"session", "api", "voice", "wake"} \X {0}
Threads == Workers \cup Timers
T(name) == <<name, 0>>
Nobody == <<"nobody", 0>>

VARIABLES
  WAKE,         \* the dictionary; cooling: before WAKE["cooldown"]
  hasListen,    \* _STATE_LOADED["has_listen"]
  session,      \* number -> resource, bound, _session_inited, _sound_at # None
  ctl,          \* thread -> the steps it has still to take
  ref,          \* thread -> the session it works for
  copy,         \* thread -> what it read from WAKE["hold"]
  turn,         \* the thread that is between two switch points, or Nobody
  sess,         \* the number of the latest connection
  link,         \* it is up
  toRabbit,     \* programs under way
  toServer,     \* stanzas under way: the resources bound, and "session"
  rabbit,       \* streamOn: g_stream_on; arp: a request is pending; rec: rec_state;
                \* play: fetching, playing or none; deaf; refused: play_start
                \* has refused a sound
  wanted,       \* what the user last asked of the microphone
  scenario      \* its bounds count down, its settings stay

wire == <<sess, link, toRabbit, toServer>>
threads == <<ctl, ref, copy, turn>>
vars == <<WAKE, hasListen, session, threads, wire, rabbit, wanted, scenario>>

Init ==
  /\ scenario \in Scenarios
  /\ WAKE = [on |-> scenario.saved = "on", streaming |-> FALSE, rearm |-> FALSE, hold |-> 0,
             capturing |-> FALSE, cooling |-> FALSE]
  /\ hasListen = (scenario.saved # "none")
  /\ session = [s \in Sess |-> [resource |-> "Boot", bound |-> FALSE,
                                inited |-> FALSE, soundAt |-> FALSE]]
  /\ ctl = [t \in Threads |-> <<>>]
  /\ ref = [t \in Threads |-> 0]
  /\ copy = [t \in Threads |-> 0]
  /\ turn = Nobody
  /\ sess = 0 /\ link = FALSE /\ toRabbit = <<>> /\ toServer = <<>>
  /\ rabbit = [streamOn |-> FALSE, arp |-> FALSE, rec |-> FALSE,
               play |-> "none", deaf |-> FALSE, refused |-> FALSE]
  /\ wanted = IF hasListen THEN WAKE.on ELSE scenario.autoListen

-----------------------------------------------------------------------------
(* The operations, as the steps they take *)

SendSound == <<"free", "ack", "ST">>
Hold      == <<"readHold", "incHold">>
Unhold    == <<"readHold", "decHold">>
MicOff    == <<"off", "RT", "save">>
ClearMic  == <<"RT", "unstream">>

\* One or two sounds; the first is waited for, the last is not.
Speak(n) == Hold \o (IF n = 2 THEN SendSound \o <<"sleep">> ELSE <<>>)
                 \o SendSound \o Unhold \o <<"released">>

\* MUTANT: the hold is not released after the jingle.
ConnectJingleLeaksHold(listen) == (IF listen THEN <<"owe">> ELSE <<>>) \o SendSound

ConnectJingle(listen) == (IF listen THEN <<"owe">> ELSE <<>>) \o SendSound \o Unhold

\* MUTANT: the microphone is stopped but still believed to stream.
AnswerForgetsStop == <<"capture", "collected", "RT", "chill", "ack", "ST", "think">>
                       \o Speak(1) \o <<"chill">>

\* MUTANT: nothing stops the microphone before the reply but the sound itself.
AnswerWithoutRT == <<"capture", "collected", "chill">>
                     \o SendSound \o <<"think">> \o Speak(1) \o <<"chill">>

\* What the wake loop does about a wake word, the chime included.
Answer == <<"capture", "collected", "RT", "unstream", "chill">>
            \o SendSound \o <<"think">> \o Speak(1) \o <<"chill">>

Sleeps == {"sleep", "collected", "think", "wait"}
SwitchPoints == Sleeps \cup {"RT", "RS", "ST"}

-----------------------------------------------------------------------------
(* The steps *)

Free(t) == ctl[t] = <<>> /\ turn = Nobody

\* Seconds go by: no thread has been runnable all that time, and what was under
\* way has been delivered.
SecondsPass ==
  /\ \A t \in Threads : ctl[t] # <<>> => Head(ctl[t]) \in Sleeps
  /\ scenario.prompt => toRabbit = <<>> /\ toServer = <<>> /\ ~rabbit.arp

\* Thread t takes the step op, goes on with the steps more, then the rest.
Goes(t, op, more) ==
  /\ ctl[t] # <<>> /\ Head(ctl[t]) = op
  /\ turn \in {Nobody, t}
  /\ LET rest == more \o Tail(ctl[t])
     IN  /\ ctl' = [ctl EXCEPT ![t] = rest]
         /\ turn' = IF scenario.preempt \/ op \in SwitchPoints \/ rest = <<>>
                      THEN Nobody ELSE t

\* send: to a session that is over it goes nowhere.
Push(t, program) ==
  /\ Goes(t, program, <<>>)
  /\ toRabbit' = IF link /\ ref[t] = sess THEN Append(toRabbit, program) ELSE toRabbit
  /\ UNCHANGED <<WAKE, hasListen, session, ref, copy, sess, link, toServer>>

\* MUTANT: a sound is sent without a look at the microphone.
FreeSpeakerNot(t) == Goes(t, "free", <<>>) /\ UNCHANGED <<WAKE, hasListen, session, copy>>

\* _free_the_speaker, up to its RT
FreeSpeaker(t) ==
  /\ Goes(t, "free", IF WAKE.streaming THEN <<"RT", "unstream", "owe">> ELSE <<>>)
  /\ UNCHANGED <<WAKE, hasListen, session, copy>>

\* send_program arms the sound-ack timer of a rabbit that is idle.
ArmAck(t) ==
  /\ Goes(t, "ack", <<>>)
  /\ session' = [session EXCEPT ![ref[t]].soundAt = @ \/ session[ref[t]].resource = "idle"]
  /\ UNCHANGED <<WAKE, hasListen, copy>>

\* WAKE["hold"] = WAKE.get("hold") + 1 is a read and a write.
ReadHold(t) ==
  /\ Goes(t, "readHold", <<>>)
  /\ copy' = [copy EXCEPT ![t] = WAKE.hold]
  /\ UNCHANGED <<WAKE, hasListen, session>>

IncHold(t) ==
  /\ Goes(t, "incHold", <<>>)
  /\ WAKE' = [WAKE EXCEPT !.hold = copy[t] + 1]
  /\ UNCHANGED <<hasListen, session, copy>>

\* MUTANT: the max(0, ...) is missing.
DecHoldBelowZero(t) ==
  /\ Goes(t, "decHold", <<>>)
  /\ WAKE' = [WAKE EXCEPT !.hold = copy[t] - 1]
  /\ UNCHANGED <<hasListen, session, copy>>

DecHold(t) ==
  /\ Goes(t, "decHold", <<>>)
  /\ WAKE' = [WAKE EXCEPT !.hold = IF copy[t] = 0 THEN 0 ELSE copy[t] - 1]
  /\ UNCHANGED <<hasListen, session, copy>>

\* The end of _hold_speaker.
Released(t) ==
  /\ Goes(t, "released", IF WAKE.hold = 0 THEN <<"rearm">> ELSE <<>>)
  /\ UNCHANGED <<WAKE, hasListen, session, copy>>

\* _rearm_mic_if_owed: the two tests, then the debt is settled.
Rearm(t) ==
  /\ Goes(t, "rearm", IF WAKE.hold = 0 /\ WAKE.rearm THEN <<"settle">> ELSE <<>>)
  /\ UNCHANGED <<WAKE, hasListen, session, copy>>

Settle(t) ==
  /\ Goes(t, "settle", IF WAKE.on THEN <<"listen">> ELSE <<>>)
  /\ WAKE' = [WAKE EXCEPT !.rearm = FALSE]
  /\ UNCHANGED <<hasListen, session, copy>>

\* _start_listen: deferred unless the resource is idle.
StartListen(t) ==
  /\ Goes(t, "listen", IF session[ref[t]].resource = "idle"
                         THEN <<"stream", "RS", "save">> ELSE <<"owe", "save">>)
  /\ WAKE' = [WAKE EXCEPT !.on = TRUE]
  /\ UNCHANGED <<hasListen, session, copy>>

\* _save_state
Save(t) ==
  /\ Goes(t, "save", <<>>)
  /\ hasListen' = TRUE
  /\ UNCHANGED <<WAKE, session, copy>>

\* Assignments to WAKE, each a step of one of the operations above.
SetWAKE(t) ==
  /\ \/ Goes(t, "unstream", <<>>) /\ WAKE' = [WAKE EXCEPT !.streaming = FALSE]
     \/ Goes(t, "owe", <<>>) /\ WAKE' = [WAKE EXCEPT !.rearm = TRUE]
     \/ Goes(t, "stream", <<>>) /\ WAKE' = [WAKE EXCEPT !.streaming = TRUE,
                                                        !.cooling = FALSE]
     \/ Goes(t, "capture", <<>>) /\ WAKE' = [WAKE EXCEPT !.capturing = TRUE]
     \/ Goes(t, "collected", <<>>) /\ SecondsPass /\ WAKE' = [WAKE EXCEPT !.capturing = FALSE]
     \/ Goes(t, "chill", <<>>) /\ WAKE' = [WAKE EXCEPT !.cooling = TRUE]
  /\ UNCHANGED <<hasListen, session, copy>>

\* MUTANT: WAKE["streaming"] is left alone.
OffKeepsStreaming(t) ==
  /\ Goes(t, "off", <<>>)
  /\ WAKE' = [WAKE EXCEPT !.on = FALSE, !.rearm = FALSE]
  /\ UNCHANGED <<hasListen, session, copy>>

\* /api/mic?on=0, up to its RT
Off(t) ==
  /\ Goes(t, "off", <<>>)
  /\ WAKE' = [WAKE EXCEPT !.on = FALSE, !.streaming = FALSE, !.rearm = FALSE]
  /\ UNCHANGED <<hasListen, session, copy>>

SoundUnderWay == rabbit.play # "none" \/ Contains(toRabbit, "ST")

\* The agent thinks; or _speak sleeps for the duration of a sound and a bit: a
\* prompt rabbit has played it by then.
Wait(t) ==
  /\ Goes(t, "think", <<>>) \/ (Goes(t, "sleep", <<>>) /\ (scenario.prompt => ~SoundUnderWay))
  /\ SecondsPass
  /\ UNCHANGED <<WAKE, hasListen, session, copy>>

\* A timer fires, after the one of the same session with the shorter delay.
Fire(t) ==
  /\ Goes(t, "wait", <<>>)
  /\ SecondsPass
  /\ t[1] = "clear" \/ ctl[<<"clear", t[2]>>] = <<>>
  /\ UNCHANGED <<WAKE, hasListen, session, copy>>

Step(t) ==
  /\ ctl[t] # <<>>
  /\ \/ /\ \/ FreeSpeaker(t) \/ ArmAck(t) \/ ReadHold(t) \/ IncHold(t) \/ DecHold(t)
           \/ Released(t) \/ Rearm(t) \/ Settle(t) \/ StartListen(t) \/ Save(t)
           \/ SetWAKE(t) \/ Off(t) \/ Wait(t) \/ Fire(t)
        /\ UNCHANGED <<ref, wire>>
     \/ \E program \in {"RT", "RS", "ST"} : Push(t, program)
  /\ UNCHANGED <<rabbit, wanted, scenario>>

-----------------------------------------------------------------------------
(* The session thread *)

Reads(stanza) ==
  /\ Free(T("session"))
  /\ toServer # <<>> /\ Head(toServer) = stanza
  /\ toServer' = Tail(toServer)
  /\ ref' = [ref EXCEPT ![T("session")] = sess]
  /\ UNCHANGED <<WAKE, hasListen, copy, turn, sess, link, toRabbit, rabbit, wanted, scenario>>

\* MUTANT: the debt is settled by a session only.
HandleBindWithoutRearm(r) ==
  /\ Reads(r)
  /\ session' = [session EXCEPT ![sess].resource = r, ![sess].soundAt = FALSE]
  /\ UNCHANGED ctl

HandleBind(r) ==
  /\ Reads(r)
  /\ session' = [session EXCEPT ![sess].resource = r, ![sess].soundAt = FALSE]
  /\ ctl' = [ctl EXCEPT ![T("session")] =
               IF session[sess].bound /\ r = "idle" THEN <<"rearm">> ELSE <<>>]

HandleSession ==
  /\ Reads("session")
  /\ session' = [session EXCEPT ![sess].bound = TRUE]
  /\ ctl' = [ctl EXCEPT ![T("session")] =
               IF session[sess].resource # "idle" THEN <<>>
               ELSE IF session[sess].inited THEN <<"rearm">> ELSE <<"rearm", "init">>]

\* MUTANT: AUTO_LISTEN wins over what the user asked for.
WantListenAuto == WAKE.on \/ scenario.autoListen

WantListen == IF hasListen THEN WAKE.on ELSE scenario.autoListen

\* MUTANT: once per process.
ShouldClearMicOnce == sess = 1

\* _should_clear_mic
ShouldClearMic == ~WAKE.capturing

\* The first session on idle arms the timers of the connection.
InitSession ==
  LET t == T("session")  s == ref[t]
      armed == (IF ShouldClearMic THEN {"clear"} ELSE {})
                 \cup (IF scenario.jingle THEN {"jingle"} ELSE IF WantListen THEN {"listen"} ELSE {})
      program == [clear |-> ClearMic, jingle |-> ConnectJingle(WantListen),
                  listen |-> <<"listen">>]
  IN  /\ ctl[t] = <<"init">> /\ turn \in {Nobody, t}
      /\ turn' = Nobody
      /\ ctl' = [u \in Threads |->
                   CASE u = t -> IF scenario.jingle THEN Hold ELSE <<>>
                     [] u \in armed \X {s} -> <<"wait">> \o program[u[1]]
                     [] OTHER -> ctl[u]]
      /\ ref' = [u \in Threads |-> IF u \in armed \X {s} THEN s ELSE ref[u]]
      /\ session' = [session EXCEPT ![s].inited = TRUE]
      /\ UNCHANGED <<WAKE, hasListen, copy, wire, rabbit, wanted, scenario>>

-----------------------------------------------------------------------------
(* Requests and the wake loop *)

Registered == link /\ session[sess].resource # "Boot"

Starts(t, steps) ==
  /\ Free(t)
  /\ Registered
  /\ ctl' = [ctl EXCEPT ![t] = steps]
  /\ ref' = [ref EXCEPT ![t] = sess]
  /\ UNCHANGED <<WAKE, hasListen, session, copy, turn, wire, rabbit>>

\* The wake loop's guard for putting the microphone back itself.
LoopWouldRearm == /\ WAKE.on /\ ~WAKE.streaming /\ ~WAKE.cooling
                  /\ WAKE.hold = 0 /\ ~WAKE.rearm

\* Nothing is under way and nothing will happen by itself any more.  A patient
\* client waits for that.
Settled ==
  /\ Registered /\ session[sess].inited
  /\ \A t \in Threads : ctl[t] = <<>>
  /\ toRabbit = <<>> /\ toServer = <<>>
  /\ rabbit.play = "none" /\ ~rabbit.arp
  /\ ~WAKE.cooling /\ ~LoopWouldRearm

Ask(request) ==
  /\ request \in scenario.clients
  /\ scenario.requests > 0
  /\ scenario.patient => Settled
  /\ CASE request = "play"   -> Starts(T("api"), SendSound)
       [] request = "micOn"  -> Starts(T("api"), <<"listen">>)
       [] request = "micOff" -> Starts(T("api"), MicOff)
       [] request = "voice"  -> \E n \in 1..2 : Starts(T("voice"), Speak(n))
  /\ wanted' = CASE request = "micOn" -> TRUE
                 [] request = "micOff" -> FALSE
                 [] OTHER -> wanted
  /\ scenario' = [scenario EXCEPT !.requests = @ - 1]

LoopRearms ==
  /\ LoopWouldRearm
  /\ Starts(T("wake"), <<"listen">>)
  /\ UNCHANGED <<wanted, scenario>>

HearsWakeWord ==
  /\ scenario.wakes > 0
  /\ WAKE.on /\ WAKE.streaming /\ ~WAKE.cooling
  /\ rabbit.rec /\ rabbit.streamOn
  /\ scenario.patient => Settled
  /\ Starts(T("wake"), Answer)
  /\ scenario' = [scenario EXCEPT !.wakes = @ - 1]
  /\ UNCHANGED wanted

\* The cooldown of a reply: its duration and six seconds.
CooldownOver ==
  /\ WAKE.cooling
  /\ ctl[T("wake")] = <<>> /\ SecondsPass
  /\ scenario.prompt => ~SoundUnderWay
  /\ WAKE' = [WAKE EXCEPT !.cooling = FALSE]
  /\ UNCHANGED <<hasListen, session, threads, wire, rabbit, wanted, scenario>>

-----------------------------------------------------------------------------
(* The connection *)

Lost ==
  /\ link' = FALSE /\ toRabbit' = <<>> /\ toServer' = <<>>
  /\ rabbit' = [rabbit EXCEPT !.play = "none"]
  /\ UNCHANGED <<WAKE, hasListen, threads, sess, wanted, scenario>>

Drop == link /\ sess < scenario.sessions /\ Lost /\ UNCHANGED session

\* MUTANT: it is only logged.
AckTimeoutOnlyLogs ==
  /\ link /\ session[sess].soundAt /\ SecondsPass
  /\ session' = [session EXCEPT ![sess].soundAt = FALSE]
  /\ UNCHANGED <<WAKE, hasListen, threads, wire, rabbit, wanted, scenario>>

\* _check_sound_ack: ten seconds after a sound without a bind.
AckTimeout ==
  /\ link /\ session[sess].soundAt /\ SecondsPass
  /\ session' = [session EXCEPT ![sess].soundAt = FALSE]
  /\ Lost

\* The rabbit reconnects and binds, at least five seconds later: the timers of
\* the session before, four seconds at most, have all fired by then.  A capture
\* of its own goes on meanwhile.
Connect ==
  /\ ~link /\ sess < scenario.sessions /\ SecondsPass
  /\ \A t \in Timers : ctl[t] = <<>>
  /\ sess' = sess + 1 /\ link' = TRUE
  /\ toServer' = <<"idle", "session">>
  /\ rabbit' = [rabbit EXCEPT !.deaf = FALSE]
  /\ UNCHANGED <<WAKE, hasListen, session, threads, toRabbit, wanted, scenario>>

-----------------------------------------------------------------------------
(* The rabbit: micstream.mtl over hal/audio.c, and the bytecode that plays *)

RabbitStep == UNCHANGED <<WAKE, hasListen, session, threads, sess, link, wanted, scenario>>

Applies(program) ==
  /\ toRabbit # <<>> /\ Head(toRabbit) = program
  /\ toRabbit' = Tail(toRabbit)
  /\ ~rabbit.deaf
  /\ RabbitStep

\* startmicstream asks for the MAC of the server first.
RabbitRS ==
  /\ Applies("RS")
  /\ rabbit' = [rabbit EXCEPT !.streamOn = TRUE, !.arp = TRUE]
  /\ UNCHANGED toServer

\* _cbstreammac: recStop, then recStart, which play_state refuses.
ArpReply ==
  /\ rabbit.arp
  /\ rabbit' = [rabbit EXCEPT !.arp = FALSE, !.rec = (rabbit.play # "playing")]
  /\ RabbitStep /\ UNCHANGED <<toRabbit, toServer>>

\* stopmicstream
RabbitRT ==
  /\ Applies("RT")
  /\ rabbit' = [rabbit EXCEPT !.streamOn = FALSE, !.rec = FALSE]
  /\ UNCHANGED toServer

\* A sound: the resource becomes streaming, and the file is fetched,
RabbitST ==
  /\ Applies("ST")
  /\ rabbit' = [rabbit EXCEPT !.play = "fetching"]
  /\ toServer' = IF rabbit.play = "none" THEN Append(toServer, "streaming") ELSE toServer

\* play_start is called, and refuses it if the microphone has the codec,
PlayStart ==
  /\ rabbit.play = "fetching"
  /\ rabbit' = IF rabbit.rec
                 THEN [rabbit EXCEPT !.play = "muted", !.refused = TRUE]
                 ELSE [rabbit EXCEPT !.play = "playing", !.rec = FALSE]
  /\ RabbitStep /\ UNCHANGED <<toRabbit, toServer>>

\* and at its end the resource is idle again.
PlayEnd ==
  /\ rabbit.play \in {"playing", "muted"}
  /\ SecondsPass
  /\ rabbit' = [rabbit EXCEPT !.play = "none"]
  /\ toServer' = Append(toServer, "idle")
  /\ RabbitStep /\ UNCHANGED toRabbit

\* Seen once: it binds idle and then applies nothing it is sent.
GoDeaf ==
  /\ scenario.deaf > 0
  /\ link /\ rabbit.play = "none"
  /\ rabbit' = [rabbit EXCEPT !.deaf = TRUE]
  /\ scenario' = [scenario EXCEPT !.deaf = @ - 1]
  /\ UNCHANGED <<WAKE, hasListen, session, threads, wire, wanted>>

IgnoresProgram ==
  /\ rabbit.deaf
  /\ toRabbit # <<>>
  /\ toRabbit' = Tail(toRabbit)
  /\ RabbitStep /\ UNCHANGED <<rabbit, toServer>>

-----------------------------------------------------------------------------
Rabbit == RabbitRS \/ RabbitRT \/ ArpReply \/ RabbitST \/ PlayStart \/ PlayEnd
            \/ IgnoresProgram

SessionThread == HandleSession \/ InitSession \/ \E r \in {"idle", "streaming"} : HandleBind(r)

Next ==
  \/ \E t \in Threads : Step(t)
  \/ SessionThread
  \/ \E request \in Requests : Ask(request)
  \/ LoopRearms \/ HearsWakeWord \/ CooldownOver
  \/ Drop \/ AckTimeout \/ Connect
  \/ Rabbit \/ GoDeaf

\* Every thread runs, timers fire, the network delivers, the rabbit acts on
\* what it gets and dials again when the connection is lost.  No request, wake
\* word, drop or deaf spell has to happen.  The timers of a kind go by one
\* fairness: those of one connection are over before the next is up.
Fairness ==
  /\ \A t \in Workers : WF_vars(Step(t))
  /\ \A kind \in {"clear", "jingle", "listen"} : WF_vars(\E s \in Sess : Step(<<kind, s>>))
  /\ WF_vars(SessionThread) /\ WF_vars(LoopRearms) /\ WF_vars(CooldownOver)
  /\ WF_vars(AckTimeout) /\ WF_vars(Connect) /\ WF_vars(Rabbit)

Spec == Init /\ [][Next]_vars
FairSpec == Spec /\ Fairness
=============================================================================
