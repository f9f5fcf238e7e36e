------------------------ MODULE SpeakerPatientProofs ------------------------
(***************************************************************************)
(* What a patient user is promised of the microphone and of the speaker,   *)
(* for any settings, any number of requests, connections and deaf spells:  *)
(* wherever nothing more is to come, the server is right about the         *)
(* microphone and the microphone is where the user put it; and no sound is *)
(* refused.  Wake words and spoken phrases are left to the runs (Wordless),*)
(* for the run VoiceLosesMic shows that the promises do not survive a      *)
(* phrase.  Threads may switch anywhere but in the last theorem            *)
(* (Undisturbed), and the third is for all but the first start of a server *)
(* with a jingle and nothing saved (Settable).                             *)
(***************************************************************************)
EXTENDS SpeakerMicProofs

Api == T("api")
Wake == T("wake")

\* What a thread has still to take, the first step of it and the last.
Rest(t) == IF t \in Threads THEN ctl[t] ELSE <<>>
First(q) == IF q = <<>> THEN "done" ELSE q[1]
End(q) == IF q = <<>> THEN "done" ELSE q[Len(q)]
At(t) == First(Rest(t))
SessionAt == At(Session)
ApiAt == At(Api)
WakeAt == At(Wake)
ClearAt == At(<<"clear", sess>>)
GreetAt == At(<<"jingle", sess>>)
LaterAt == At(<<"listen", sess>>)

\* What decides how a thread goes on.
ToInit == End(Rest(Session)) = "init"
ToPlay == End(Rest(Api)) = "ST"
TurnedOff == Rest(Api) = <<"RT", "save">>
ToOwe == Len(Rest(<<"jingle", sess>>)) > 1 /\ Rest(<<"jingle", sess>>)[2] = "owe"
GreetCopy == copy[<<"jingle", sess>>]

\* The connection's session, and the programs on their way to the rabbit.
Inited == sess \in Sess /\ session[sess].inited
Bound == sess \in Sess /\ session[sess].bound
Resource == IF sess \in Sess THEN session[sess].resource ELSE "Boot"
ST == Contains(toRabbit, "ST")
RT == Contains(toRabbit, "RT")
RS == Contains(toRabbit, "RS")
OneST == \A i, j \in 1..Len(toRabbit) : toRabbit[i] = "ST" /\ toRabbit[j] = "ST" => i = j
RSLast == \E i \in 1..Len(toRabbit) : /\ toRabbit[i] = "RS"
                                      /\ \A j \in i..Len(toRabbit) : toRabbit[j] # "RT"
Quiet == ~ST /\ rabbit.play = "none" /\ toServer = <<>>

\* The remainders of the operations of a scenario without phrases and wake words.
Listens == {<<>>, <<"listen">>, <<"stream", "RS", "save">>, <<"RS", "save">>, <<"save">>}
SessionRests == Listens \cup
  {<<"rearm">>, <<"settle">>,
   <<"rearm", "init">>, <<"settle", "init">>, <<"listen", "init">>,
   <<"stream", "RS", "save", "init">>, <<"RS", "save", "init">>, <<"save", "init">>, <<"init">>,
   <<"readHold", "incHold">>, <<"incHold">>}
ApiRests == Listens \cup
  {<<"free", "ack", "ST">>, <<"RT", "unstream", "owe", "ack", "ST">>,
   <<"unstream", "owe", "ack", "ST">>, <<"owe", "ack", "ST">>, <<"ack", "ST">>, <<"ST">>,
   <<"off", "RT", "save">>, <<"RT", "save">>}
WakeRests == Listens \cup {<<"owe", "save">>}
ClearRests == {<<"wait", "RT", "unstream">>, <<"RT", "unstream">>, <<"unstream">>, <<>>}
LaterRests == Listens \cup {<<"wait", "listen">>}
GreetRests ==
  {<<"wait", "owe", "free", "ack", "ST", "readHold", "decHold">>,
   <<"wait", "free", "ack", "ST", "readHold", "decHold">>,
   <<"owe", "free", "ack", "ST", "readHold", "decHold">>,
   <<"free", "ack", "ST", "readHold", "decHold">>,
   <<"RT", "unstream", "owe", "ack", "ST", "readHold", "decHold">>,
   <<"unstream", "owe", "ack", "ST", "readHold", "decHold">>,
   <<"owe", "ack", "ST", "readHold", "decHold">>,
   <<"ack", "ST", "readHold", "decHold">>, <<"ST", "readHold", "decHold">>,
   <<"readHold", "decHold">>, <<"decHold">>, <<>>}
ToST == {"wait", "owe", "free", "RT", "unstream", "ack", "ST"}

\* Threads work for the latest connection, and do what such scenarios have them do.
Rests ==
  /\ ctl[Session] \in SessionRests /\ ctl[Api] \in ApiRests /\ ctl[Wake] \in WakeRests
  /\ ctl[T("voice")] = <<>>
  /\ \A s \in Sess : /\ ctl[<<"clear", s>>] \in ClearRests /\ ctl[<<"jingle", s>>] \in GreetRests
                     /\ ctl[<<"listen", s>>] \in LaterRests
  /\ \A t \in Threads : ctl[t] # <<>> => ref[t] = sess /\ sess \in Sess
  /\ \A t \in Timers : ctl[t] # <<>> => t[2] = sess

\* No wake word, no phrase; connections to come are as new; a lost one is empty.
Setting ==
  /\ ~WAKE.capturing /\ ~WAKE.cooling
  /\ scenario.patient /\ scenario.wakes = 0 /\ "voice" \notin scenario.clients
  /\ \A s \in Sess :
       s > sess => ~session[s].bound /\ ~session[s].inited /\ session[s].resource = "Boot"
  /\ ~link => toRabbit = <<>> /\ toServer = <<>> /\ rabbit.play = "none"
  /\ link => sess \in Sess

\* A connection until its first session: nothing but the debt of the one before
\* is settled, and before the timers are armed.
Before ==
  ~Inited =>
    /\ ApiAt = "done" /\ ClearAt = "done" /\ GreetAt = "done" /\ LaterAt = "done"
    /\ rabbit.play = "none" /\ ~ST
    /\ link => \/ /\ toServer = <<"idle", "session">> /\ Resource = "Boot" /\ ~Bound
                  /\ SessionAt = "done" /\ WakeAt = "done"
               \/ /\ toServer = <<"session">> /\ Resource = "idle" /\ ~Bound
                  /\ SessionAt = "done"
               \/ toServer = <<>> /\ Resource = "idle" /\ Bound /\ ToInit
    /\ link /\ ToInit /\ SessionAt \notin {"rearm", "settle"} => ~WAKE.rearm

\* The hold is the jingle's.
Held ==
  /\ SessionAt \in {"readHold", "incHold"} =>
       /\ WAKE.hold = 0 /\ GreetAt = "wait"
       /\ SessionAt = "incHold" => copy[Session] = 0
  /\ SessionAt \notin {"readHold", "incHold"} /\ GreetAt # "done" =>
       WAKE.hold = 1 /\ (GreetAt = "decHold" => GreetCopy = 1)
  /\ GreetAt = "done" => WAKE.hold = 0
  /\ GreetAt # "done" => scenario.jingle
  /\ LaterAt # "done" => ~scenario.jingle

\* One thing at a time: before the timers are over there is no request, before
\* a sound is over there is no other, and it is over when all threads are idle.
Paced ==
  /\ Inited => Bound /\ ~ToInit
  /\ SessionAt # "done" => Resource = "idle" /\ Bound
  /\ Inited /\ SessionAt # "done" => Quiet /\ ApiAt = "done"
  /\ Inited /\ SessionAt \notin {"done", "readHold", "incHold"} =>
       ClearAt = "done" /\ GreetAt = "done" /\ LaterAt = "done"
  /\ ApiAt # "done" =>
       Quiet /\ Resource = "idle" /\ ClearAt = "done" /\ GreetAt = "done" /\ LaterAt = "done"
  /\ ClearAt # "done" \/ LaterAt # "done" \/ GreetAt \in ToST => Quiet /\ Resource = "idle"
  /\ GreetAt \notin {"wait", "done"} => ClearAt = "done"
  /\ OneST

\* A sound, from the rabbit's first bind to the last one it sends.
Sounds ==
  /\ Inited /\ link =>
       \/ rabbit.play # "none" /\ toServer = <<"streaming">> /\ Resource = "idle" /\ ~ST
       \/ rabbit.play # "none" /\ toServer = <<>> /\ Resource = "streaming" /\ ~ST
       \/ rabbit.play = "none" /\ toServer = <<"streaming", "idle">> /\ Resource = "idle" /\ ~ST
       \/ rabbit.play = "none" /\ toServer = <<"idle">> /\ Resource = "streaming" /\ ~ST
       \/ rabbit.play = "none" /\ toServer = <<>> /\ Resource = "idle"
  /\ Inited /\ link /\ toServer # <<>> /\ rabbit.play = "none" => GreetAt = "done" /\ WakeAt = "done"
  /\ link /\ WakeAt = "owe" => rabbit.play # "none"
  /\ rabbit.play # "none" => ~rabbit.deaf

\* A microphone that is off: nobody turns it on, and it is stopped.
Stopped ==
  /\ ~WAKE.on => /\ ~WAKE.streaming /\ ~rabbit.arp /\ ~RS /\ WakeAt = "done"
                 /\ SessionAt \notin {"listen", "stream", "RS", "save"}
                 /\ ApiAt \notin {"stream", "RS"} /\ LaterAt \notin {"stream", "RS", "save"}
  /\ ApiAt = "off" => WakeAt = "done" /\ ~rabbit.arp /\ toRabbit = <<>> /\ ~LoopWouldRearm
  /\ TurnedOff => ~WAKE.on
  /\ ~WAKE.on /\ link /\ ~rabbit.deaf /\ Inited =>
       ~rabbit.rec \/ RT \/ TurnedOff \/ ClearAt \in {"wait", "RT"}
  /\ WAKE.on => hasListen \/ ApiAt \in {"stream", "RS", "save"} \/ LaterAt \in {"stream", "RS", "save"}

\* A sound that takes the microphone owes it back, and a debt has a sound or a
\* thread to settle it.
Owing ==
  /\ WAKE.on /\ (\/ ST \/ rabbit.play # "none" \/ (Inited /\ toServer # <<>>)
                 \/ Inited /\ SessionAt \in {"rearm", "settle"}
                 \/ ApiAt \in {"ack", "ST"} \/ GreetAt \in {"free", "RT", "unstream", "ack", "ST"})
       => WAKE.rearm
  /\ WAKE.on /\ ApiAt = "free" => WAKE.streaming \/ WAKE.rearm
  /\ WAKE.on /\ GreetAt = "wait" => ToOwe
  /\ WAKE.rearm /\ link /\ Inited /\ ~rabbit.deaf =>
       ~Quiet \/ SessionAt \in {"rearm", "settle"} \/ ToPlay \/ GreetAt \in ToST

\* A microphone believed to stream does, or is about to be started, or stopped
\* and no longer believed to, or given back after a sound.
Believed ==
  link /\ Inited /\ ~rabbit.deaf /\ WAKE.streaming =>
    \/ SessionAt \in {"stream", "RS"} \/ ApiAt \in {"stream", "RS"}
    \/ WakeAt \in {"stream", "RS"} \/ LaterAt \in {"stream", "RS"}
    \/ ClearAt # "done" \/ (ToPlay /\ ApiAt \in {"RT", "unstream"}) \/ GreetAt \in {"RT", "unstream"}
    \/ rabbit.play # "none" \/ toServer # <<>> \/ SessionAt \in {"rearm", "settle", "listen"}
    \/ RSLast \/ (~RT /\ (rabbit.arp \/ rabbit.rec))

\* What the user wants of the microphone, and what the server remembers of it: they
\* differ while a request is under way, and until the first start of a fresh install.
Wanted ==
  /\ scenario.jingle /\ scenario.autoListen => hasListen
  /\ wanted /\ ~WAKE.on => \/ ApiAt = "listen"
                           \/ /\ ~hasListen /\ scenario.autoListen
                              /\ ~Inited \/ LaterAt \in {"wait", "listen"}
  /\ ~wanted /\ WAKE.on => ApiAt = "off"
  /\ LaterAt \in {"wait", "listen"} \/ ApiAt = "listen" => wanted
  /\ ApiAt = "off" \/ TurnedOff => ~wanted
  /\ ~hasListen /\ ApiAt \notin {"listen", "stream", "RS", "save", "off"} /\ ~TurnedOff
       => (wanted <=> scenario.autoListen)

\* With threads that run until they send or sleep, and a prompt network if there is a
\* jingle: while a sound is on its way to the rabbit, nothing starts the microphone.
Apart == ~scenario.preempt /\ (scenario.prompt \/ ~scenario.jingle)
RTOnly == toRabbit \in {<<>>, <<"RT">>}
Hearing == link /\ ~rabbit.deaf /\ toRabbit = <<>> /\ rabbit.rec

\* Who sends a sound keeps its turn from the look at the microphone on;
HasTurn == ApiAt \in {"owe", "ack", "ST"} => turn = Api

\* a sound somebody asked for finds the microphone stopped or about to be,
ApiSounds ==
  ToPlay =>
    /\ WakeAt = "done" /\ ~rabbit.arp /\ RTOnly
    /\ ApiAt \in {"free", "RT"} => toRabbit = <<>>
    /\ ApiAt \in {"RT", "unstream"} => WAKE.streaming
    /\ Hearing => ApiAt = "RT" \/ (ApiAt = "free" /\ WAKE.streaming)

\* and so does the jingle, once the timer that stops it has fired;
GreetSounds ==
  GreetAt \in ToST /\ ClearAt # "wait" =>
    /\ SessionAt = "done" /\ WakeAt = "done" /\ ~rabbit.arp /\ RTOnly
    /\ ClearAt = "RT" \/ GreetAt # "wait" => toRabbit = <<>>
    /\ ClearAt = "done" => ~WAKE.streaming
    /\ Hearing => ClearAt = "RT"
    /\ GreetAt \notin {"RT", "unstream"}

\* nothing starts it while the sound is on its way,
OnTheWay ==
  ST => /\ toRabbit \in {<<"ST">>, <<"RT", "ST">>} /\ ~rabbit.arp /\ WakeAt = "done"
        /\ toRabbit = <<"ST">> /\ ~rabbit.deaf => ~rabbit.rec

\* nor while it plays.
Playing ==
  /\ rabbit.play # "none" => toRabbit = <<>> /\ ~rabbit.arp /\ WakeAt = "done"
  /\ rabbit.play = "fetching" => ~rabbit.rec

Silence == Apart /\ ~rabbit.refused /\ HasTurn /\ ApiSounds /\ GreetSounds /\ OnTheWay /\ Playing

Course == Before /\ Held /\ Paced /\ Sounds /\ Stopped /\ Owing /\ Believed
PatientInv == Rests /\ Setting /\ Course
-----------------------------------------------------------------------------
\* The threads, and what they have left before their steps.
LEMMA Names ==
  /\ Session \in Threads /\ Api \in Threads /\ Wake \in Threads /\ T("voice") \in Threads
  /\ Session # Api /\ Session # Wake /\ Api # Wake
  /\ Session \notin Timers /\ Api \notin Timers /\ Wake \notin Timers /\ T("voice") \notin Timers
  /\ \A s \in Sess : /\ <<"clear", s>> \in Timers /\ <<"jingle", s>> \in Timers
                     /\ <<"listen", s>> \in Timers
                     /\ <<"clear", s>>[2] = s /\ <<"jingle", s>>[2] = s /\ <<"listen", s>>[2] = s
                     /\ <<"clear", s>>[1] = "clear" /\ <<"jingle", s>>[1] = "jingle"
                     /\ <<"listen", s>>[1] = "listen"
  /\ \A t \in Timers : t[2] \in Sess /\ t = <<t[1], t[2]>> /\ t[1] \in {"clear", "jingle", "listen"}
  /\ \A x : \A t \in {Session, Api, Wake} :
       t # <<"clear", x>> /\ t # <<"jingle", x>> /\ t # <<"listen", x>>
  /\ \A x : /\ <<"clear", x>> # <<"jingle", x>> /\ <<"clear", x>> # <<"listen", x>>
             /\ <<"jingle", x>> # <<"listen", x>>
  /\ Timers \subseteq Threads
  /\ \A t \in Threads : t \in {Session, Api, Wake, T("voice")} \/ t \in Timers
BY DEF Threads, Workers, Timers, T, Session, Api, Wake

\* What a step puts before the rest of the operation.
Adds(op, more) ==
  /\ op = "free" => more = IF WAKE.streaming THEN <<"RT", "unstream", "owe">> ELSE <<>>
  /\ op = "rearm" => more = IF WAKE.hold = 0 /\ WAKE.rearm THEN <<"settle">> ELSE <<>>
  /\ op = "settle" => more = IF WAKE.on THEN <<"listen">> ELSE <<>>
  /\ op = "listen" => more = IF Resource = "idle" THEN <<"stream", "RS", "save">> ELSE <<"owe", "save">>
  /\ op \notin {"free", "rearm", "settle", "listen"} => more = <<>>

\* What it does to the microphone's book-keeping,
Wakes(op) ==
  /\ WAKE'.on <=> op = "listen" \/ (WAKE.on /\ op # "off")
  /\ WAKE'.streaming <=> op = "stream" \/ (WAKE.streaming /\ op \notin {"unstream", "off"})
  /\ WAKE'.rearm <=> op = "owe" \/ (WAKE.rearm /\ op \notin {"settle", "off"})
  /\ op \notin {"incHold", "decHold"} => WAKE'.hold = WAKE.hold
  /\ hasListen' <=> hasListen \/ op = "save"

\* and to the rest of the state.
Effect(t, op) ==
  /\ Wakes(op)
  /\ op = "incHold" => WAKE'.hold = copy[t] + 1
  /\ op = "decHold" => WAKE'.hold = IF copy[t] = 0 THEN 0 ELSE copy[t] - 1
  /\ ~WAKE'.capturing /\ ~WAKE'.cooling
  /\ copy' = IF op = "readHold" THEN [copy EXCEPT ![t] = WAKE.hold] ELSE copy
  /\ \A s \in Sess : /\ session'[s].resource = session[s].resource
                     /\ session'[s].bound = session[s].bound
                     /\ session'[s].inited = session[s].inited
  /\ toRabbit' = IF op \in {"RT", "RS", "ST"} /\ link THEN Append(toRabbit, op) ELSE toRabbit
  /\ op = "wait" => SecondsPass /\ (t[1] = "clear" \/ ctl[<<"clear", t[2]>>] = <<>>)
  /\ UNCHANGED <<ref, sess, link, toServer, rabbit, wanted, scenario>>

\* The steps these scenarios have.
Taken == {"free", "ack", "RT", "RS", "ST", "readHold", "incHold", "decHold", "rearm", "settle",
          "listen", "save", "unstream", "owe", "stream", "off", "wait"}

\* What a thread takes next is one of these, and its connection is the latest.
LEMMA Heads ==
  ASSUME Rests, NEW t \in Threads, ctl[t] # <<>>
  PROVE  /\ Head(ctl[t]) \in Taken \cup {"init"}
         /\ ref[t] = sess /\ sess \in Sess /\ t # T("voice")
         /\ t \in {Session, Api, Wake, <<"clear", sess>>, <<"jingle", sess>>, <<"listen", sess>>}
<1>1. /\ ref[t] = sess /\ sess \in Sess /\ t # T("voice")
      /\ t \in Timers => t[2] = sess
  BY DEF Rests
<1>2. t \in {Session, Api, Wake, <<"clear", sess>>, <<"jingle", sess>>, <<"listen", sess>>}
  BY <1>1, Names
<1>3. \A q \in SessionRests \cup ApiRests \cup WakeRests : q # <<>> => Head(q) \in Taken \cup {"init"}
  BY DEF SessionRests, ApiRests, WakeRests, Listens, Taken
<1>4. \A q \in ClearRests \cup LaterRests : q # <<>> => Head(q) \in Taken \cup {"init"}
  BY DEF ClearRests, LaterRests, Listens, Taken
<1>5. \A q \in GreetRests : q # <<>> => Head(q) \in Taken \cup {"init"}
  BY DEF GreetRests, Taken
<1>6. ctl[t] \in SessionRests \cup ApiRests \cup WakeRests \/ ctl[t] \in ClearRests \cup LaterRests
      \/ ctl[t] \in GreetRests
  BY <1>1, <1>2 DEF Rests
<1> QED
  BY <1>1, <1>2, <1>3, <1>4, <1>5, <1>6

\* A step is one of these, with this effect.
LEMMA StepIs ==
  ASSUME HoldInv, Rests, Setting, NEW t \in Threads, Step(t)
  PROVE  \E op \in Taken : \E more : Goes(t, op, more) /\ Adds(op, more) /\ Effect(t, op)
<1>1. /\ ctl[t] # <<>> /\ Head(ctl[t]) \in Taken \cup {"init"} /\ ref[t] = sess /\ sess \in Sess
      /\ Resource = session[ref[t]].resource
  BY Heads DEF Step, Resource
<1>2. /\ WAKE \in SomeWAKE /\ hasListen \in BOOLEAN /\ session \in SomeSession
      /\ copy \in [Threads -> Nat] /\ ~WAKE.capturing /\ ~WAKE.cooling
  BY DEF HoldInv, Types, TypeOK, SomeWAKE, SomeSession, Setting
<1>3. UNCHANGED <<ref, sess, link, toServer, rabbit, wanted, scenario>>
  BY DEF Step, Push, wire
<1>4. Head(ctl[t]) \notin {"capture", "collected", "chill", "released", "think", "sleep"}
  BY <1>1 DEF Taken
<1>5. /\ toRabbit' = toRabbit
      /\ \/ FreeSpeaker(t) \/ ArmAck(t) \/ ReadHold(t) \/ IncHold(t) \/ DecHold(t)
         \/ Rearm(t) \/ Settle(t) \/ StartListen(t) \/ Save(t) \/ SetWAKE(t) \/ Off(t) \/ Fire(t)
      => \E op \in Taken : \E more : Goes(t, op, more) /\ Adds(op, more) /\ Effect(t, op)
  <2> SUFFICES ASSUME toRabbit' = toRabbit
               PROVE  \/ FreeSpeaker(t) \/ ArmAck(t) \/ ReadHold(t) \/ IncHold(t) \/ DecHold(t)
                      \/ Rearm(t) \/ Settle(t) \/ StartListen(t) \/ Save(t) \/ SetWAKE(t)
                      \/ Off(t) \/ Fire(t)
                      => \E op \in Taken : \E more : Goes(t, op, more) /\ Adds(op, more) /\ Effect(t, op)
    OBVIOUS
  <2>1. ASSUME FreeSpeaker(t)
        PROVE  \E more : Goes(t, "free", more) /\ Adds("free", more) /\ Effect(t, "free")
    BY <1>2, <1>3, <2>1 DEF FreeSpeaker, Adds, Effect, Wakes
  <2>2. ASSUME ArmAck(t) PROVE Goes(t, "ack", <<>>) /\ Adds("ack", <<>>) /\ Effect(t, "ack")
    <3>1. /\ Goes(t, "ack", <<>>) /\ UNCHANGED <<WAKE, hasListen, copy>>
          /\ session' = [session EXCEPT ![ref[t]].soundAt = @ \/ session[ref[t]].resource = "idle"]
      BY <2>2 DEF ArmAck
    <3>2. \A s \in Sess : /\ session'[s].resource = session[s].resource
                          /\ session'[s].bound = session[s].bound
                          /\ session'[s].inited = session[s].inited
      BY <1>2, <3>1, ZenonT(30) DEF SomeSession
    <3> QED
      BY <1>2, <1>3, <3>1, <3>2 DEF Adds, Effect, Wakes
  <2>3. ASSUME ReadHold(t) PROVE Goes(t, "readHold", <<>>) /\ Adds("readHold", <<>>) /\ Effect(t, "readHold")
    BY <1>2, <1>3, <2>3 DEF ReadHold, Adds, Effect, Wakes
  <2>4. ASSUME IncHold(t) PROVE Goes(t, "incHold", <<>>) /\ Adds("incHold", <<>>) /\ Effect(t, "incHold")
    BY <1>2, <1>3, <2>4 DEF IncHold, Adds, Effect, Wakes, SomeWAKE
  <2>5. ASSUME DecHold(t) PROVE Goes(t, "decHold", <<>>) /\ Adds("decHold", <<>>) /\ Effect(t, "decHold")
    BY <1>2, <1>3, <2>5 DEF DecHold, Adds, Effect, Wakes, SomeWAKE
  <2>6. ASSUME Rearm(t)
        PROVE  \E more : Goes(t, "rearm", more) /\ Adds("rearm", more) /\ Effect(t, "rearm")
    BY <1>2, <1>3, <2>6 DEF Rearm, Adds, Effect, Wakes
  <2>7. ASSUME Settle(t)
        PROVE  \E more : Goes(t, "settle", more) /\ Adds("settle", more) /\ Effect(t, "settle")
    BY <1>2, <1>3, <2>7 DEF Settle, Adds, Effect, Wakes, SomeWAKE
  <2>8. ASSUME StartListen(t)
        PROVE  \E more : Goes(t, "listen", more) /\ Adds("listen", more) /\ Effect(t, "listen")
    BY <1>1, <1>2, <1>3, <2>8 DEF StartListen, Adds, Effect, Wakes, SomeWAKE
  <2>9. ASSUME Save(t) PROVE Goes(t, "save", <<>>) /\ Adds("save", <<>>) /\ Effect(t, "save")
    BY <1>2, <1>3, <2>9 DEF Save, Adds, Effect, Wakes
  <2>10. ASSUME SetWAKE(t)
         PROVE  \E op \in {"unstream", "owe", "stream"} :
                  Goes(t, op, <<>>) /\ Adds(op, <<>>) /\ Effect(t, op)
    <3>1. /\ \/ Goes(t, "unstream", <<>>) /\ WAKE' = [WAKE EXCEPT !.streaming = FALSE]
             \/ Goes(t, "owe", <<>>) /\ WAKE' = [WAKE EXCEPT !.rearm = TRUE]
             \/ Goes(t, "stream", <<>>) /\ WAKE' = [WAKE EXCEPT !.streaming = TRUE,
                                                                !.cooling = FALSE]
          /\ UNCHANGED <<hasListen, session, copy>>
      <4>1. Head(ctl[t]) \notin {"capture", "collected", "chill"}
        BY <1>4
      <4> QED
        BY <2>10, <4>1 DEF SetWAKE, Goes
    <3> QED
      BY <1>2, <1>3, <3>1 DEF Adds, Effect, Wakes, SomeWAKE
  <2>11. ASSUME Off(t) PROVE Goes(t, "off", <<>>) /\ Adds("off", <<>>) /\ Effect(t, "off")
    BY <1>2, <1>3, <2>11 DEF Off, Adds, Effect, Wakes, SomeWAKE
  <2>12. ASSUME Fire(t) PROVE Goes(t, "wait", <<>>) /\ Adds("wait", <<>>) /\ Effect(t, "wait")
    BY <1>2, <1>3, <2>12 DEF Fire, Adds, Effect, Wakes
  <2>13. {"free", "ack", "readHold", "incHold", "decHold", "rearm", "settle", "listen", "save",
          "unstream", "owe", "stream", "off", "wait"} \subseteq Taken
    BY DEF Taken
  <2> QED
    BY <2>1, <2>2, <2>3, <2>4, <2>5, <2>6, <2>7, <2>8, <2>9, <2>10, <2>11, <2>12, <2>13
<1>6. ASSUME NEW program \in {"RT", "RS", "ST"}, Push(t, program)
      PROVE  program \in Taken /\ Goes(t, program, <<>>) /\ Adds(program, <<>>) /\ Effect(t, program)
  <2>1. /\ Goes(t, program, <<>>) /\ UNCHANGED <<WAKE, hasListen, session, copy>>
        /\ toRabbit' = IF link THEN Append(toRabbit, program) ELSE toRabbit
    BY <1>1, <1>6 DEF Push
  <2> QED
    BY <1>2, <1>3, <2>1 DEF Adds, Effect, Wakes, Taken
<1>7. ~Released(t) /\ ~Wait(t)
  BY <1>4 DEF Released, Wait, Goes
<1> QED
  BY <1>5, <1>6, <1>7 DEF Step, wire
-----------------------------------------------------------------------------
\* Where the threads stand after a step of one of them.
OthersStay(t) ==
  /\ t # Session => SessionAt' = SessionAt /\ (ToInit' <=> ToInit)
  /\ t # Api => ApiAt' = ApiAt /\ (ToPlay' <=> ToPlay) /\ (TurnedOff' <=> TurnedOff)
  /\ t # Wake => WakeAt' = WakeAt
  /\ t # <<"clear", sess>> => ClearAt' = ClearAt
  /\ t # <<"jingle", sess>> => GreetAt' = GreetAt /\ (ToOwe' <=> ToOwe) /\ GreetCopy' = GreetCopy
  /\ t # <<"listen", sess>> => LaterAt' = LaterAt

\* A step leaves the other threads where they are,
LEMMA Stays ==
  ASSUME HoldInv, Rests, NEW t \in Threads, NEW op, NEW more, Goes(t, op, more), Effect(t, op)
  PROVE  OthersStay(t)
<1>1. /\ ctl' = [ctl EXCEPT ![t] = ctl'[t]] /\ ctl \in [Threads -> Seq(Ops)]
      /\ copy \in [Threads -> Nat] /\ sess' = sess
      /\ copy' = IF op = "readHold" THEN [copy EXCEPT ![t] = WAKE.hold] ELSE copy
  BY DEF Goes, Effect, HoldInv, Types, TypeOK
<1>2. \A u : u # t => Rest(u)' = Rest(u)
  BY <1>1 DEF Rest
<1>3. t # <<"jingle", sess>> => GreetCopy' = GreetCopy
  BY <1>1 DEF GreetCopy
<1>4. \A u : u # t => At(u)' = At(u)
  BY <1>2 DEF At
<1> QED
  BY <1>1, <1>2, <1>3, <1>4
  DEF OthersStay, SessionAt, ToInit, ApiAt, ToPlay, TurnedOff, WakeAt, ClearAt, GreetAt,
      ToOwe, LaterAt

\* and keeps every thread on its course if it keeps the one that takes it there.
LEMMA RestsGo ==
  ASSUME HoldInv, Rests, NEW t \in Threads, NEW op, NEW more, Goes(t, op, more), Effect(t, op),
         t = Session => ctl'[t] \in SessionRests,
         t = Api => ctl'[t] \in ApiRests,
         t = Wake => ctl'[t] \in WakeRests,
         t = <<"clear", sess>> => ctl'[t] \in ClearRests,
         t = <<"jingle", sess>> => ctl'[t] \in GreetRests,
         t = <<"listen", sess>> => ctl'[t] \in LaterRests
  PROVE  Rests'
<1>1. /\ \A u \in Threads : u # t => ctl'[u] = ctl[u]
      /\ ctl[t] # <<>> /\ UNCHANGED <<ref, sess>>
      /\ ref[t] = sess /\ sess \in Sess /\ t # T("voice") /\ (t \in Timers => t[2] = sess)
  BY Heads DEF Goes, Effect, HoldInv, Types, Rests
<1>2. /\ ctl'[Session] \in SessionRests /\ ctl'[Api] \in ApiRests /\ ctl'[Wake] \in WakeRests
      /\ ctl'[T("voice")] = <<>>
  BY <1>1, Names DEF Rests
<1>3. \A s \in Sess : /\ ctl'[<<"clear", s>>] \in ClearRests /\ ctl'[<<"jingle", s>>] \in GreetRests
                      /\ ctl'[<<"listen", s>>] \in LaterRests
  <2> SUFFICES ASSUME NEW s \in Sess
               PROVE  /\ ctl'[<<"clear", s>>] \in ClearRests /\ ctl'[<<"jingle", s>>] \in GreetRests
                      /\ ctl'[<<"listen", s>>] \in LaterRests
    OBVIOUS
  <2>1. /\ <<"clear", s>> \in Timers /\ <<"jingle", s>> \in Timers /\ <<"listen", s>> \in Timers
        /\ <<"clear", s>>[2] = s /\ <<"jingle", s>>[2] = s /\ <<"listen", s>>[2] = s
        /\ Timers \subseteq Threads
    BY Names
  <2>2. ctl'[<<"clear", s>>] \in ClearRests
    <3>1. CASE t = <<"clear", s>>
      BY <1>1, <2>1, <3>1
    <3>2. CASE t # <<"clear", s>>
      BY <1>1, <2>1, <3>2 DEF Rests
    <3> QED
      BY <3>1, <3>2
  <2>3. ctl'[<<"jingle", s>>] \in GreetRests
    <3>1. CASE t = <<"jingle", s>>
      BY <1>1, <2>1, <3>1
    <3>2. CASE t # <<"jingle", s>>
      BY <1>1, <2>1, <3>2 DEF Rests
    <3> QED
      BY <3>1, <3>2
  <2>4. ctl'[<<"listen", s>>] \in LaterRests
    <3>1. CASE t = <<"listen", s>>
      BY <1>1, <2>1, <3>1
    <3>2. CASE t # <<"listen", s>>
      BY <1>1, <2>1, <3>2 DEF Rests
    <3> QED
      BY <3>1, <3>2
  <2> QED
    BY <2>2, <2>3, <2>4
<1>4. /\ \A u \in Threads : ctl'[u] # <<>> => ref'[u] = sess' /\ sess' \in Sess
      /\ \A u \in Timers : ctl'[u] # <<>> => u[2] = sess'
  BY <1>1, Names DEF Rests
<1> QED
  BY <1>2, <1>3, <1>4 DEF Rests

\* The rest of a thread that goes on.
LEMMA GoesRest ==
  ASSUME HoldInv, NEW t \in Threads, NEW op, NEW more, Goes(t, op, more), sess' = sess
  PROVE  /\ ctl'[t] = more \o Tail(ctl[t]) /\ ctl[t] # <<>> /\ Head(ctl[t]) = op
         /\ Rest(t) = ctl[t] /\ Rest(t)' = ctl'[t] /\ At(t) = op
BY DEF Goes, HoldInv, Types, Rest, At, First

\* What is left of short sequences without their first step, and with some in front.
LEMMA Tails ==
  /\ \A a : Tail(<<a>>) = <<>>
  /\ \A a, b : Tail(<<a, b>>) = <<b>>
  /\ \A a, b, c : Tail(<<a, b, c>>) = <<b, c>>
  /\ \A a, b, c, d : Tail(<<a, b, c, d>>) = <<b, c, d>>
  /\ \A a, b, c, d, e : Tail(<<a, b, c, d, e>>) = <<b, c, d, e>>
  /\ \A a, b, c, d, e, f : Tail(<<a, b, c, d, e, f>>) = <<b, c, d, e, f>>
  /\ \A a, b, c, d, e, f, g : Tail(<<a, b, c, d, e, f, g>>) = <<b, c, d, e, f, g>>
<1>1. \A a : Tail(<<a>>) = <<>>
  OBVIOUS
<1>2. \A a, b : Tail(<<a, b>>) = <<b>>
  OBVIOUS
<1>3. \A a, b, c : Tail(<<a, b, c>>) = <<b, c>>
  OBVIOUS
<1>4. \A a, b, c, d : Tail(<<a, b, c, d>>) = <<b, c, d>>
  OBVIOUS
<1>5. \A a, b, c, d, e : Tail(<<a, b, c, d, e>>) = <<b, c, d, e>>
  OBVIOUS
<1>6. \A a, b, c, d, e, f : Tail(<<a, b, c, d, e, f>>) = <<b, c, d, e, f>>
  OBVIOUS
<1>7. \A a, b, c, d, e, f, g : Tail(<<a, b, c, d, e, f, g>>) = <<b, c, d, e, f, g>>
  OBVIOUS
<1> QED
  BY <1>1, <1>2, <1>3, <1>4, <1>5, <1>6, <1>7

\* Short sequences put together.
LEMMA Joins ==
  /\ <<>> \o <<>> = <<>>
  /\ \A a : <<>> \o <<a>> = <<a>>
  /\ \A a, b : <<>> \o <<a, b>> = <<a, b>>
  /\ \A a, b, c : <<>> \o <<a, b, c>> = <<a, b, c>>
  /\ \A a, b, c, d : <<>> \o <<a, b, c, d>> = <<a, b, c, d>>
  /\ \A a, b, c, d, e : <<>> \o <<a, b, c, d, e>> = <<a, b, c, d, e>>
  /\ \A a, b, c, d, e, f : <<>> \o <<a, b, c, d, e, f>> = <<a, b, c, d, e, f>>
  /\ \A a : <<a>> \o <<>> = <<a>>
  /\ \A a, b : <<a, b>> \o <<>> = <<a, b>>
  /\ \A a, b, c : <<a, b, c>> \o <<>> = <<a, b, c>>
  /\ \A a, b : <<a>> \o <<b>> = <<a, b>>
  /\ \A a, b, c : <<a>> \o <<b, c>> = <<a, b, c>>
  /\ \A a, b, c, d : <<a>> \o <<b, c, d>> = <<a, b, c, d>>
  /\ \A a, b, c, d, e, f : <<a>> \o <<b, c, d, e, f>> = <<a, b, c, d, e, f>>
  /\ \A a, b, c, d, e, f, g : <<a>> \o <<b, c, d, e, f, g>> = <<a, b, c, d, e, f, g>>
  /\ \A a, b, c, d : <<a, b, c>> \o <<d>> = <<a, b, c, d>>
  /\ \A a, b, c, d, e : <<a, b, c>> \o <<d, e>> = <<a, b, c, d, e>>
  /\ \A a, b, c, d, e, f, g : <<a, b, c>> \o <<d, e, f, g>> = <<a, b, c, d, e, f, g>>
  /\ \A a, b, c, d, e, f : <<a, b, c, d>> \o <<e, f>> = <<a, b, c, d, e, f>>
<1>1. /\ <<>> \o <<>> = <<>>
      /\ \A a : <<>> \o <<a>> = <<a>>
      /\ \A a, b : <<>> \o <<a, b>> = <<a, b>>
      /\ \A a, b, c : <<>> \o <<a, b, c>> = <<a, b, c>>
      /\ \A a, b, c, d : <<>> \o <<a, b, c, d>> = <<a, b, c, d>>
      /\ \A a, b, c, d, e : <<>> \o <<a, b, c, d, e>> = <<a, b, c, d, e>>
      /\ \A a, b, c, d, e, f : <<>> \o <<a, b, c, d, e, f>> = <<a, b, c, d, e, f>>
      /\ \A a : <<a>> \o <<>> = <<a>>
      /\ \A a, b : <<a, b>> \o <<>> = <<a, b>>
      /\ \A a, b, c : <<a, b, c>> \o <<>> = <<a, b, c>>
  OBVIOUS
<1>11. ASSUME NEW a, NEW b
     PROVE  <<a>> \o <<b>> = <<a, b>>
  <2> DEFINE s == <<a>>  t == <<b>>  u == <<a, b>>
             S == {a, b}
  <2>1. s \in Seq(S) /\ Len(s) = 1 /\ t \in Seq(S) /\ Len(t) = 1 /\ u \in Seq(S) /\ Len(u) = 2
    OBVIOUS
  <2>2. /\ s \o t \in Seq(S) /\ Len(s \o t) = 2
        /\ \A i \in 1..1 : (s \o t)[i] = s[i]
        /\ \A i \in 2..2 : (s \o t)[i] = t[i - 1]
    BY <2>1
  <2>3. (\A i \in 1..1 : s[i] = u[i]) /\ \A i \in 2..2 : t[i - 1] = u[i]
    OBVIOUS
  <2> HIDE DEF s, t, u, S
  <2>4. \A i \in 1..2 : (s \o t)[i] = u[i]
    <3>1. \A i \in 1..2 : i \in 1..1 \/ i \in 2..2
      OBVIOUS
    <3> QED
      BY <2>2, <2>3, <3>1
  <2>5. s \o t = u
    BY <2>1, <2>2, <2>4, SeqEqual
  <2> QED
    BY <2>5 DEF s, t, u
<1>12. ASSUME NEW a, NEW b, NEW c
     PROVE  <<a>> \o <<b, c>> = <<a, b, c>>
  <2> DEFINE s == <<a>>  t == <<b, c>>  u == <<a, b, c>>
             S == {a, b, c}
  <2>1. s \in Seq(S) /\ Len(s) = 1 /\ t \in Seq(S) /\ Len(t) = 2 /\ u \in Seq(S) /\ Len(u) = 3
    OBVIOUS
  <2>2. /\ s \o t \in Seq(S) /\ Len(s \o t) = 3
        /\ \A i \in 1..1 : (s \o t)[i] = s[i]
        /\ \A i \in 2..3 : (s \o t)[i] = t[i - 1]
    BY <2>1
  <2>3. (\A i \in 1..1 : s[i] = u[i]) /\ \A i \in 2..3 : t[i - 1] = u[i]
    OBVIOUS
  <2> HIDE DEF s, t, u, S
  <2>4. \A i \in 1..3 : (s \o t)[i] = u[i]
    <3>1. \A i \in 1..3 : i \in 1..1 \/ i \in 2..3
      OBVIOUS
    <3> QED
      BY <2>2, <2>3, <3>1
  <2>5. s \o t = u
    BY <2>1, <2>2, <2>4, SeqEqual
  <2> QED
    BY <2>5 DEF s, t, u
<1>13. ASSUME NEW a, NEW b, NEW c, NEW d
     PROVE  <<a>> \o <<b, c, d>> = <<a, b, c, d>>
  <2> DEFINE s == <<a>>  t == <<b, c, d>>  u == <<a, b, c, d>>
             S == {a, b, c, d}
  <2>1. s \in Seq(S) /\ Len(s) = 1 /\ t \in Seq(S) /\ Len(t) = 3 /\ u \in Seq(S) /\ Len(u) = 4
    OBVIOUS
  <2>2. /\ s \o t \in Seq(S) /\ Len(s \o t) = 4
        /\ \A i \in 1..1 : (s \o t)[i] = s[i]
        /\ \A i \in 2..4 : (s \o t)[i] = t[i - 1]
    BY <2>1
  <2>3. (\A i \in 1..1 : s[i] = u[i]) /\ \A i \in 2..4 : t[i - 1] = u[i]
    OBVIOUS
  <2> HIDE DEF s, t, u, S
  <2>4. \A i \in 1..4 : (s \o t)[i] = u[i]
    <3>1. \A i \in 1..4 : i \in 1..1 \/ i \in 2..4
      OBVIOUS
    <3> QED
      BY <2>2, <2>3, <3>1
  <2>5. s \o t = u
    BY <2>1, <2>2, <2>4, SeqEqual
  <2> QED
    BY <2>5 DEF s, t, u
<1>15. ASSUME NEW a, NEW b, NEW c, NEW d, NEW e, NEW f
     PROVE  <<a>> \o <<b, c, d, e, f>> = <<a, b, c, d, e, f>>
  <2> DEFINE s == <<a>>  t == <<b, c, d, e, f>>  u == <<a, b, c, d, e, f>>
             S == {a, b, c, d, e, f}
  <2>1. s \in Seq(S) /\ Len(s) = 1 /\ t \in Seq(S) /\ Len(t) = 5 /\ u \in Seq(S) /\ Len(u) = 6
    OBVIOUS
  <2>2. /\ s \o t \in Seq(S) /\ Len(s \o t) = 6
        /\ \A i \in 1..1 : (s \o t)[i] = s[i]
        /\ \A i \in 2..6 : (s \o t)[i] = t[i - 1]
    BY <2>1
  <2>3. (\A i \in 1..1 : s[i] = u[i]) /\ \A i \in 2..6 : t[i - 1] = u[i]
    OBVIOUS
  <2> HIDE DEF s, t, u, S
  <2>4. \A i \in 1..6 : (s \o t)[i] = u[i]
    <3>1. \A i \in 1..6 : i \in 1..1 \/ i \in 2..6
      OBVIOUS
    <3> QED
      BY <2>2, <2>3, <3>1
  <2>5. s \o t = u
    BY <2>1, <2>2, <2>4, SeqEqual
  <2> QED
    BY <2>5 DEF s, t, u
<1>16. ASSUME NEW a, NEW b, NEW c, NEW d, NEW e, NEW f, NEW g
     PROVE  <<a>> \o <<b, c, d, e, f, g>> = <<a, b, c, d, e, f, g>>
  <2> DEFINE s == <<a>>  t == <<b, c, d, e, f, g>>  u == <<a, b, c, d, e, f, g>>
             S == {a, b, c, d, e, f, g}
  <2>1. s \in Seq(S) /\ Len(s) = 1 /\ t \in Seq(S) /\ Len(t) = 6 /\ u \in Seq(S) /\ Len(u) = 7
    OBVIOUS
  <2>2. /\ s \o t \in Seq(S) /\ Len(s \o t) = 7
        /\ \A i \in 1..1 : (s \o t)[i] = s[i]
        /\ \A i \in 2..7 : (s \o t)[i] = t[i - 1]
    BY <2>1
  <2>3. (\A i \in 1..1 : s[i] = u[i]) /\ \A i \in 2..7 : t[i - 1] = u[i]
    OBVIOUS
  <2> HIDE DEF s, t, u, S
  <2>4. \A i \in 1..7 : (s \o t)[i] = u[i]
    <3>1. \A i \in 1..7 : i \in 1..1 \/ i \in 2..7
      OBVIOUS
    <3> QED
      BY <2>2, <2>3, <3>1
  <2>5. s \o t = u
    BY <2>1, <2>2, <2>4, SeqEqual
  <2> QED
    BY <2>5 DEF s, t, u
<1>31. ASSUME NEW a, NEW b, NEW c, NEW d
     PROVE  <<a, b, c>> \o <<d>> = <<a, b, c, d>>
  <2> DEFINE s == <<a, b, c>>  t == <<d>>  u == <<a, b, c, d>>
             S == {a, b, c, d}
  <2>1. s \in Seq(S) /\ Len(s) = 3 /\ t \in Seq(S) /\ Len(t) = 1 /\ u \in Seq(S) /\ Len(u) = 4
    OBVIOUS
  <2>2. /\ s \o t \in Seq(S) /\ Len(s \o t) = 4
        /\ \A i \in 1..3 : (s \o t)[i] = s[i]
        /\ \A i \in 4..4 : (s \o t)[i] = t[i - 3]
    BY <2>1
  <2>3. (\A i \in 1..3 : s[i] = u[i]) /\ \A i \in 4..4 : t[i - 3] = u[i]
    OBVIOUS
  <2> HIDE DEF s, t, u, S
  <2>4. \A i \in 1..4 : (s \o t)[i] = u[i]
    <3>1. \A i \in 1..4 : i \in 1..3 \/ i \in 4..4
      OBVIOUS
    <3> QED
      BY <2>2, <2>3, <3>1
  <2>5. s \o t = u
    BY <2>1, <2>2, <2>4, SeqEqual
  <2> QED
    BY <2>5 DEF s, t, u
<1>32. ASSUME NEW a, NEW b, NEW c, NEW d, NEW e
     PROVE  <<a, b, c>> \o <<d, e>> = <<a, b, c, d, e>>
  <2> DEFINE s == <<a, b, c>>  t == <<d, e>>  u == <<a, b, c, d, e>>
             S == {a, b, c, d, e}
  <2>1. s \in Seq(S) /\ Len(s) = 3 /\ t \in Seq(S) /\ Len(t) = 2 /\ u \in Seq(S) /\ Len(u) = 5
    OBVIOUS
  <2>2. /\ s \o t \in Seq(S) /\ Len(s \o t) = 5
        /\ \A i \in 1..3 : (s \o t)[i] = s[i]
        /\ \A i \in 4..5 : (s \o t)[i] = t[i - 3]
    BY <2>1
  <2>3. (\A i \in 1..3 : s[i] = u[i]) /\ \A i \in 4..5 : t[i - 3] = u[i]
    OBVIOUS
  <2> HIDE DEF s, t, u, S
  <2>4. \A i \in 1..5 : (s \o t)[i] = u[i]
    <3>1. \A i \in 1..5 : i \in 1..3 \/ i \in 4..5
      OBVIOUS
    <3> QED
      BY <2>2, <2>3, <3>1
  <2>5. s \o t = u
    BY <2>1, <2>2, <2>4, SeqEqual
  <2> QED
    BY <2>5 DEF s, t, u
<1>34. ASSUME NEW a, NEW b, NEW c, NEW d, NEW e, NEW f, NEW g
     PROVE  <<a, b, c>> \o <<d, e, f, g>> = <<a, b, c, d, e, f, g>>
  <2> DEFINE s == <<a, b, c>>  t == <<d, e, f, g>>  u == <<a, b, c, d, e, f, g>>
             S == {a, b, c, d, e, f, g}
  <2>1. s \in Seq(S) /\ Len(s) = 3 /\ t \in Seq(S) /\ Len(t) = 4 /\ u \in Seq(S) /\ Len(u) = 7
    OBVIOUS
  <2>2. /\ s \o t \in Seq(S) /\ Len(s \o t) = 7
        /\ \A i \in 1..3 : (s \o t)[i] = s[i]
        /\ \A i \in 4..7 : (s \o t)[i] = t[i - 3]
    BY <2>1
  <2>3. (\A i \in 1..3 : s[i] = u[i]) /\ \A i \in 4..7 : t[i - 3] = u[i]
    OBVIOUS
  <2> HIDE DEF s, t, u, S
  <2>4. \A i \in 1..7 : (s \o t)[i] = u[i]
    <3>1. \A i \in 1..7 : i \in 1..3 \/ i \in 4..7
      OBVIOUS
    <3> QED
      BY <2>2, <2>3, <3>1
  <2>5. s \o t = u
    BY <2>1, <2>2, <2>4, SeqEqual
  <2> QED
    BY <2>5 DEF s, t, u
<1>42. ASSUME NEW a, NEW b, NEW c, NEW d, NEW e, NEW f
     PROVE  <<a, b, c, d>> \o <<e, f>> = <<a, b, c, d, e, f>>
  <2> DEFINE s == <<a, b, c, d>>  t == <<e, f>>  u == <<a, b, c, d, e, f>>
             S == {a, b, c, d, e, f}
  <2>1. s \in Seq(S) /\ Len(s) = 4 /\ t \in Seq(S) /\ Len(t) = 2 /\ u \in Seq(S) /\ Len(u) = 6
    OBVIOUS
  <2>2. /\ s \o t \in Seq(S) /\ Len(s \o t) = 6
        /\ \A i \in 1..4 : (s \o t)[i] = s[i]
        /\ \A i \in 5..6 : (s \o t)[i] = t[i - 4]
    BY <2>1
  <2>3. (\A i \in 1..4 : s[i] = u[i]) /\ \A i \in 5..6 : t[i - 4] = u[i]
    OBVIOUS
  <2> HIDE DEF s, t, u, S
  <2>4. \A i \in 1..6 : (s \o t)[i] = u[i]
    <3>1. \A i \in 1..6 : i \in 1..4 \/ i \in 5..6
      OBVIOUS
    <3> QED
      BY <2>2, <2>3, <3>1
  <2>5. s \o t = u
    BY <2>1, <2>2, <2>4, SeqEqual
  <2> QED
    BY <2>5 DEF s, t, u
<1> QED
  BY <1>1, <1>11, <1>12, <1>13, <1>15, <1>16, <1>31, <1>32, <1>34, <1>42

\* A stanza after one that is still on its way.
LEMMA AppendPair ==
  ASSUME NEW a, NEW b
  PROVE  Append(<<a>>, b) = <<a, b>>
<1> DEFINE r == Append(<<a>>, b)  u == <<a, b>>  S == {a, b}
<1>1. r \in Seq(S) /\ Len(r) = 2 /\ r[1] = a /\ r[2] = b
  OBVIOUS
<1>2. u \in Seq(S) /\ Len(u) = 2 /\ u[1] = a /\ u[2] = b
  OBVIOUS
<1> HIDE DEF r, u, S
<1>3. \A i \in 1..Len(r) : r[i] = u[i]
  BY <1>1, <1>2
<1>4. r = u
  BY <1>1, <1>2, <1>3, SeqEqual
<1> QED
  BY <1>4 DEF r, u

Over == IF ToInit THEN "init" ELSE "done"

\* The session's thread: the debt, the timers of a connection, the hold of its jingle.
SessionMove(op) ==
  /\ (ToInit' <=> ToInit)
  /\ op \in {"rearm", "settle", "listen", "stream", "RS", "save", "readHold", "incHold"}
  /\ op = "rearm" => SessionAt' = IF WAKE.hold = 0 /\ WAKE.rearm THEN "settle" ELSE Over
  /\ op = "settle" => SessionAt' = IF WAKE.on THEN "listen" ELSE Over
  /\ op = "listen" => SessionAt' = "stream"
  /\ op = "stream" => SessionAt' = "RS"
  /\ op = "RS" => SessionAt' = "save"
  /\ op = "save" => SessionAt' = Over
  /\ op = "readHold" => SessionAt' = "incHold" /\ ~ToInit
  /\ op = "incHold" => SessionAt' = "done" /\ ~ToInit

\* A step of the session thread, by what it takes.
LEMMA SessionMoves ==
  ASSUME HoldInv, Rests, NEW op \in Taken, NEW more, Goes(Session, op, more), Adds(op, more),
         Resource = "idle", sess' = sess
  PROVE  /\ SessionAt = op /\ ctl'[Session] \in SessionRests /\ SessionMove(op)
<1> DEFINE q == ctl[Session]  r == ctl'[Session]
<1>0. Session \in Threads
  BY Names
<1>1. /\ r = more \o Tail(q) /\ q # <<>> /\ q[1] = op /\ q \in SessionRests
      /\ Adds(op, more) /\ op \in Taken /\ Resource = "idle"
  BY <1>0, GoesRest DEF Rests
<1>2. /\ SessionAt = First(q) /\ SessionAt' = First(r)
      /\ ToInit <=> End(q) = "init"
      /\ ToInit' <=> End(r) = "init"
  BY <1>0, GoesRest DEF SessionAt, At, ToInit
<1> HIDE DEF q, r
<1> DEFINE Goal == /\ r \in SessionRests
                   /\ ((End(r) = "init") <=> (End(q) = "init"))
                   /\ op \in {"rearm", "settle", "listen", "stream", "RS", "save", "readHold", "incHold"}
                   /\ op = "rearm" => First(r) = IF WAKE.hold = 0 /\ WAKE.rearm THEN "settle" ELSE (IF End(q) = "init" THEN "init" ELSE "done")
                   /\ op = "settle" => First(r) = IF WAKE.on THEN "listen" ELSE (IF End(q) = "init" THEN "init" ELSE "done")
                   /\ op = "listen" => First(r) = "stream"
                   /\ op = "stream" => First(r) = "RS"
                   /\ op = "RS" => First(r) = "save"
                   /\ op = "save" => First(r) = (IF End(q) = "init" THEN "init" ELSE "done")
                   /\ op = "readHold" => First(r) = "incHold" /\ ~(End(q) = "init")
                   /\ op = "incHold" => First(r) = "done" /\ ~(End(q) = "init")
<1>3. SUFFICES Goal
  BY <1>1, <1>2 DEF First, r, SessionMove, Over
<1>4. CASE q = <<"listen">>
  <2>1. Tail(q) = <<>> /\ op = "listen"
    BY <1>1, <1>4, Tails
  <2>2. more = <<"stream", "RS", "save">>
    BY <1>1, <2>1 DEF Adds
  <2>3. <<"stream", "RS", "save">> \o <<>> = <<"stream", "RS", "save">>
    BY Joins
  <2>4. (Resource = "idle" /\ r = <<"stream", "RS", "save">>)
    BY <1>1, <2>1, <2>2, <2>3
  <2> QED
    BY <1>4, <2>1, <2>4 DEF SessionRests, Listens, First, End
<1>5. CASE q = <<"stream", "RS", "save">>
  <2>1. Tail(q) = <<"RS", "save">> /\ op = "stream"
    BY <1>1, <1>5, Tails
  <2>2. r = <<"RS", "save">>
    BY <1>1, <2>1, Joins DEF Adds
  <2> QED
    BY <1>5, <2>1, <2>2 DEF SessionRests, Listens, First, End
<1>6. CASE q = <<"RS", "save">>
  <2>1. Tail(q) = <<"save">> /\ op = "RS"
    BY <1>1, <1>6, Tails
  <2>2. r = <<"save">>
    BY <1>1, <2>1, Joins DEF Adds
  <2> QED
    BY <1>6, <2>1, <2>2 DEF SessionRests, Listens, First, End
<1>7. CASE q = <<"save">>
  <2>1. Tail(q) = <<>> /\ op = "save"
    BY <1>1, <1>7, Tails
  <2>2. r = <<>>
    BY <1>1, <2>1, Joins DEF Adds
  <2> QED
    BY <1>7, <2>1, <2>2 DEF SessionRests, Listens, First, End
<1>8. CASE q = <<"rearm">>
  <2>1. Tail(q) = <<>> /\ op = "rearm"
    BY <1>1, <1>8, Tails
  <2>2. \/ WAKE.hold = 0 /\ WAKE.rearm /\ more = <<"settle">>
        \/ ~(WAKE.hold = 0 /\ WAKE.rearm) /\ more = <<>>
    BY <1>1, <2>1 DEF Adds
  <2>3. <<"settle">> \o <<>> = <<"settle">> /\ <<>> \o <<>> = <<>>
    BY Joins
  <2>4. (WAKE.hold = 0 /\ WAKE.rearm /\ r = <<"settle">>) \/ (~(WAKE.hold = 0 /\ WAKE.rearm) /\ r = <<>>)
    BY <1>1, <2>1, <2>2, <2>3
  <2>5. CASE WAKE.hold = 0 /\ WAKE.rearm /\ r = <<"settle">>
    BY <1>8, <2>1, <2>5 DEF SessionRests, Listens, First, End
  <2>6. CASE ~(WAKE.hold = 0 /\ WAKE.rearm) /\ r = <<>>
    BY <1>8, <2>1, <2>6 DEF SessionRests, Listens, First, End
  <2> QED
    BY <2>4, <2>5, <2>6
<1>9. CASE q = <<"settle">>
  <2>1. Tail(q) = <<>> /\ op = "settle"
    BY <1>1, <1>9, Tails
  <2>2. \/ WAKE.on /\ more = <<"listen">>
        \/ ~WAKE.on /\ more = <<>>
    BY <1>1, <2>1 DEF Adds
  <2>3. <<"listen">> \o <<>> = <<"listen">> /\ <<>> \o <<>> = <<>>
    BY Joins
  <2>4. (WAKE.on /\ r = <<"listen">>) \/ (~WAKE.on /\ r = <<>>)
    BY <1>1, <2>1, <2>2, <2>3
  <2>5. CASE WAKE.on /\ r = <<"listen">>
    BY <1>9, <2>1, <2>5 DEF SessionRests, Listens, First, End
  <2>6. CASE ~WAKE.on /\ r = <<>>
    BY <1>9, <2>1, <2>6 DEF SessionRests, Listens, First, End
  <2> QED
    BY <2>4, <2>5, <2>6
<1>10. CASE q = <<"rearm", "init">>
  <2>1. Tail(q) = <<"init">> /\ op = "rearm"
    BY <1>1, <1>10, Tails
  <2>2. \/ WAKE.hold = 0 /\ WAKE.rearm /\ more = <<"settle">>
        \/ ~(WAKE.hold = 0 /\ WAKE.rearm) /\ more = <<>>
    BY <1>1, <2>1 DEF Adds
  <2>3. <<"settle">> \o <<"init">> = <<"settle", "init">> /\ <<>> \o <<"init">> = <<"init">>
    BY Joins
  <2>4. (WAKE.hold = 0 /\ WAKE.rearm /\ r = <<"settle", "init">>) \/ (~(WAKE.hold = 0 /\ WAKE.rearm) /\ r = <<"init">>)
    BY <1>1, <2>1, <2>2, <2>3
  <2>5. CASE WAKE.hold = 0 /\ WAKE.rearm /\ r = <<"settle", "init">>
    BY <1>10, <2>1, <2>5 DEF SessionRests, Listens, First, End
  <2>6. CASE ~(WAKE.hold = 0 /\ WAKE.rearm) /\ r = <<"init">>
    BY <1>10, <2>1, <2>6 DEF SessionRests, Listens, First, End
  <2> QED
    BY <2>4, <2>5, <2>6
<1>11. CASE q = <<"settle", "init">>
  <2>1. Tail(q) = <<"init">> /\ op = "settle"
    BY <1>1, <1>11, Tails
  <2>2. \/ WAKE.on /\ more = <<"listen">>
        \/ ~WAKE.on /\ more = <<>>
    BY <1>1, <2>1 DEF Adds
  <2>3. <<"listen">> \o <<"init">> = <<"listen", "init">> /\ <<>> \o <<"init">> = <<"init">>
    BY Joins
  <2>4. (WAKE.on /\ r = <<"listen", "init">>) \/ (~WAKE.on /\ r = <<"init">>)
    BY <1>1, <2>1, <2>2, <2>3
  <2>5. CASE WAKE.on /\ r = <<"listen", "init">>
    BY <1>11, <2>1, <2>5 DEF SessionRests, Listens, First, End
  <2>6. CASE ~WAKE.on /\ r = <<"init">>
    BY <1>11, <2>1, <2>6 DEF SessionRests, Listens, First, End
  <2> QED
    BY <2>4, <2>5, <2>6
<1>12. CASE q = <<"listen", "init">>
  <2>1. Tail(q) = <<"init">> /\ op = "listen"
    BY <1>1, <1>12, Tails
  <2>2. more = <<"stream", "RS", "save">>
    BY <1>1, <2>1 DEF Adds
  <2>3. <<"stream", "RS", "save">> \o <<"init">> = <<"stream", "RS", "save", "init">>
    BY Joins
  <2>4. (Resource = "idle" /\ r = <<"stream", "RS", "save", "init">>)
    BY <1>1, <2>1, <2>2, <2>3
  <2> QED
    BY <1>12, <2>1, <2>4 DEF SessionRests, Listens, First, End
<1>13. CASE q = <<"stream", "RS", "save", "init">>
  <2>1. Tail(q) = <<"RS", "save", "init">> /\ op = "stream"
    BY <1>1, <1>13, Tails
  <2>2. r = <<"RS", "save", "init">>
    BY <1>1, <2>1, Joins DEF Adds
  <2> QED
    BY <1>13, <2>1, <2>2 DEF SessionRests, Listens, First, End
<1>14. CASE q = <<"RS", "save", "init">>
  <2>1. Tail(q) = <<"save", "init">> /\ op = "RS"
    BY <1>1, <1>14, Tails
  <2>2. r = <<"save", "init">>
    BY <1>1, <2>1, Joins DEF Adds
  <2> QED
    BY <1>14, <2>1, <2>2 DEF SessionRests, Listens, First, End
<1>15. CASE q = <<"save", "init">>
  <2>1. Tail(q) = <<"init">> /\ op = "save"
    BY <1>1, <1>15, Tails
  <2>2. r = <<"init">>
    BY <1>1, <2>1, Joins DEF Adds
  <2> QED
    BY <1>15, <2>1, <2>2 DEF SessionRests, Listens, First, End
<1>16. CASE q = <<"init">>
  BY <1>1, <1>16 DEF Taken
<1>17. CASE q = <<"readHold", "incHold">>
  <2>1. Tail(q) = <<"incHold">> /\ op = "readHold"
    BY <1>1, <1>17, Tails
  <2>2. r = <<"incHold">>
    BY <1>1, <2>1, Joins DEF Adds
  <2> QED
    BY <1>17, <2>1, <2>2 DEF SessionRests, Listens, First, End
<1>18. CASE q = <<"incHold">>
  <2>1. Tail(q) = <<>> /\ op = "incHold"
    BY <1>1, <1>18, Tails
  <2>2. r = <<>>
    BY <1>1, <2>1, Joins DEF Adds
  <2> QED
    BY <1>18, <2>1, <2>2 DEF SessionRests, Listens, First, End
<1> QED
  BY <1>1, <1>4, <1>5, <1>6, <1>7, <1>8, <1>9, <1>10, <1>11, <1>12, <1>13, <1>14, <1>15, <1>16, <1>17, <1>18 DEF SessionRests, Listens

\* A request: a sound, the microphone on, the microphone off.
ApiMove(op) ==
  /\ op \in {"free", "RT", "unstream", "owe", "ack", "ST", "off", "listen", "stream", "RS", "save"}
  /\ ToPlay <=> op \in {"free", "unstream", "owe", "ack", "ST"} \/ (op = "RT" /\ ~TurnedOff)
  /\ ToPlay' <=> ToPlay /\ op # "ST"
  /\ TurnedOff' <=> op = "off"
  /\ TurnedOff => op = "RT"
  /\ op = "free" => ApiAt' = IF WAKE.streaming THEN "RT" ELSE "ack"
  /\ op = "RT" => ApiAt' = IF TurnedOff THEN "save" ELSE "unstream"
  /\ op = "unstream" => ApiAt' = "owe"
  /\ op = "owe" => ApiAt' = "ack"
  /\ op = "ack" => ApiAt' = "ST"
  /\ op \in {"ST", "save"} => ApiAt' = "done"
  /\ op = "off" => ApiAt' = "RT"
  /\ op = "listen" => ApiAt' = "stream"
  /\ op = "stream" => ApiAt' = "RS"
  /\ op = "RS" => ApiAt' = "save"

\* A step of the request,
LEMMA ApiMoves ==
  ASSUME HoldInv, Rests, NEW op \in Taken, NEW more, Goes(Api, op, more), Adds(op, more),
         Resource = "idle", sess' = sess
  PROVE  /\ ApiAt = op /\ ctl'[Api] \in ApiRests /\ ApiMove(op)
<1> DEFINE q == ctl[Api]  r == ctl'[Api]
<1>0. Api \in Threads
  BY Names
<1>1. /\ r = more \o Tail(q) /\ q # <<>> /\ q[1] = op /\ q \in ApiRests
      /\ Adds(op, more) /\ op \in Taken /\ Resource = "idle"
  BY <1>0, GoesRest DEF Rests
<1>2. /\ ApiAt = First(q) /\ ApiAt' = First(r)
      /\ ToPlay <=> End(q) = "ST"
      /\ ToPlay' <=> End(r) = "ST"
      /\ TurnedOff <=> q = <<"RT", "save">>
      /\ TurnedOff' <=> r = <<"RT", "save">>
  BY <1>0, GoesRest DEF ApiAt, At, ToPlay, TurnedOff
<1> HIDE DEF q, r
<1> DEFINE Goal == /\ r \in ApiRests
                   /\ op \in {"free", "RT", "unstream", "owe", "ack", "ST", "off", "listen", "stream", "RS", "save"}
                   /\ (End(q) = "ST") <=> op \in {"free", "unstream", "owe", "ack", "ST"} \/ (op = "RT" /\ ~(q = <<"RT", "save">>))
                   /\ (End(r) = "ST") <=> (End(q) = "ST") /\ op # "ST"
                   /\ (r = <<"RT", "save">>) <=> op = "off"
                   /\ (q = <<"RT", "save">>) => op = "RT"
                   /\ op = "free" => First(r) = IF WAKE.streaming THEN "RT" ELSE "ack"
                   /\ op = "RT" => First(r) = IF (q = <<"RT", "save">>) THEN "save" ELSE "unstream"
                   /\ op = "unstream" => First(r) = "owe"
                   /\ op = "owe" => First(r) = "ack"
                   /\ op = "ack" => First(r) = "ST"
                   /\ op \in {"ST", "save"} => First(r) = "done"
                   /\ op = "off" => First(r) = "RT"
                   /\ op = "listen" => First(r) = "stream"
                   /\ op = "stream" => First(r) = "RS"
                   /\ op = "RS" => First(r) = "save"
<1>3. SUFFICES Goal
  BY <1>1, <1>2 DEF First, r, ApiMove
<1>4. CASE q = <<"listen">>
  <2>1. Tail(q) = <<>> /\ op = "listen"
    BY <1>1, <1>4, Tails
  <2>2. more = <<"stream", "RS", "save">>
    BY <1>1, <2>1 DEF Adds
  <2>3. <<"stream", "RS", "save">> \o <<>> = <<"stream", "RS", "save">>
    BY Joins
  <2>4. (Resource = "idle" /\ r = <<"stream", "RS", "save">>)
    BY <1>1, <2>1, <2>2, <2>3
  <2> QED
    BY <1>4, <2>1, <2>4 DEF ApiRests, Listens, First, End
<1>5. CASE q = <<"stream", "RS", "save">>
  <2>1. Tail(q) = <<"RS", "save">> /\ op = "stream"
    BY <1>1, <1>5, Tails
  <2>2. r = <<"RS", "save">>
    BY <1>1, <2>1, Joins DEF Adds
  <2> QED
    BY <1>5, <2>1, <2>2 DEF ApiRests, Listens, First, End
<1>6. CASE q = <<"RS", "save">>
  <2>1. Tail(q) = <<"save">> /\ op = "RS"
    BY <1>1, <1>6, Tails
  <2>2. r = <<"save">>
    BY <1>1, <2>1, Joins DEF Adds
  <2> QED
    BY <1>6, <2>1, <2>2 DEF ApiRests, Listens, First, End
<1>7. CASE q = <<"save">>
  <2>1. Tail(q) = <<>> /\ op = "save"
    BY <1>1, <1>7, Tails
  <2>2. r = <<>>
    BY <1>1, <2>1, Joins DEF Adds
  <2> QED
    BY <1>7, <2>1, <2>2 DEF ApiRests, Listens, First, End
<1>8. CASE q = <<"free", "ack", "ST">>
  <2>1. Tail(q) = <<"ack", "ST">> /\ op = "free"
    BY <1>1, <1>8, Tails
  <2>2. \/ WAKE.streaming /\ more = <<"RT", "unstream", "owe">>
        \/ ~WAKE.streaming /\ more = <<>>
    BY <1>1, <2>1 DEF Adds
  <2>3. <<"RT", "unstream", "owe">> \o <<"ack", "ST">> = <<"RT", "unstream", "owe", "ack", "ST">> /\ <<>> \o <<"ack", "ST">> = <<"ack", "ST">>
    BY Joins
  <2>4. (WAKE.streaming /\ r = <<"RT", "unstream", "owe", "ack", "ST">>) \/ (~WAKE.streaming /\ r = <<"ack", "ST">>)
    BY <1>1, <2>1, <2>2, <2>3
  <2>5. CASE WAKE.streaming /\ r = <<"RT", "unstream", "owe", "ack", "ST">>
    BY <1>8, <2>1, <2>5 DEF ApiRests, Listens, First, End
  <2>6. CASE ~WAKE.streaming /\ r = <<"ack", "ST">>
    BY <1>8, <2>1, <2>6 DEF ApiRests, Listens, First, End
  <2> QED
    BY <2>4, <2>5, <2>6
<1>9. CASE q = <<"RT", "unstream", "owe", "ack", "ST">>
  <2>1. Tail(q) = <<"unstream", "owe", "ack", "ST">> /\ op = "RT"
    BY <1>1, <1>9, Tails
  <2>2. r = <<"unstream", "owe", "ack", "ST">>
    BY <1>1, <2>1, Joins DEF Adds
  <2> QED
    BY <1>9, <2>1, <2>2 DEF ApiRests, Listens, First, End
<1>10. CASE q = <<"unstream", "owe", "ack", "ST">>
  <2>1. Tail(q) = <<"owe", "ack", "ST">> /\ op = "unstream"
    BY <1>1, <1>10, Tails
  <2>2. r = <<"owe", "ack", "ST">>
    BY <1>1, <2>1, Joins DEF Adds
  <2> QED
    BY <1>10, <2>1, <2>2 DEF ApiRests, Listens, First, End
<1>11. CASE q = <<"owe", "ack", "ST">>
  <2>1. Tail(q) = <<"ack", "ST">> /\ op = "owe"
    BY <1>1, <1>11, Tails
  <2>2. r = <<"ack", "ST">>
    BY <1>1, <2>1, Joins DEF Adds
  <2> QED
    BY <1>11, <2>1, <2>2 DEF ApiRests, Listens, First, End
<1>12. CASE q = <<"ack", "ST">>
  <2>1. Tail(q) = <<"ST">> /\ op = "ack"
    BY <1>1, <1>12, Tails
  <2>2. r = <<"ST">>
    BY <1>1, <2>1, Joins DEF Adds
  <2> QED
    BY <1>12, <2>1, <2>2 DEF ApiRests, Listens, First, End
<1>13. CASE q = <<"ST">>
  <2>1. Tail(q) = <<>> /\ op = "ST"
    BY <1>1, <1>13, Tails
  <2>2. r = <<>>
    BY <1>1, <2>1, Joins DEF Adds
  <2> QED
    BY <1>13, <2>1, <2>2 DEF ApiRests, Listens, First, End
<1>14. CASE q = <<"off", "RT", "save">>
  <2>1. Tail(q) = <<"RT", "save">> /\ op = "off"
    BY <1>1, <1>14, Tails
  <2>2. r = <<"RT", "save">>
    BY <1>1, <2>1, Joins DEF Adds
  <2> QED
    BY <1>14, <2>1, <2>2 DEF ApiRests, Listens, First, End
<1>15. CASE q = <<"RT", "save">>
  <2>1. Tail(q) = <<"save">> /\ op = "RT"
    BY <1>1, <1>15, Tails
  <2>2. r = <<"save">>
    BY <1>1, <2>1, Joins DEF Adds
  <2> QED
    BY <1>15, <2>1, <2>2 DEF ApiRests, Listens, First, End
<1> QED
  BY <1>1, <1>4, <1>5, <1>6, <1>7, <1>8, <1>9, <1>10, <1>11, <1>12, <1>13, <1>14, <1>15 DEF ApiRests, Listens

\* The wake loop puts the microphone back.
WakeMove(op) ==
  /\ op \in {"listen", "stream", "RS", "save", "owe"}
  /\ op = "listen" => WakeAt' = IF Resource = "idle" THEN "stream" ELSE "owe"
  /\ op = "stream" => WakeAt' = "RS"
  /\ op \in {"RS", "owe"} => WakeAt' = "save"
  /\ op = "save" => WakeAt' = "done"

\* of the wake loop,
LEMMA WakeMoves ==
  ASSUME HoldInv, Rests, NEW op \in Taken, NEW more, Goes(Wake, op, more), Adds(op, more),
         sess' = sess
  PROVE  /\ WakeAt = op /\ ctl'[Wake] \in WakeRests /\ WakeMove(op)
<1> DEFINE q == ctl[Wake]  r == ctl'[Wake]
<1>0. Wake \in Threads
  BY Names
<1>1. /\ r = more \o Tail(q) /\ q # <<>> /\ q[1] = op /\ q \in WakeRests
      /\ Adds(op, more) /\ op \in Taken
  BY <1>0, GoesRest DEF Rests
<1>2. /\ WakeAt = First(q) /\ WakeAt' = First(r)
  BY <1>0, GoesRest DEF WakeAt, At
<1> HIDE DEF q, r
<1> DEFINE Goal == /\ r \in WakeRests
                   /\ op \in {"listen", "stream", "RS", "save", "owe"}
                   /\ op = "listen" => First(r) = IF Resource = "idle" THEN "stream" ELSE "owe"
                   /\ op = "stream" => First(r) = "RS"
                   /\ op \in {"RS", "owe"} => First(r) = "save"
                   /\ op = "save" => First(r) = "done"
<1>3. SUFFICES Goal
  BY <1>1, <1>2 DEF First, r, WakeMove
<1>4. CASE q = <<"listen">>
  <2>1. Tail(q) = <<>> /\ op = "listen"
    BY <1>1, <1>4, Tails
  <2>2. \/ Resource = "idle" /\ more = <<"stream", "RS", "save">>
        \/ Resource # "idle" /\ more = <<"owe", "save">>
    BY <1>1, <2>1 DEF Adds
  <2>3. <<"stream", "RS", "save">> \o <<>> = <<"stream", "RS", "save">> /\ <<"owe", "save">> \o <<>> = <<"owe", "save">>
    BY Joins
  <2>4. (Resource = "idle" /\ r = <<"stream", "RS", "save">>) \/ (Resource # "idle" /\ r = <<"owe", "save">>)
    BY <1>1, <2>1, <2>2, <2>3
  <2>5. CASE Resource = "idle" /\ r = <<"stream", "RS", "save">>
    BY <1>4, <2>1, <2>5 DEF WakeRests, Listens, First, End
  <2>6. CASE Resource # "idle" /\ r = <<"owe", "save">>
    BY <1>4, <2>1, <2>6 DEF WakeRests, Listens, First, End
  <2> QED
    BY <2>4, <2>5, <2>6
<1>5. CASE q = <<"stream", "RS", "save">>
  <2>1. Tail(q) = <<"RS", "save">> /\ op = "stream"
    BY <1>1, <1>5, Tails
  <2>2. r = <<"RS", "save">>
    BY <1>1, <2>1, Joins DEF Adds
  <2> QED
    BY <1>5, <2>1, <2>2 DEF WakeRests, Listens, First, End
<1>6. CASE q = <<"RS", "save">>
  <2>1. Tail(q) = <<"save">> /\ op = "RS"
    BY <1>1, <1>6, Tails
  <2>2. r = <<"save">>
    BY <1>1, <2>1, Joins DEF Adds
  <2> QED
    BY <1>6, <2>1, <2>2 DEF WakeRests, Listens, First, End
<1>7. CASE q = <<"save">>
  <2>1. Tail(q) = <<>> /\ op = "save"
    BY <1>1, <1>7, Tails
  <2>2. r = <<>>
    BY <1>1, <2>1, Joins DEF Adds
  <2> QED
    BY <1>7, <2>1, <2>2 DEF WakeRests, Listens, First, End
<1>8. CASE q = <<"owe", "save">>
  <2>1. Tail(q) = <<"save">> /\ op = "owe"
    BY <1>1, <1>8, Tails
  <2>2. r = <<"save">>
    BY <1>1, <2>1, Joins DEF Adds
  <2> QED
    BY <1>8, <2>1, <2>2 DEF WakeRests, Listens, First, End
<1> QED
  BY <1>1, <1>4, <1>5, <1>6, <1>7, <1>8 DEF WakeRests, Listens

\* The timer that clears the microphone of a new connection.
ClearMove(op) ==
  /\ op \in {"wait", "RT", "unstream"}
  /\ op = "wait" => ClearAt' = "RT"
  /\ op = "RT" => ClearAt' = "unstream"
  /\ op = "unstream" => ClearAt' = "done"

\* of the timer that stops what an earlier life of the rabbit started,
LEMMA ClearMoves ==
  ASSUME HoldInv, Rests, NEW op \in Taken, NEW more, Goes(<<"clear", sess>>, op, more), Adds(op, more),
         sess \in Sess, sess' = sess
  PROVE  /\ ClearAt = op /\ ctl'[<<"clear", sess>>] \in ClearRests /\ ClearMove(op)
<1> DEFINE q == ctl[<<"clear", sess>>]  r == ctl'[<<"clear", sess>>]
<1>0. <<"clear", sess>> \in Threads
  BY Names
<1>1. /\ r = more \o Tail(q) /\ q # <<>> /\ q[1] = op /\ q \in ClearRests
      /\ Adds(op, more) /\ op \in Taken
  <2>1. q \in ClearRests
    BY DEF Rests
  <2>2. /\ r = more \o Tail(q) /\ q # <<>> /\ Head(q) = op
    BY <1>0, GoesRest
  <2> HIDE DEF q, r
  <2> QED
    BY <2>1, <2>2
<1>2. /\ ClearAt = First(q) /\ ClearAt' = First(r)
  BY <1>0, GoesRest DEF ClearAt, At
<1> HIDE DEF q, r
<1> DEFINE Goal == /\ r \in ClearRests
                   /\ op \in {"wait", "RT", "unstream"}
                   /\ op = "wait" => First(r) = "RT"
                   /\ op = "RT" => First(r) = "unstream"
                   /\ op = "unstream" => First(r) = "done"
<1>3. SUFFICES Goal
  BY <1>1, <1>2 DEF First, r, ClearMove
<1>4. CASE q = <<"wait", "RT", "unstream">>
  <2>1. Tail(q) = <<"RT", "unstream">> /\ op = "wait"
    BY <1>1, <1>4, Tails
  <2>2. r = <<"RT", "unstream">>
    BY <1>1, <2>1, Joins DEF Adds
  <2> QED
    BY <1>4, <2>1, <2>2 DEF ClearRests, First, End
<1>5. CASE q = <<"RT", "unstream">>
  <2>1. Tail(q) = <<"unstream">> /\ op = "RT"
    BY <1>1, <1>5, Tails
  <2>2. r = <<"unstream">>
    BY <1>1, <2>1, Joins DEF Adds
  <2> QED
    BY <1>5, <2>1, <2>2 DEF ClearRests, First, End
<1>6. CASE q = <<"unstream">>
  <2>1. Tail(q) = <<>> /\ op = "unstream"
    BY <1>1, <1>6, Tails
  <2>2. r = <<>>
    BY <1>1, <2>1, Joins DEF Adds
  <2> QED
    BY <1>6, <2>1, <2>2 DEF ClearRests, First, End
<1> QED
  BY <1>1, <1>4, <1>5, <1>6 DEF ClearRests

\* The timer that starts to listen.
LaterMove(op) ==
  /\ op \in {"wait", "listen", "stream", "RS", "save"}
  /\ op = "wait" => LaterAt' = "listen"
  /\ op = "listen" => LaterAt' = "stream"
  /\ op = "stream" => LaterAt' = "RS"
  /\ op = "RS" => LaterAt' = "save"
  /\ op = "save" => LaterAt' = "done"

\* of the timer that starts to listen,
LEMMA LaterMoves ==
  ASSUME HoldInv, Rests, NEW op \in Taken, NEW more, Goes(<<"listen", sess>>, op, more), Adds(op, more),
         sess \in Sess, Resource = "idle", sess' = sess
  PROVE  /\ LaterAt = op /\ ctl'[<<"listen", sess>>] \in LaterRests /\ LaterMove(op)
<1> DEFINE q == ctl[<<"listen", sess>>]  r == ctl'[<<"listen", sess>>]
<1>0. <<"listen", sess>> \in Threads
  BY Names
<1>1. /\ r = more \o Tail(q) /\ q # <<>> /\ q[1] = op /\ q \in LaterRests
      /\ Adds(op, more) /\ op \in Taken /\ Resource = "idle"
  <2>1. q \in LaterRests
    BY DEF Rests
  <2>2. /\ r = more \o Tail(q) /\ q # <<>> /\ Head(q) = op
    BY <1>0, GoesRest
  <2> HIDE DEF q, r
  <2> QED
    BY <2>1, <2>2
<1>2. /\ LaterAt = First(q) /\ LaterAt' = First(r)
  BY <1>0, GoesRest DEF LaterAt, At
<1> HIDE DEF q, r
<1> DEFINE Goal == /\ r \in LaterRests
                   /\ op \in {"wait", "listen", "stream", "RS", "save"}
                   /\ op = "wait" => First(r) = "listen"
                   /\ op = "listen" => First(r) = "stream"
                   /\ op = "stream" => First(r) = "RS"
                   /\ op = "RS" => First(r) = "save"
                   /\ op = "save" => First(r) = "done"
<1>3. SUFFICES Goal
  BY <1>1, <1>2 DEF First, r, LaterMove
<1>4. CASE q = <<"wait", "listen">>
  <2>1. Tail(q) = <<"listen">> /\ op = "wait"
    BY <1>1, <1>4, Tails
  <2>2. r = <<"listen">>
    BY <1>1, <2>1, Joins DEF Adds
  <2> QED
    BY <1>4, <2>1, <2>2 DEF LaterRests, Listens, First, End
<1>5. CASE q = <<"listen">>
  <2>1. Tail(q) = <<>> /\ op = "listen"
    BY <1>1, <1>5, Tails
  <2>2. more = <<"stream", "RS", "save">>
    BY <1>1, <2>1 DEF Adds
  <2>3. <<"stream", "RS", "save">> \o <<>> = <<"stream", "RS", "save">>
    BY Joins
  <2>4. (Resource = "idle" /\ r = <<"stream", "RS", "save">>)
    BY <1>1, <2>1, <2>2, <2>3
  <2> QED
    BY <1>5, <2>1, <2>4 DEF LaterRests, Listens, First, End
<1>6. CASE q = <<"stream", "RS", "save">>
  <2>1. Tail(q) = <<"RS", "save">> /\ op = "stream"
    BY <1>1, <1>6, Tails
  <2>2. r = <<"RS", "save">>
    BY <1>1, <2>1, Joins DEF Adds
  <2> QED
    BY <1>6, <2>1, <2>2 DEF LaterRests, Listens, First, End
<1>7. CASE q = <<"RS", "save">>
  <2>1. Tail(q) = <<"save">> /\ op = "RS"
    BY <1>1, <1>7, Tails
  <2>2. r = <<"save">>
    BY <1>1, <2>1, Joins DEF Adds
  <2> QED
    BY <1>7, <2>1, <2>2 DEF LaterRests, Listens, First, End
<1>8. CASE q = <<"save">>
  <2>1. Tail(q) = <<>> /\ op = "save"
    BY <1>1, <1>8, Tails
  <2>2. r = <<>>
    BY <1>1, <2>1, Joins DEF Adds
  <2> QED
    BY <1>8, <2>1, <2>2 DEF LaterRests, Listens, First, End
<1> QED
  BY <1>1, <1>4, <1>5, <1>6, <1>7, <1>8 DEF LaterRests, Listens

\* The timer that plays the connect jingle, and releases its hold.
GreetMove(op) ==
  /\ op \in {"wait", "owe", "free", "RT", "unstream", "ack", "ST", "readHold", "decHold"}
  /\ op = "wait" => GreetAt' = IF ToOwe THEN "owe" ELSE "free"
  /\ op = "owe" => GreetAt' \in {"free", "ack"}
  /\ op = "free" => GreetAt' = IF WAKE.streaming THEN "RT" ELSE "ack"
  /\ op = "RT" => GreetAt' = "unstream"
  /\ op = "unstream" => GreetAt' = "owe"
  /\ op = "ack" => GreetAt' = "ST"
  /\ op = "ST" => GreetAt' = "readHold"
  /\ op = "readHold" => GreetAt' = "decHold"
  /\ op = "decHold" => GreetAt' = "done"

\* and of the one that greets with a jingle.
LEMMA GreetMoves ==
  ASSUME HoldInv, Rests, NEW op \in Taken, NEW more, Goes(<<"jingle", sess>>, op, more), Adds(op, more),
         sess \in Sess, sess' = sess
  PROVE  /\ GreetAt = op /\ ctl'[<<"jingle", sess>>] \in GreetRests /\ GreetMove(op)
<1> DEFINE q == ctl[<<"jingle", sess>>]  r == ctl'[<<"jingle", sess>>]
<1>0. <<"jingle", sess>> \in Threads
  BY Names
<1>1. /\ r = more \o Tail(q) /\ q # <<>> /\ q[1] = op /\ q \in GreetRests
      /\ Adds(op, more) /\ op \in Taken
  <2>1. q \in GreetRests
    BY DEF Rests
  <2>2. /\ r = more \o Tail(q) /\ q # <<>> /\ Head(q) = op
    BY <1>0, GoesRest
  <2> HIDE DEF q, r
  <2> QED
    BY <2>1, <2>2
<1>2. /\ GreetAt = First(q) /\ GreetAt' = First(r)
      /\ ToOwe <=> Len(q) > 1 /\ q[2] = "owe"
  BY <1>0, GoesRest DEF GreetAt, At, ToOwe
<1> HIDE DEF q, r
<1> DEFINE Goal == /\ r \in GreetRests
                   /\ op \in {"wait", "owe", "free", "RT", "unstream", "ack", "ST", "readHold", "decHold"}
                   /\ op = "wait" => First(r) = IF Len(q) > 1 /\ q[2] = "owe" THEN "owe" ELSE "free"
                   /\ op = "owe" => First(r) \in {"free", "ack"}
                   /\ op = "free" => First(r) = IF WAKE.streaming THEN "RT" ELSE "ack"
                   /\ op = "RT" => First(r) = "unstream"
                   /\ op = "unstream" => First(r) = "owe"
                   /\ op = "ack" => First(r) = "ST"
                   /\ op = "ST" => First(r) = "readHold"
                   /\ op = "readHold" => First(r) = "decHold"
                   /\ op = "decHold" => First(r) = "done"
<1>3. SUFFICES Goal
  BY <1>1, <1>2 DEF First, r, GreetMove
<1>4. CASE q = <<"wait", "owe", "free", "ack", "ST", "readHold", "decHold">>
  <2>1. Tail(q) = <<"owe", "free", "ack", "ST", "readHold", "decHold">> /\ op = "wait"
    BY <1>1, <1>4, Tails
  <2>2. r = <<"owe", "free", "ack", "ST", "readHold", "decHold">>
    BY <1>1, <2>1, Joins DEF Adds
  <2> QED
    BY <1>4, <2>1, <2>2 DEF GreetRests, First, End
<1>5. CASE q = <<"wait", "free", "ack", "ST", "readHold", "decHold">>
  <2>1. Tail(q) = <<"free", "ack", "ST", "readHold", "decHold">> /\ op = "wait"
    BY <1>1, <1>5, Tails
  <2>2. r = <<"free", "ack", "ST", "readHold", "decHold">>
    BY <1>1, <2>1, Joins DEF Adds
  <2> QED
    BY <1>5, <2>1, <2>2 DEF GreetRests, First, End
<1>6. CASE q = <<"owe", "free", "ack", "ST", "readHold", "decHold">>
  <2>1. Tail(q) = <<"free", "ack", "ST", "readHold", "decHold">> /\ op = "owe"
    BY <1>1, <1>6, Tails
  <2>2. r = <<"free", "ack", "ST", "readHold", "decHold">>
    BY <1>1, <2>1, Joins DEF Adds
  <2> QED
    BY <1>6, <2>1, <2>2 DEF GreetRests, First, End
<1>7. CASE q = <<"free", "ack", "ST", "readHold", "decHold">>
  <2>1. Tail(q) = <<"ack", "ST", "readHold", "decHold">> /\ op = "free"
    BY <1>1, <1>7, Tails
  <2>2. \/ WAKE.streaming /\ more = <<"RT", "unstream", "owe">>
        \/ ~WAKE.streaming /\ more = <<>>
    BY <1>1, <2>1 DEF Adds
  <2>3. <<"RT", "unstream", "owe">> \o <<"ack", "ST", "readHold", "decHold">> = <<"RT", "unstream", "owe", "ack", "ST", "readHold", "decHold">> /\ <<>> \o <<"ack", "ST", "readHold", "decHold">> = <<"ack", "ST", "readHold", "decHold">>
    BY Joins
  <2>4. (WAKE.streaming /\ r = <<"RT", "unstream", "owe", "ack", "ST", "readHold", "decHold">>) \/ (~WAKE.streaming /\ r = <<"ack", "ST", "readHold", "decHold">>)
    BY <1>1, <2>1, <2>2, <2>3
  <2>5. CASE WAKE.streaming /\ r = <<"RT", "unstream", "owe", "ack", "ST", "readHold", "decHold">>
    BY <1>7, <2>1, <2>5 DEF GreetRests, First, End
  <2>6. CASE ~WAKE.streaming /\ r = <<"ack", "ST", "readHold", "decHold">>
    BY <1>7, <2>1, <2>6 DEF GreetRests, First, End
  <2> QED
    BY <2>4, <2>5, <2>6
<1>8. CASE q = <<"RT", "unstream", "owe", "ack", "ST", "readHold", "decHold">>
  <2>1. Tail(q) = <<"unstream", "owe", "ack", "ST", "readHold", "decHold">> /\ op = "RT"
    BY <1>1, <1>8, Tails
  <2>2. r = <<"unstream", "owe", "ack", "ST", "readHold", "decHold">>
    BY <1>1, <2>1, Joins DEF Adds
  <2> QED
    BY <1>8, <2>1, <2>2 DEF GreetRests, First, End
<1>9. CASE q = <<"unstream", "owe", "ack", "ST", "readHold", "decHold">>
  <2>1. Tail(q) = <<"owe", "ack", "ST", "readHold", "decHold">> /\ op = "unstream"
    BY <1>1, <1>9, Tails
  <2>2. r = <<"owe", "ack", "ST", "readHold", "decHold">>
    BY <1>1, <2>1, Joins DEF Adds
  <2> QED
    BY <1>9, <2>1, <2>2 DEF GreetRests, First, End
<1>10. CASE q = <<"owe", "ack", "ST", "readHold", "decHold">>
  <2>1. Tail(q) = <<"ack", "ST", "readHold", "decHold">> /\ op = "owe"
    BY <1>1, <1>10, Tails
  <2>2. r = <<"ack", "ST", "readHold", "decHold">>
    BY <1>1, <2>1, Joins DEF Adds
  <2> QED
    BY <1>10, <2>1, <2>2 DEF GreetRests, First, End
<1>11. CASE q = <<"ack", "ST", "readHold", "decHold">>
  <2>1. Tail(q) = <<"ST", "readHold", "decHold">> /\ op = "ack"
    BY <1>1, <1>11, Tails
  <2>2. r = <<"ST", "readHold", "decHold">>
    BY <1>1, <2>1, Joins DEF Adds
  <2> QED
    BY <1>11, <2>1, <2>2 DEF GreetRests, First, End
<1>12. CASE q = <<"ST", "readHold", "decHold">>
  <2>1. Tail(q) = <<"readHold", "decHold">> /\ op = "ST"
    BY <1>1, <1>12, Tails
  <2>2. r = <<"readHold", "decHold">>
    BY <1>1, <2>1, Joins DEF Adds
  <2> QED
    BY <1>12, <2>1, <2>2 DEF GreetRests, First, End
<1>13. CASE q = <<"readHold", "decHold">>
  <2>1. Tail(q) = <<"decHold">> /\ op = "readHold"
    BY <1>1, <1>13, Tails
  <2>2. r = <<"decHold">>
    BY <1>1, <2>1, Joins DEF Adds
  <2> QED
    BY <1>13, <2>1, <2>2 DEF GreetRests, First, End
<1>14. CASE q = <<"decHold">>
  <2>1. Tail(q) = <<>> /\ op = "decHold"
    BY <1>1, <1>14, Tails
  <2>2. r = <<>>
    BY <1>1, <2>1, Joins DEF Adds
  <2> QED
    BY <1>14, <2>1, <2>2 DEF GreetRests, First, End
<1> QED
  BY <1>1, <1>4, <1>5, <1>6, <1>7, <1>8, <1>9, <1>10, <1>11, <1>12, <1>13, <1>14 DEF GreetRests

-----------------------------------------------------------------------------
\* The programs under way, when one is sent and when one arrives.
LEMMA Sent ==
  ASSUME toRabbit \in Seq({"RT", "RS", "ST"}), NEW program \in {"RT", "RS", "ST"},
         toRabbit' = Append(toRabbit, program)
  PROVE  /\ ST' <=> ST \/ program = "ST"
         /\ RT' <=> RT \/ program = "RT"
         /\ RS' <=> RS \/ program = "RS"
         /\ OneST /\ (program = "ST" => ~ST) => OneST'
         /\ RSLast' <=> program = "RS" \/ (RSLast /\ program # "RT")
         /\ toRabbit' # <<>>
<1> DEFINE q == toRabbit  r == toRabbit'
<1>1. /\ Len(q) \in Nat /\ Len(r) = Len(q) + 1 /\ r[Len(r)] = program
      /\ \A i \in 1..Len(q) : r[i] = q[i]
      /\ \A i \in 1..Len(r) : i \in 1..Len(q) \/ i = Len(r)
      /\ Len(r) \in 1..Len(r)
      /\ \A i \in 1..Len(q) : i \in 1..Len(r)
      /\ r # <<>>
  OBVIOUS
<1>2. /\ ST <=> \E i \in 1..Len(q) : q[i] = "ST"
      /\ RT <=> \E i \in 1..Len(q) : q[i] = "RT"
      /\ RS <=> \E i \in 1..Len(q) : q[i] = "RS"
      /\ ST' <=> \E i \in 1..Len(r) : r[i] = "ST"
      /\ RT' <=> \E i \in 1..Len(r) : r[i] = "RT"
      /\ RS' <=> \E i \in 1..Len(r) : r[i] = "RS"
  BY DEF ST, RT, RS, Contains
<1>3. /\ OneST <=> \A i, j \in 1..Len(q) : q[i] = "ST" /\ q[j] = "ST" => i = j
      /\ OneST' <=> \A i, j \in 1..Len(r) : r[i] = "ST" /\ r[j] = "ST" => i = j
      /\ RSLast <=> \E i \in 1..Len(q) : q[i] = "RS" /\ \A j \in i..Len(q) : q[j] # "RT"
      /\ RSLast' <=> \E i \in 1..Len(r) : r[i] = "RS" /\ \A j \in i..Len(r) : r[j] # "RT"
  BY DEF OneST, RSLast
<1> HIDE DEF q, r
<1>4. /\ ST' <=> ST \/ program = "ST"
      /\ RT' <=> RT \/ program = "RT"
      /\ RS' <=> RS \/ program = "RS"
  BY <1>1, <1>2
<1>5. OneST /\ (program = "ST" => ~ST) => OneST'
  <2> SUFFICES ASSUME OneST, program = "ST" => ~ST, NEW i \in 1..Len(r), NEW j \in 1..Len(r),
                      r[i] = "ST", r[j] = "ST"
               PROVE  i = j
    BY <1>3
  <2>1. CASE program = "ST"
    <3>1. i \notin 1..Len(q) /\ j \notin 1..Len(q)
      BY <1>1, <1>2, <2>1
    <3> QED
      BY <1>1, <3>1
  <2>2. CASE program # "ST"
    <3>1. i \in 1..Len(q) /\ j \in 1..Len(q) /\ q[i] = "ST" /\ q[j] = "ST"
      BY <1>1, <2>2
    <3> QED
      BY <1>3, <3>1
  <2> QED
    BY <2>1, <2>2
<1>6. RSLast' => program = "RS" \/ (RSLast /\ program # "RT")
  <2> SUFFICES ASSUME RSLast', program # "RS"
               PROVE  RSLast /\ program # "RT"
    OBVIOUS
  <2>1. PICK i \in 1..Len(r) : r[i] = "RS" /\ \A j \in i..Len(r) : r[j] # "RT"
    BY <1>3
  <2>2. i \in 1..Len(q) /\ Len(r) \in i..Len(r) /\ \A j \in i..Len(q) : j \in i..Len(r) /\ j \in 1..Len(q)
    BY <1>1, <2>1
  <2> QED
    BY <1>1, <1>3, <2>1, <2>2
<1>7. program = "RS" => RSLast'
  BY <1>1, <1>3
<1>8. RSLast /\ program # "RT" => RSLast'
  <2> SUFFICES ASSUME RSLast, program # "RT"
               PROVE  RSLast'
    OBVIOUS
  <2>1. PICK i \in 1..Len(q) : q[i] = "RS" /\ \A j \in i..Len(q) : q[j] # "RT"
    BY <1>3
  <2>2. i \in 1..Len(r) /\ \A j \in i..Len(r) : (j \in i..Len(q) /\ j \in 1..Len(q)) \/ j = Len(r)
    BY <1>1, <2>1
  <2>3. r[i] = "RS" /\ \A j \in i..Len(r) : r[j] # "RT"
    BY <1>1, <2>1, <2>2
  <2> QED
    BY <1>3, <2>2, <2>3
<1> QED
  BY <1>1, <1>4, <1>5, <1>6, <1>7, <1>8 DEF r

\* The programs under way when the first of them arrives,
LEMMA Arrived ==
  ASSUME toRabbit \in Seq({"RT", "RS", "ST"}), toRabbit # <<>>, NEW program,
         Head(toRabbit) = program, toRabbit' = Tail(toRabbit)
  PROVE  /\ ST <=> ST' \/ program = "ST"
         /\ RT <=> RT' \/ program = "RT"
         /\ RS <=> RS' \/ program = "RS"
         /\ OneST => OneST' /\ (program = "ST" => ~ST')
         /\ RSLast' => RSLast
         /\ RSLast => RSLast' \/ (program = "RS" /\ ~RT')
<1> DEFINE q == toRabbit  r == toRabbit'
<1>1. /\ Len(q) \in Nat /\ Len(q) >= 1 /\ Len(r) = Len(q) - 1 /\ q[1] = program
      /\ \A i \in 1..Len(r) : r[i] = q[i + 1] /\ i + 1 \in 1..Len(q) /\ i + 1 # 1
      /\ \A i \in 1..Len(q) : i = 1 \/ (i - 1 \in 1..Len(r) /\ r[i - 1] = q[i])
      /\ 1 \in 1..Len(q)
  OBVIOUS
<1>2. /\ ST <=> \E i \in 1..Len(q) : q[i] = "ST"
      /\ RT <=> \E i \in 1..Len(q) : q[i] = "RT"
      /\ RS <=> \E i \in 1..Len(q) : q[i] = "RS"
      /\ ST' <=> \E i \in 1..Len(r) : r[i] = "ST"
      /\ RT' <=> \E i \in 1..Len(r) : r[i] = "RT"
      /\ RS' <=> \E i \in 1..Len(r) : r[i] = "RS"
  BY DEF ST, RT, RS, Contains
<1>3. /\ OneST <=> \A i, j \in 1..Len(q) : q[i] = "ST" /\ q[j] = "ST" => i = j
      /\ OneST' <=> \A i, j \in 1..Len(r) : r[i] = "ST" /\ r[j] = "ST" => i = j
      /\ RSLast <=> \E i \in 1..Len(q) : q[i] = "RS" /\ \A j \in i..Len(q) : q[j] # "RT"
      /\ RSLast' <=> \E i \in 1..Len(r) : r[i] = "RS" /\ \A j \in i..Len(r) : r[j] # "RT"
  BY DEF OneST, RSLast
<1> HIDE DEF q, r
<1>4. /\ ST <=> ST' \/ program = "ST"
      /\ RT <=> RT' \/ program = "RT"
      /\ RS <=> RS' \/ program = "RS"
  <2>1. ASSUME NEW x
        PROVE  (\E i \in 1..Len(q) : q[i] = x) <=> (\E i \in 1..Len(r) : r[i] = x) \/ program = x
    <3>1. ASSUME NEW i \in 1..Len(q), q[i] = x
          PROVE  (\E j \in 1..Len(r) : r[j] = x) \/ program = x
      BY <1>1, <3>1
    <3>2. ASSUME NEW i \in 1..Len(r), r[i] = x PROVE \E j \in 1..Len(q) : q[j] = x
      <4>1. i + 1 \in 1..Len(q) /\ q[i + 1] = x
        BY <1>1, <3>2
      <4> QED
        BY <4>1
    <3> QED
      BY <1>1, <3>1, <3>2
  <2> QED
    BY <1>2, <2>1
<1>5. OneST => OneST' /\ (program = "ST" => ~ST')
  <2> SUFFICES ASSUME OneST PROVE OneST' /\ (program = "ST" => ~ST')
    OBVIOUS
  <2>1. OneST'
    <3> SUFFICES ASSUME NEW i \in 1..Len(r), NEW j \in 1..Len(r), r[i] = "ST", r[j] = "ST"
                 PROVE  i = j
      BY <1>3
    <3>1. /\ i + 1 \in 1..Len(q) /\ q[i + 1] = "ST" /\ i \in Int
          /\ j + 1 \in 1..Len(q) /\ q[j + 1] = "ST" /\ j \in Int
      BY <1>1
    <3>2. i + 1 = j + 1
      BY <1>3, <3>1
    <3> QED
      BY <3>1, <3>2
  <2>2. program = "ST" => ~ST'
    BY <1>1, <1>2, <1>3
  <2> QED
    BY <2>1, <2>2
<1>6. RSLast' => RSLast
  <2> SUFFICES ASSUME RSLast' PROVE RSLast
    OBVIOUS
  <2>1. PICK i \in 1..Len(r) : r[i] = "RS" /\ \A j \in i..Len(r) : r[j] # "RT"
    BY <1>3
  <2>2. \A j \in (i + 1)..Len(q) : j - 1 \in i..Len(r) /\ r[j - 1] = q[j]
    BY <1>1, <2>1
  <2> QED
    BY <1>1, <1>3, <2>1, <2>2
<1>7. RSLast => RSLast' \/ (program = "RS" /\ ~RT')
  <2> SUFFICES ASSUME RSLast PROVE RSLast' \/ (program = "RS" /\ ~RT')
    OBVIOUS
  <2>1. PICK i \in 1..Len(q) : q[i] = "RS" /\ \A j \in i..Len(q) : q[j] # "RT"
    BY <1>3
  <2>2. CASE i = 1
    <3>1. \A j \in 1..Len(r) : r[j] # "RT"
      BY <1>1, <2>1, <2>2
    <3> QED
      BY <1>1, <1>2, <2>1, <2>2, <3>1
  <2>3. CASE i # 1
    <3>1. \A j \in (i - 1)..Len(r) : j \in 1..Len(r) /\ j + 1 \in i..Len(q)
      BY <1>1, <2>1, <2>3
    <3>2. i - 1 \in 1..Len(r) /\ r[i - 1] = "RS"
      BY <1>1, <2>1, <2>3
    <3>3. \A j \in (i - 1)..Len(r) : r[j] # "RT"
      BY <1>1, <2>1, <3>1
    <3> QED
      BY <1>3, <3>2, <3>3
  <2> QED
    BY <2>2, <2>3
<1> QED
  BY <1>4, <1>5, <1>6, <1>7

\* when there are none,
LEMMA NothingSent == toRabbit = <<>> => ~ST /\ ~RT /\ ~RS /\ ~RSLast /\ OneST
BY DEF ST, RT, RS, RSLast, OneST, Contains

\* A step leaves the connection's session alone, and may send a program.
Sends(op) ==
  /\ ST' <=> ST \/ (op = "ST" /\ link)
  /\ RT' <=> RT \/ (op = "RT" /\ link)
  /\ RS' <=> RS \/ (op = "RS" /\ link)
  /\ OneST /\ (op = "ST" => ~ST) => OneST'
  /\ RSLast' <=> (op = "RS" /\ link) \/ (RSLast /\ ~(op = "RT" /\ link))
  /\ op \notin {"RT", "RS", "ST"} => toRabbit' = toRabbit
  /\ (Inited' <=> Inited) /\ (Bound' <=> Bound) /\ Resource' = Resource
  /\ UNCHANGED <<sess, link, toServer, rabbit, wanted, scenario>>

\* and after a step of a thread.
LEMMA StepSends ==
  ASSUME HoldInv, NEW t, NEW op \in Taken, Effect(t, op)
  PROVE  Sends(op)
<1>1. toRabbit \in Seq({"RT", "RS", "ST"})
  BY DEF HoldInv, Types
<1>2. CASE op \in {"RT", "RS", "ST"} /\ link
  <2>1. toRabbit' = Append(toRabbit, op)
    BY <1>2 DEF Effect
  <2> QED
    BY <1>1, <1>2, <2>1, Sent DEF Sends, Effect, Inited, Bound, Resource
<1>3. CASE ~(op \in {"RT", "RS", "ST"} /\ link)
  <2>1. toRabbit' = toRabbit
    BY <1>3 DEF Effect
  <2>2. /\ ST' = ST /\ RT' = RT /\ RS' = RS /\ OneST' = OneST /\ RSLast' = RSLast
    BY <2>1 DEF ST, RT, RS, OneST, RSLast
  <2> QED
    BY <1>3, <2>1, <2>2 DEF Sends, Effect, Inited, Bound, Resource
<1> QED
  BY <1>2, <1>3

\* Whose turn it is, and what is under way, after a step.
LEMMA Turns ==
  ASSUME HoldInv, NEW t \in Threads, NEW op \in Taken, NEW more, Goes(t, op, more), Effect(t, op)
  PROVE  /\ turn \in {Nobody, t} /\ Nobody # Api
         /\ ~scenario.preempt /\ op \notin {"RT", "RS", "ST", "wait"} /\ At(t)' # "done" => turn' = t
         /\ toRabbit' = IF op \in {"RT", "RS", "ST"} /\ link THEN Append(toRabbit, op) ELSE toRabbit
         /\ scenario' = scenario
<1>1. sess' = sess /\ scenario' = scenario
  BY DEF Effect
<1>2. op \in SwitchPoints => op \in {"RT", "RS", "ST", "wait"}
  BY DEF SwitchPoints, Sleeps, Taken
<1>3. At(t)' # "done" => ctl'[t] # <<>>
  BY <1>1, GoesRest DEF At, First
<1>4. ctl'[t] = more \o Tail(ctl[t])
  BY <1>1, GoesRest
<1> QED
  BY <1>1, <1>2, <1>3, <1>4 DEF Goes, Effect, Nobody, Api, T

\* A request for a sound is at one of the steps to it,
LEMMA PlayMeans ==
  ASSUME Rests, ToPlay
  PROVE  ApiAt \in {"free", "RT", "unstream", "owe", "ack", "ST"}
<1>1. Rest(Api) = ctl[Api] /\ ctl[Api] \in ApiRests
  BY Names DEF Rest, Rests
<1>2. \A q \in ApiRests : End(q) = "ST" => First(q) \in {"free", "RT", "unstream", "owe", "ack", "ST"}
  BY DEF ApiRests, Listens, End, First
<1> QED
  BY <1>1, <1>2 DEF ToPlay, ApiAt, At
-----------------------------------------------------------------------------
\* A thread's step keeps the setting, and the course, part by part.
LEMMA SettingStep ==
  ASSUME HoldInv, Setting, NEW t, NEW op, Effect(t, op)
  PROVE  Setting'
BY DEF Setting, Effect

\* and a microphone turned off is still to be stopped.
LEMMA TurningOff == TurnedOff => ApiAt = "RT"
BY DEF TurnedOff, ApiAt, At, First

\* The steps of the session thread keep all of it,
LEMMA SessionSteps ==
  ASSUME HoldInv, PatientInv, NEW op \in Taken, NEW more, Goes(Session, op, more),
         Adds(op, more), Effect(Session, op)
  PROVE  PatientInv' /\ (Wanted => Wanted') /\ (Silence => Silence')
<1>1. Rests /\ Setting /\ Before /\ Held /\ Paced /\ Sounds /\ Stopped /\ Owing /\ Believed
  BY DEF PatientInv, Course
<1>2. /\ SessionAt = op /\ op # "done" /\ OthersStay(Session) /\ Sends(op) /\ Wakes(op)
      /\ op = "readHold" => copy'[Session] = WAKE.hold
      /\ op = "incHold" => WAKE'.hold = copy[Session] + 1
      /\ op # "readHold" => copy'[Session] = copy[Session]
  <2>1. sess' = sess /\ Session \in Threads /\ copy \in [Threads -> Nat]
    BY Names DEF Effect, HoldInv, Types, TypeOK
  <2>2. SessionAt = op
    BY <2>1, GoesRest DEF SessionAt
  <2>3. OthersStay(Session) /\ Sends(op) /\ Wakes(op)
    BY <1>1, <2>1, Stays, StepSends DEF Effect
  <2> QED
    BY <2>1, <2>2, <2>3 DEF Effect, Taken
<1>3. Resource = "idle" /\ Bound
  BY <1>1, <1>2 DEF Paced
<1>4. ctl'[Session] \in SessionRests /\ SessionMove(op)
  BY <1>1, <1>3, SessionMoves DEF Effect
<1>5. Rests' /\ Setting'
  <2>1. Session \in Threads
    BY Names
  <2>2. Rests'
    BY <1>1, <1>4, <2>1, Names, RestsGo
  <2> QED
    BY <1>1, <2>2, SettingStep
<1>6. /\ ApiAt' = ApiAt /\ (ToPlay' <=> ToPlay) /\ (TurnedOff' <=> TurnedOff)
      /\ WakeAt' = WakeAt /\ ClearAt' = ClearAt /\ LaterAt' = LaterAt
      /\ GreetAt' = GreetAt /\ (ToOwe' <=> ToOwe) /\ GreetCopy' = GreetCopy
  BY <1>2, Names DEF OthersStay
<1>7. Before'
  BY <1>1, <1>2, <1>3, <1>4, <1>6 DEF Before, Held, Sends, SessionMove, Wakes, Over
<1>8. Held'
  BY <1>1, <1>2, <1>3, <1>4, <1>6 DEF Held, Sends, SessionMove, Wakes, Over
<1>9. Paced'
  BY <1>1, <1>2, <1>3, <1>4, <1>6 DEF Paced, Sends, SessionMove, Wakes, Over, Quiet, ToST
<1>10. Sounds'
  BY <1>1, <1>2, <1>3, <1>4, <1>6 DEF Sounds, Paced, Before, Sends, SessionMove, Wakes, Over, Quiet
<1>11. Stopped'
  BY <1>1, <1>2, <1>3, <1>4, <1>6 DEF Stopped, Paced, Before, Sends, SessionMove, Wakes, Over, Quiet
<1>12. Owing'
  BY <1>1, <1>2, <1>3, <1>4, <1>6 DEF Owing, Held, Paced, Before, Stopped, Sends, SessionMove, Wakes, Over, Quiet, ToST
<1>13. Believed'
  BY <1>1, <1>2, <1>3, <1>4, <1>6 DEF Believed, Held, Paced, Before, Stopped, Owing, Sends, SessionMove, Wakes, Over, Quiet
<1>14. Wanted => Wanted'
  BY <1>1, <1>2, <1>3, <1>4, <1>6 DEF Wanted, Stopped, Paced, Before, Sends, SessionMove, Wakes, Over
<1>15. /\ turn \in {Nobody, Session} /\ Nobody # Api
       /\ toRabbit' = IF op \in {"RT", "RS", "ST"} /\ link THEN Append(toRabbit, op) ELSE toRabbit
  <2>1. Session \in Threads
    BY Names
  <2> QED
    BY <2>1, Turns DEF ApiAt
<1>16. /\ Append(<<>>, "ST") = <<"ST">> /\ Append(<<>>, "RT") = <<"RT">>
       /\ Append(<<"RT">>, "ST") = <<"RT", "ST">> /\ (ToPlay => ApiAt # "done")
  BY <1>1, AppendPair, PlayMeans
<1>17. Silence => Silence'
  BY <1>1, <1>2, <1>3, <1>4, <1>6, <1>15, <1>16, Names DEF Silence, HasTurn, ApiSounds, GreetSounds, OnTheWay, Playing, Apart, RTOnly, Hearing, Paced, Before, Held, Quiet, ToST, Sends, SessionMove, Wakes
<1> QED
  BY <1>5, <1>7, <1>8, <1>9, <1>10, <1>11, <1>12, <1>13, <1>14, <1>17 DEF PatientInv, Course

\* When seconds have passed, only timers have anything left to do.
LEMMA SecondsIdle ==
  ASSUME HoldInv, Rests, SecondsPass
  PROVE  /\ SessionAt = "done" /\ ApiAt = "done" /\ WakeAt = "done"
         /\ ClearAt \in {"done", "wait"} /\ GreetAt \in {"done", "wait"} /\ LaterAt \in {"done", "wait"}
<1>1. /\ \A q \in SessionRests \cup ApiRests \cup WakeRests : q # <<>> => q[1] \notin Sleeps
      /\ \A q \in ClearRests \cup LaterRests \cup GreetRests : q # <<>> /\ q[1] \in Sleeps => q[1] = "wait"
  <2>1. \A q \in SessionRests : q # <<>> => q[1] \notin Sleeps
    BY DEF SessionRests, Listens, Sleeps
  <2>2. \A q \in ApiRests \cup WakeRests : q # <<>> => q[1] \notin Sleeps
    BY DEF ApiRests, WakeRests, Listens, Sleeps
  <2>3. \A q \in ClearRests \cup LaterRests : q # <<>> /\ q[1] \in Sleeps => q[1] = "wait"
    BY DEF ClearRests, LaterRests, Listens, Sleeps
  <2>4. \A q \in GreetRests : q # <<>> /\ q[1] \in Sleeps => q[1] = "wait"
    BY DEF GreetRests, Sleeps
  <2> QED
    BY <2>1, <2>2, <2>3, <2>4
<1>2. \A t \in Threads : ctl[t] # <<>> => ctl[t][1] \in Sleeps
  BY DEF SecondsPass, HoldInv, Types
<1>3. /\ Session \in Threads /\ Api \in Threads /\ Wake \in Threads
      /\ \A s \in Sess : /\ <<"clear", s>> \in Threads /\ <<"jingle", s>> \in Threads
                         /\ <<"listen", s>> \in Threads
  BY Names
<1>4. /\ SessionAt = "done" /\ ApiAt = "done" /\ WakeAt = "done"
  BY <1>1, <1>2, <1>3 DEF Rests, SessionAt, ApiAt, WakeAt, At, Rest, First
<1>5. CASE sess \in Sess
  <2>1. /\ ctl[<<"clear", sess>>] \in ClearRests /\ ctl[<<"jingle", sess>>] \in GreetRests
        /\ ctl[<<"listen", sess>>] \in LaterRests
    BY <1>5 DEF Rests
  <2> QED
    BY <1>1, <1>2, <1>3, <1>4, <1>5, <2>1 DEF ClearAt, GreetAt, LaterAt, At, Rest, First
<1>6. CASE sess \notin Sess
  <2>1. <<"clear", sess>> \notin Threads /\ <<"jingle", sess>> \notin Threads /\ <<"listen", sess>> \notin Threads
    BY <1>6 DEF Threads, Workers, Timers
  <2> QED
    BY <1>4, <2>1 DEF ClearAt, GreetAt, LaterAt, At, Rest, First
<1> QED
  BY <1>5, <1>6

\* so do those of a request,
LEMMA ApiSteps ==
  ASSUME HoldInv, PatientInv, NEW op \in Taken, NEW more, Goes(Api, op, more),
         Adds(op, more), Effect(Api, op)
  PROVE  PatientInv' /\ (Wanted => Wanted') /\ (Silence => Silence')
<1>1. Rests /\ Setting /\ Before /\ Held /\ Paced /\ Sounds /\ Stopped /\ Owing /\ Believed
  BY DEF PatientInv, Course
<1>2. /\ ApiAt = op /\ op # "done" /\ OthersStay(Api) /\ Sends(op) /\ Wakes(op)
      /\ copy'[Session] = copy[Session]
  <2>1. sess' = sess /\ Api \in Threads /\ copy \in [Threads -> Nat] /\ Session \in Threads
    BY Names DEF Effect, HoldInv, Types, TypeOK
  <2>2. ApiAt = op
    BY <2>1, GoesRest DEF ApiAt
  <2>3. OthersStay(Api) /\ Sends(op) /\ Wakes(op)
    BY <1>1, <2>1, Stays, StepSends DEF Effect
  <2>4. copy'[Session] = copy[Session] /\ op # "done"
    BY <2>1, Names DEF Effect, Taken
  <2> QED
    BY <2>1, <2>2, <2>3, <2>4
<1>3. Inited /\ Quiet /\ Resource = "idle"
  BY <1>1, <1>2 DEF Paced, Before
<1>4. ctl'[Api] \in ApiRests /\ ApiMove(op)
  BY <1>1, <1>3, ApiMoves DEF Effect
<1>5. Rests' /\ Setting'
  <2>1. Api \in Threads
    BY Names
  <2>2. Rests'
    BY <1>1, <1>4, <2>1, Names, RestsGo
  <2> QED
    BY <1>1, <2>2, SettingStep
<1>6. /\ SessionAt' = SessionAt /\ (ToInit' <=> ToInit)
      /\ WakeAt' = WakeAt
      /\ ClearAt' = ClearAt
      /\ GreetAt' = GreetAt /\ (ToOwe' <=> ToOwe) /\ GreetCopy' = GreetCopy
      /\ LaterAt' = LaterAt
  BY <1>2, Names DEF OthersStay
<1>7. Before'
  BY <1>1, <1>2, <1>3, <1>4, <1>6, NothingSent DEF Before, Held, Sounds, Sends, ApiMove, Wakes
<1>8. Held'
  BY <1>1, <1>2, <1>3, <1>4, <1>6, NothingSent DEF Held, Paced, Before, Sends, ApiMove, Wakes
<1>9. Paced'
  BY <1>1, <1>2, <1>3, <1>4, <1>6, NothingSent DEF Paced, Quiet, ToST, Held, Before, Sends, ApiMove, Wakes
<1>10. Sounds'
  BY <1>1, <1>2, <1>3, <1>4, <1>6, NothingSent DEF Sounds, Paced, Before, Quiet, ToST, Held, Sends, ApiMove, Wakes
<1>11. Stopped'
  BY <1>1, <1>2, <1>3, <1>4, <1>6, NothingSent DEF Stopped, Paced, Before, Quiet, Held, Sends, ApiMove, Wakes
<1>12. Owing'
  BY <1>1, <1>2, <1>3, <1>4, <1>6, NothingSent DEF Owing, Held, Paced, Before, Stopped, Sounds, Quiet, ToST, Sends, ApiMove, Wakes
<1>13. Believed'
  BY <1>1, <1>2, <1>3, <1>4, <1>6, NothingSent DEF Believed, Held, Paced, Before, Stopped, Owing, Quiet, ToST, Sends, ApiMove, Wakes
<1>14. Wanted => Wanted'
  BY <1>1, <1>2, <1>3, <1>4, <1>6, NothingSent, TurningOff DEF Wanted, Stopped, Paced, Before, Sends, ApiMove, Wakes
<1>15. /\ turn \in {Nobody, Api} /\ Nobody # Api
       /\ ~scenario.preempt /\ op \notin {"RT", "RS", "ST", "wait"} /\ ApiAt' # "done" => turn' = Api
       /\ toRabbit' = IF op \in {"RT", "RS", "ST"} /\ link THEN Append(toRabbit, op) ELSE toRabbit
  <2>1. Api \in Threads
    BY Names
  <2> QED
    BY <2>1, Turns DEF ApiAt
<1>16. /\ Append(<<>>, "ST") = <<"ST">> /\ Append(<<>>, "RT") = <<"RT">>
       /\ Append(<<"RT">>, "ST") = <<"RT", "ST">> /\ (ToPlay => ApiAt # "done")
  BY <1>1, AppendPair, PlayMeans
<1>17. Silence => Silence'
  <2> SUFFICES ASSUME Silence PROVE Silence'
    OBVIOUS
  <2>1. Apart /\ Apart' /\ ~rabbit'.refused
    BY <1>2 DEF Silence, Apart, Sends
  <2>2. HasTurn'
    <3>1. ApiAt' \in {"owe", "ack", "ST"} => op \in {"free", "unstream", "owe", "ack"}
      BY <1>4 DEF ApiMove
    <3>2. ApiAt' \in {"owe", "ack", "ST"} => turn' = Api
      BY <1>15, <2>1, <3>1 DEF Apart
    <3> QED
      BY <3>2 DEF HasTurn
  <2>3. ApiSounds'
    <3> SUFFICES ASSUME ToPlay'
                 PROVE  ApiSounds'
      BY DEF ApiSounds
    <3>1. /\ ToPlay /\ WakeAt = "done" /\ ~rabbit.arp /\ RTOnly
          /\ ApiAt \in {"free", "RT"} => toRabbit = <<>>
          /\ ApiAt \in {"RT", "unstream"} => WAKE.streaming
          /\ Hearing => ApiAt = "RT" \/ (ApiAt = "free" /\ WAKE.streaming)
      BY <1>4 DEF Silence, ApiSounds, ApiMove
    <3>2. CASE op = "free"
      BY <1>2, <1>4, <1>6, <1>15, <3>1, <3>2 DEF ApiSounds, RTOnly, Hearing, Sends, ApiMove, Wakes
    <3>3. CASE op = "RT"
      BY <1>2, <1>4, <1>6, <1>15, <1>16, <3>1, <3>3 DEF ApiSounds, RTOnly, Hearing, Sends, ApiMove, Wakes
    <3>4. CASE op \in {"unstream", "owe", "ack"}
      BY <1>2, <1>4, <1>6, <1>15, <3>1, <3>4 DEF ApiSounds, RTOnly, Hearing, Sends, ApiMove, Wakes
    <3> QED
      BY <1>4, <3>1, <3>2, <3>3, <3>4 DEF ApiMove
  <2>4. GreetSounds'
    BY <1>1, <1>2, <1>6 DEF Paced, GreetSounds, ToST
  <2>5. OnTheWay'
    <3>1. <<"RT", "ST">> # <<"ST">> /\ <<"ST">> # <<>> /\ ~ST
      BY <1>3 DEF Quiet
    <3>2. op # "ST" => ~ST'
      BY <1>2, <3>1 DEF Sends
    <3>3. CASE op = "ST"
      <4>1. ToPlay /\ WakeAt = "done" /\ ~rabbit.arp /\ RTOnly /\ ~Hearing
        BY <1>2, <1>4, <3>3 DEF Silence, ApiSounds, ApiMove
      <4>2. link => toRabbit' \in {<<"ST">>, <<"RT", "ST">>} /\ (toRabbit' = <<"ST">> => toRabbit = <<>>)
        BY <1>15, <1>16, <3>1, <3>3, <4>1 DEF RTOnly
      <4> QED
        BY <1>2, <1>6, <3>1, <3>3, <4>1, <4>2 DEF OnTheWay, Hearing, Sends
    <3> QED
      BY <3>2, <3>3 DEF OnTheWay
  <2>6. Playing'
    BY <1>2, <1>3 DEF Playing, Quiet, Sends
  <2> QED
    BY <2>1, <2>2, <2>3, <2>4, <2>5, <2>6 DEF Silence
<1> QED
  BY <1>5, <1>7, <1>8, <1>9, <1>10, <1>11, <1>12, <1>13, <1>14, <1>17 DEF PatientInv, Course

\* of the wake loop,
LEMMA WakeSteps ==
  ASSUME HoldInv, PatientInv, NEW op \in Taken, NEW more, Goes(Wake, op, more),
         Adds(op, more), Effect(Wake, op)
  PROVE  PatientInv' /\ (Wanted => Wanted') /\ (Silence => Silence')
<1>1. Rests /\ Setting /\ Before /\ Held /\ Paced /\ Sounds /\ Stopped /\ Owing /\ Believed
  BY DEF PatientInv, Course
<1>2. /\ WakeAt = op /\ op # "done" /\ OthersStay(Wake) /\ Sends(op) /\ Wakes(op)
      /\ copy'[Session] = copy[Session]
  <2>1. sess' = sess /\ Wake \in Threads /\ copy \in [Threads -> Nat] /\ Session \in Threads
    BY Names DEF Effect, HoldInv, Types, TypeOK
  <2>2. WakeAt = op
    BY <2>1, GoesRest DEF WakeAt
  <2>3. OthersStay(Wake) /\ Sends(op) /\ Wakes(op)
    BY <1>1, <2>1, Stays, StepSends DEF Effect
  <2>4. copy'[Session] = copy[Session] /\ op # "done"
    BY <2>1, Names DEF Effect, Taken
  <2> QED
    BY <2>1, <2>2, <2>3, <2>4
<1>3. op = "owe" => Inited \/ ~link
  BY <1>1, <1>2 DEF Before, Sounds
<1>4. ctl'[Wake] \in WakeRests /\ WakeMove(op)
  BY <1>1, <1>3, WakeMoves DEF Effect
<1>5. Rests' /\ Setting'
  <2>1. Wake \in Threads
    BY Names
  <2>2. Rests'
    BY <1>1, <1>4, <2>1, Names, RestsGo
  <2> QED
    BY <1>1, <2>2, SettingStep
<1>6. /\ SessionAt' = SessionAt /\ (ToInit' <=> ToInit)
      /\ ApiAt' = ApiAt /\ (ToPlay' <=> ToPlay) /\ (TurnedOff' <=> TurnedOff)
      /\ ClearAt' = ClearAt
      /\ GreetAt' = GreetAt /\ (ToOwe' <=> ToOwe) /\ GreetCopy' = GreetCopy
      /\ LaterAt' = LaterAt
  BY <1>2, Names DEF OthersStay
<1>7. Before'
  BY <1>1, <1>2, <1>3, <1>4, <1>6 DEF Before, Held, Sounds, Sends, WakeMove, Wakes
<1>8. Held'
  BY <1>1, <1>2, <1>3, <1>4, <1>6 DEF Held, Paced, Before, Sends, WakeMove, Wakes
<1>9. Paced'
  BY <1>1, <1>2, <1>3, <1>4, <1>6 DEF Paced, Quiet, ToST, Held, Before, Sends, WakeMove, Wakes
<1>10. Sounds'
  BY <1>1, <1>2, <1>3, <1>4, <1>6 DEF Sounds, Paced, Before, Quiet, ToST, Held, Sends, WakeMove, Wakes
<1>11. Stopped'
  BY <1>1, <1>2, <1>3, <1>4, <1>6 DEF Stopped, Paced, Before, Quiet, Held, Sends, WakeMove, Wakes
<1>12. Owing'
  BY <1>1, <1>2, <1>3, <1>4, <1>6 DEF Owing, Held, Paced, Before, Stopped, Sounds, Quiet, ToST, Sends, WakeMove, Wakes
<1>13. Believed'
  BY <1>1, <1>2, <1>3, <1>4, <1>6 DEF Believed, Held, Paced, Before, Stopped, Owing, Quiet, ToST, Sends, WakeMove, Wakes
<1>14. Wanted => Wanted'
  BY <1>1, <1>2, <1>3, <1>4, <1>6 DEF Wanted, Stopped, Paced, Before, Sends, WakeMove, Wakes
<1>15. /\ turn \in {Nobody, Wake} /\ Nobody # Api
       /\ toRabbit' = IF op \in {"RT", "RS", "ST"} /\ link THEN Append(toRabbit, op) ELSE toRabbit
  <2>1. Wake \in Threads
    BY Names
  <2> QED
    BY <2>1, Turns DEF ApiAt
<1>16. /\ Append(<<>>, "ST") = <<"ST">> /\ Append(<<>>, "RT") = <<"RT">>
       /\ Append(<<"RT">>, "ST") = <<"RT", "ST">> /\ (ToPlay => ApiAt # "done")
  BY <1>1, AppendPair, PlayMeans
<1>17. Silence => Silence'
  BY <1>1, <1>2, <1>3, <1>4, <1>6, <1>15, <1>16, Names DEF Silence, HasTurn, ApiSounds, GreetSounds, OnTheWay, Playing, Apart, RTOnly, Hearing, Paced, Before, Held, Quiet, ToST, Sends, WakeMove, Wakes
<1> QED
  BY <1>5, <1>7, <1>8, <1>9, <1>10, <1>11, <1>12, <1>13, <1>14, <1>17 DEF PatientInv, Course

\* of the timer that stops an old capture,
LEMMA ClearSteps ==
  ASSUME HoldInv, PatientInv, NEW op \in Taken, NEW more, Goes(<<"clear", sess>>, op, more),
         Adds(op, more), Effect(<<"clear", sess>>, op), sess \in Sess
  PROVE  PatientInv' /\ (Wanted => Wanted') /\ (Silence => Silence')
<1>1. Rests /\ Setting /\ Before /\ Held /\ Paced /\ Sounds /\ Stopped /\ Owing /\ Believed
  BY DEF PatientInv, Course
<1>2. /\ ClearAt = op /\ op # "done" /\ OthersStay(<<"clear", sess>>) /\ Sends(op) /\ Wakes(op)
      /\ copy'[Session] = copy[Session]
      /\ op = "wait" => SessionAt = "done" /\ WakeAt = "done" /\ ApiAt = "done"
  <2>1. sess' = sess /\ <<"clear", sess>> \in Threads /\ copy \in [Threads -> Nat] /\ Session \in Threads
    BY Names DEF Effect, HoldInv, Types, TypeOK
  <2>2. ClearAt = op
    BY <2>1, GoesRest DEF ClearAt
  <2>3. OthersStay(<<"clear", sess>>) /\ Sends(op) /\ Wakes(op)
    BY <1>1, <2>1, Stays, StepSends DEF Effect
  <2>4. op = "wait" => SessionAt = "done" /\ WakeAt = "done" /\ ApiAt = "done"
    BY <1>1, SecondsIdle DEF Effect
  <2>5. copy'[Session] = copy[Session] /\ op # "done"
    BY <2>1, Names DEF Effect, Taken
  <2> QED
    BY <2>1, <2>2, <2>3, <2>4, <2>5
<1>3. Inited /\ Quiet /\ Resource = "idle"
  BY <1>1, <1>2 DEF Paced, Before
<1>4. ctl'[<<"clear", sess>>] \in ClearRests /\ ClearMove(op)
  BY <1>1, <1>3, ClearMoves DEF Effect
<1>5. Rests' /\ Setting'
  <2>1. <<"clear", sess>> \in Threads
    BY Names
  <2>2. Rests'
    BY <1>1, <1>4, <2>1, Names, RestsGo
  <2> QED
    BY <1>1, <2>2, SettingStep
<1>6. /\ SessionAt' = SessionAt /\ (ToInit' <=> ToInit)
      /\ ApiAt' = ApiAt /\ (ToPlay' <=> ToPlay) /\ (TurnedOff' <=> TurnedOff)
      /\ WakeAt' = WakeAt
      /\ GreetAt' = GreetAt /\ (ToOwe' <=> ToOwe) /\ GreetCopy' = GreetCopy
      /\ LaterAt' = LaterAt
  BY <1>2, Names DEF OthersStay
<1>7. Before'
  BY <1>1, <1>2, <1>3, <1>4, <1>6 DEF Before, Held, Sounds, Sends, ClearMove, Wakes
<1>8. Held'
  BY <1>1, <1>2, <1>3, <1>4, <1>6 DEF Held, Paced, Before, Sends, ClearMove, Wakes
<1>9. Paced'
  BY <1>1, <1>2, <1>3, <1>4, <1>6 DEF Paced, Quiet, ToST, Held, Before, Sends, ClearMove, Wakes
<1>10. Sounds'
  BY <1>1, <1>2, <1>3, <1>4, <1>6 DEF Sounds, Paced, Before, Quiet, ToST, Held, Sends, ClearMove, Wakes
<1>11. Stopped'
  BY <1>1, <1>2, <1>3, <1>4, <1>6 DEF Stopped, Paced, Before, Quiet, Held, Sends, ClearMove, Wakes
<1>12. Owing'
  BY <1>1, <1>2, <1>3, <1>4, <1>6 DEF Owing, Held, Paced, Before, Stopped, Sounds, Quiet, ToST, Sends, ClearMove, Wakes
<1>13. Believed'
  BY <1>1, <1>2, <1>3, <1>4, <1>6 DEF Believed, Held, Paced, Before, Stopped, Owing, Quiet, ToST, Sends, ClearMove, Wakes
<1>14. Wanted => Wanted'
  BY <1>1, <1>2, <1>3, <1>4, <1>6 DEF Wanted, Stopped, Paced, Before, Sends, ClearMove, Wakes
<1>15. /\ turn \in {Nobody, <<"clear", sess>>} /\ Nobody # Api
       /\ toRabbit' = IF op \in {"RT", "RS", "ST"} /\ link THEN Append(toRabbit, op) ELSE toRabbit
  <2>1. <<"clear", sess>> \in Threads
    BY Names
  <2> QED
    BY <2>1, Turns DEF ApiAt
<1>16. /\ Append(<<>>, "ST") = <<"ST">> /\ Append(<<>>, "RT") = <<"RT">>
       /\ op = "wait" /\ scenario.prompt => toRabbit = <<>> /\ ~rabbit.arp
  BY DEF Effect, SecondsPass
<1>17. Silence => Silence'
  <2> SUFFICES ASSUME Silence PROVE Silence'
    OBVIOUS
  <2>1. Apart /\ Apart' /\ ~rabbit'.refused
    BY <1>2 DEF Silence, Apart, Sends
  <2>2. HasTurn' /\ ApiSounds'
    <3>1. ApiAt = "done" /\ ~ToPlay
      BY <1>1, <1>2, PlayMeans DEF Paced
    <3> QED
      BY <1>6, <3>1 DEF HasTurn, ApiSounds
  <2>3. GreetSounds'
    <3> SUFFICES ASSUME GreetAt' \in ToST
                 PROVE  GreetSounds'
      BY DEF GreetSounds
    <3>1. GreetAt = "wait" /\ scenario.prompt
      BY <1>1, <1>2, <1>6, <2>1 DEF Paced, Held, ToST, Apart
    <3>2. CASE op = "wait"
      BY <1>2, <1>4, <1>6, <1>15, <1>16, <3>1, <3>2 DEF GreetSounds, RTOnly, Hearing, ClearMove, Sends
    <3>3. CASE op = "RT"
      BY <1>2, <1>4, <1>6, <1>15, <1>16, <3>1, <3>3
      DEF Silence, GreetSounds, ToST, RTOnly, Hearing, ClearMove, Sends
    <3>4. CASE op = "unstream"
      BY <1>2, <1>4, <1>6, <1>15, <3>1, <3>4
      DEF Silence, GreetSounds, ToST, RTOnly, Hearing, ClearMove, Sends, Wakes
    <3> QED
      BY <1>4, <3>2, <3>3, <3>4 DEF ClearMove
  <2>4. OnTheWay' /\ Playing'
    BY <1>2, <1>3, <1>4 DEF OnTheWay, Playing, Quiet, Sends, ClearMove
  <2> QED
    BY <2>1, <2>2, <2>3, <2>4 DEF Silence
<1> QED
  BY <1>5, <1>7, <1>8, <1>9, <1>10, <1>11, <1>12, <1>13, <1>14, <1>17 DEF PatientInv, Course

\* of the timer that starts to listen,
LEMMA LaterSteps ==
  ASSUME HoldInv, PatientInv, NEW op \in Taken, NEW more, Goes(<<"listen", sess>>, op, more),
         Adds(op, more), Effect(<<"listen", sess>>, op), sess \in Sess
  PROVE  PatientInv' /\ (Wanted => Wanted') /\ (Silence => Silence')
<1>1. Rests /\ Setting /\ Before /\ Held /\ Paced /\ Sounds /\ Stopped /\ Owing /\ Believed
  BY DEF PatientInv, Course
<1>2. /\ LaterAt = op /\ op # "done" /\ OthersStay(<<"listen", sess>>) /\ Sends(op) /\ Wakes(op)
      /\ copy'[Session] = copy[Session]
      /\ op = "wait" => SessionAt = "done" /\ WakeAt = "done" /\ ApiAt = "done" /\ ClearAt = "done"
  <2>1. sess' = sess /\ <<"listen", sess>> \in Threads /\ copy \in [Threads -> Nat] /\ Session \in Threads
    BY Names DEF Effect, HoldInv, Types, TypeOK
  <2>2. LaterAt = op
    BY <2>1, GoesRest DEF LaterAt
  <2>3. OthersStay(<<"listen", sess>>) /\ Sends(op) /\ Wakes(op)
    BY <1>1, <2>1, Stays, StepSends DEF Effect
  <2>4. op = "wait" => SessionAt = "done" /\ WakeAt = "done" /\ ApiAt = "done"
    BY <1>1, SecondsIdle DEF Effect
  <2>5. op = "wait" => ClearAt = "done"
    BY <2>1, Names DEF Effect, ClearAt, At, Rest, First
  <2>6. copy'[Session] = copy[Session] /\ op # "done"
    BY <2>1, Names DEF Effect, Taken
  <2> QED
    BY <2>1, <2>2, <2>3, <2>4, <2>5, <2>6
<1>3. Inited /\ Quiet /\ Resource = "idle" /\ ApiAt = "done" /\ SessionAt \in {"done", "readHold", "incHold"}
  BY <1>1, <1>2 DEF Paced, Before
<1>4. ctl'[<<"listen", sess>>] \in LaterRests /\ LaterMove(op)
  BY <1>1, <1>3, LaterMoves DEF Effect
<1>5. Rests' /\ Setting'
  <2>1. <<"listen", sess>> \in Threads
    BY Names
  <2>2. Rests'
    BY <1>1, <1>4, <2>1, Names, RestsGo
  <2> QED
    BY <1>1, <2>2, SettingStep
<1>6. /\ SessionAt' = SessionAt /\ (ToInit' <=> ToInit)
      /\ ApiAt' = ApiAt /\ (ToPlay' <=> ToPlay) /\ (TurnedOff' <=> TurnedOff)
      /\ WakeAt' = WakeAt
      /\ ClearAt' = ClearAt
      /\ GreetAt' = GreetAt /\ (ToOwe' <=> ToOwe) /\ GreetCopy' = GreetCopy
  BY <1>2, Names DEF OthersStay
<1>7. Before'
  BY <1>1, <1>2, <1>3, <1>4, <1>6, TurningOff DEF Before, Held, Sounds, Sends, LaterMove, Wakes
<1>8. Held'
  BY <1>1, <1>2, <1>3, <1>4, <1>6, TurningOff DEF Held, Paced, Before, Sends, LaterMove, Wakes
<1>9. Paced'
  BY <1>1, <1>2, <1>3, <1>4, <1>6, TurningOff DEF Paced, Quiet, ToST, Held, Before, Sends, LaterMove, Wakes
<1>10. Sounds'
  BY <1>1, <1>2, <1>3, <1>4, <1>6, TurningOff DEF Sounds, Paced, Before, Quiet, ToST, Held, Sends, LaterMove, Wakes
<1>11. Stopped'
  BY <1>1, <1>2, <1>3, <1>4, <1>6, TurningOff DEF Stopped, Paced, Before, Quiet, Held, Sends, LaterMove, Wakes
<1>12. Owing'
  BY <1>1, <1>2, <1>3, <1>4, <1>6, TurningOff DEF Owing, Held, Paced, Before, Stopped, Sounds, Quiet, ToST, Sends, LaterMove, Wakes
<1>13. Believed'
  BY <1>1, <1>2, <1>3, <1>4, <1>6, TurningOff DEF Believed, Held, Paced, Before, Stopped, Owing, Quiet, ToST, Sends, LaterMove, Wakes
<1>14. Wanted => Wanted'
  BY <1>1, <1>2, <1>3, <1>4, <1>6, TurningOff DEF Wanted, Stopped, Paced, Before, Sends, LaterMove, Wakes
<1>15. /\ turn \in {Nobody, <<"listen", sess>>} /\ Nobody # Api
       /\ toRabbit' = IF op \in {"RT", "RS", "ST"} /\ link THEN Append(toRabbit, op) ELSE toRabbit
  <2>1. <<"listen", sess>> \in Threads
    BY Names
  <2> QED
    BY <2>1, Turns DEF ApiAt
<1>16. /\ Append(<<>>, "ST") = <<"ST">> /\ Append(<<>>, "RT") = <<"RT">>
       /\ Append(<<"RT">>, "ST") = <<"RT", "ST">> /\ (ToPlay => ApiAt # "done")
  BY <1>1, AppendPair, PlayMeans
<1>17. Silence => Silence'
  BY <1>1, <1>2, <1>3, <1>4, <1>6, <1>15, <1>16, Names DEF Silence, HasTurn, ApiSounds, GreetSounds, OnTheWay, Playing, Apart, RTOnly, Hearing, Paced, Before, Held, Quiet, ToST, Sends, LaterMove, Wakes
<1> QED
  BY <1>5, <1>7, <1>8, <1>9, <1>10, <1>11, <1>12, <1>13, <1>14, <1>17 DEF PatientInv, Course

\* and of the jingle.
LEMMA GreetSteps ==
  ASSUME HoldInv, PatientInv, NEW op \in Taken, NEW more, Goes(<<"jingle", sess>>, op, more),
         Adds(op, more), Effect(<<"jingle", sess>>, op), sess \in Sess
  PROVE  PatientInv' /\ (Wanted => Wanted') /\ (Silence => Silence')
<1>1. Rests /\ Setting /\ Before /\ Held /\ Paced /\ Sounds /\ Stopped /\ Owing /\ Believed
  BY DEF PatientInv, Course
<1>2. /\ GreetAt = op /\ op # "done" /\ OthersStay(<<"jingle", sess>>) /\ Sends(op) /\ Wakes(op)
      /\ op = "readHold" => GreetCopy' = WAKE.hold
      /\ op = "decHold" => WAKE'.hold = IF GreetCopy = 0 THEN 0 ELSE GreetCopy - 1
      /\ copy'[Session] = copy[Session]
      /\ op = "wait" => SessionAt = "done" /\ WakeAt = "done" /\ ApiAt = "done" /\ ClearAt = "done"
  <2>1. sess' = sess /\ <<"jingle", sess>> \in Threads /\ copy \in [Threads -> Nat] /\ Session \in Threads
    BY Names DEF Effect, HoldInv, Types, TypeOK
  <2>2. GreetAt = op
    BY <2>1, GoesRest DEF GreetAt
  <2>3. OthersStay(<<"jingle", sess>>) /\ Sends(op) /\ Wakes(op)
    BY <1>1, <2>1, Stays, StepSends DEF Effect
  <2>4. /\ op = "readHold" => GreetCopy' = WAKE.hold
        /\ op = "decHold" => WAKE'.hold = IF GreetCopy = 0 THEN 0 ELSE GreetCopy - 1
    BY <2>1 DEF Effect, GreetCopy
  <2>5. op = "wait" => SessionAt = "done" /\ WakeAt = "done" /\ ApiAt = "done"
    BY <1>1, SecondsIdle DEF Effect
  <2>6. op = "wait" => ClearAt = "done"
    BY <2>1, Names DEF Effect, ClearAt, At, Rest, First
  <2>7. copy'[Session] = copy[Session] /\ op # "done"
    BY <2>1, Names DEF Effect, Taken
  <2> QED
    BY <2>1, <2>2, <2>3, <2>4, <2>5, <2>6, <2>7
<1>3. Inited
  BY <1>1, <1>2 DEF Before
<1>4. ctl'[<<"jingle", sess>>] \in GreetRests /\ GreetMove(op)
  BY <1>1, <1>3, GreetMoves DEF Effect
<1>5. Rests' /\ Setting'
  <2>1. <<"jingle", sess>> \in Threads
    BY Names
  <2>2. Rests'
    BY <1>1, <1>4, <2>1, Names, RestsGo
  <2> QED
    BY <1>1, <2>2, SettingStep
<1>6. /\ SessionAt' = SessionAt /\ (ToInit' <=> ToInit)
      /\ ApiAt' = ApiAt /\ (ToPlay' <=> ToPlay) /\ (TurnedOff' <=> TurnedOff)
      /\ WakeAt' = WakeAt
      /\ ClearAt' = ClearAt
      /\ LaterAt' = LaterAt
  BY <1>2, Names DEF OthersStay
<1>7. Before'
  BY <1>1, <1>2, <1>3, <1>4, <1>6 DEF Before, Held, Sounds, Sends, GreetMove, Wakes
<1>8. Held'
  BY <1>1, <1>2, <1>3, <1>4, <1>6 DEF Held, Paced, Before, Sends, GreetMove, Wakes
<1>9. Paced'
  BY <1>1, <1>2, <1>3, <1>4, <1>6 DEF Paced, Quiet, ToST, Held, Before, Sends, GreetMove, Wakes
<1>10. Sounds'
  BY <1>1, <1>2, <1>3, <1>4, <1>6 DEF Sounds, Paced, Before, Quiet, ToST, Held, Sends, GreetMove, Wakes
<1>11. Stopped'
  BY <1>1, <1>2, <1>3, <1>4, <1>6 DEF Stopped, Paced, Before, Quiet, Held, Sends, GreetMove, Wakes
<1>12. Owing'
  BY <1>1, <1>2, <1>3, <1>4, <1>6 DEF Owing, Held, Paced, Before, Stopped, Sounds, Quiet, ToST, Sends, GreetMove, Wakes
<1>13. Believed'
  BY <1>1, <1>2, <1>3, <1>4, <1>6 DEF Believed, Held, Paced, Before, Stopped, Owing, Quiet, ToST, Sends, GreetMove, Wakes
<1>14. Wanted => Wanted'
  BY <1>1, <1>2, <1>3, <1>4, <1>6 DEF Wanted, Stopped, Paced, Before, Sends, GreetMove, Wakes
<1>15. /\ turn \in {Nobody, <<"jingle", sess>>} /\ Nobody # Api
       /\ toRabbit' = IF op \in {"RT", "RS", "ST"} /\ link THEN Append(toRabbit, op) ELSE toRabbit
  <2>1. <<"jingle", sess>> \in Threads
    BY Names
  <2> QED
    BY <2>1, Turns DEF ApiAt
<1>16. /\ Append(<<>>, "ST") = <<"ST">> /\ Append(<<>>, "RT") = <<"RT">>
       /\ op = "wait" /\ scenario.prompt => toRabbit = <<>> /\ ~rabbit.arp
  BY DEF Effect, SecondsPass
<1>17. Silence => Silence'
  <2> SUFFICES ASSUME Silence PROVE Silence'
    OBVIOUS
  <2>1. Apart /\ Apart' /\ ~rabbit'.refused
    BY <1>2 DEF Silence, Apart, Sends
  <2>2. HasTurn' /\ ApiSounds'
    <3>1. ApiAt = "done" /\ ~ToPlay
      BY <1>1, <1>2, PlayMeans DEF Paced
    <3> QED
      BY <1>6, <3>1 DEF HasTurn, ApiSounds
  <2>3. op \in ToST => /\ ClearAt = "done" /\ SessionAt = "done" /\ WakeAt = "done" /\ ~rabbit.arp
                       /\ toRabbit = <<>> /\ ~WAKE.streaming /\ ~Hearing
                       /\ op \notin {"RT", "unstream"}
    <3>1. ClearAt = "done" \/ op \notin ToST
      BY <1>1, <1>2 DEF Paced, ToST
    <3>2. op = "wait" => scenario.prompt
      BY <1>1, <1>2, <2>1 DEF Held, Apart
    <3> QED
      BY <1>2, <1>16, <3>1, <3>2 DEF Silence, GreetSounds
  <2>4. GreetSounds'
    <3> SUFFICES ASSUME GreetAt' \in ToST
                 PROVE  GreetSounds'
      BY DEF GreetSounds
    <3>1. op \in {"wait", "owe", "free", "ack"}
      BY <1>4, <2>3 DEF GreetMove, ToST
    <3>2. GreetAt' \notin {"RT", "unstream"}
      BY <1>4, <2>3, <3>1 DEF GreetMove, ToST
    <3> QED
      BY <1>2, <1>6, <1>15, <2>3, <3>1, <3>2 DEF GreetSounds, ToST, RTOnly, Hearing, Sends, Wakes
  <2>5. OnTheWay'
    <3>1. CASE op = "ST"
      <4>1. ~ST
        BY <1>1, <1>2, <3>1 DEF Paced, ToST, Quiet
      <4> QED
        BY <1>2, <1>6, <1>15, <1>16, <2>3, <3>1, <4>1 DEF OnTheWay, ToST, Hearing, Sends
    <3>2. CASE op \in {"readHold", "decHold"}
      BY <1>2, <1>6, <1>15, <3>2 DEF Silence, OnTheWay, Sends
    <3>3. CASE op \in ToST /\ op # "ST"
      <4>1. ~ST
        BY <1>1, <1>2, <3>3 DEF Paced, Quiet
      <4> QED
        BY <1>2, <3>3, <4>1 DEF OnTheWay, Sends
    <3> QED
      BY <1>4, <3>1, <3>2, <3>3 DEF GreetMove, ToST
  <2>6. Playing'
    <3>1. CASE op \in ToST
      <4>1. rabbit.play = "none"
        BY <1>1, <1>2, <3>1 DEF Paced, Quiet
      <4> QED
        BY <1>2, <4>1 DEF Playing, Sends
    <3>2. CASE op \in {"readHold", "decHold"}
      BY <1>2, <1>6, <1>15, <3>2 DEF Silence, Playing, Sends
    <3> QED
      BY <1>4, <3>1, <3>2 DEF GreetMove, ToST
  <2> QED
    BY <2>1, <2>2, <2>4, <2>5, <2>6 DEF Silence
<1> QED
  BY <1>5, <1>7, <1>8, <1>9, <1>10, <1>11, <1>12, <1>13, <1>14, <1>17 DEF PatientInv, Course
-----------------------------------------------------------------------------
\* The network and the rabbit, which leave the threads where they are.
ThreadsStay ==
  /\ SessionAt' = SessionAt /\ (ToInit' <=> ToInit)
  /\ ApiAt' = ApiAt /\ (ToPlay' <=> ToPlay) /\ (TurnedOff' <=> TurnedOff)
  /\ WakeAt' = WakeAt /\ ClearAt' = ClearAt /\ LaterAt' = LaterAt
  /\ GreetAt' = GreetAt /\ (ToOwe' <=> ToOwe) /\ GreetCopy' = GreetCopy
  /\ copy'[Session] = copy[Session]
  /\ UNCHANGED <<WAKE, hasListen, sess>>
  /\ (Inited' <=> Inited) /\ (Bound' <=> Bound) /\ Resource' = Resource
  /\ (LoopWouldRearm' <=> LoopWouldRearm)

\* Where no thread moves and no connection changes, threads are on their course.
LEMMA Unmoved ==
  ASSUME UNCHANGED <<WAKE, hasListen, ctl, ref, copy, sess>>,
         \A s \in Sess : /\ session'[s].resource = session[s].resource
                         /\ session'[s].bound = session[s].bound
                         /\ session'[s].inited = session[s].inited
  PROVE  ThreadsStay /\ (Rests => Rests')
<1>1. \A t : Rest(t)' = Rest(t)
  BY DEF Rest
<1>2. \A t : At(t)' = At(t)
  BY <1>1 DEF At
<1>3. /\ SessionAt' = SessionAt /\ (ToInit' <=> ToInit)
      /\ ApiAt' = ApiAt /\ (ToPlay' <=> ToPlay) /\ (TurnedOff' <=> TurnedOff)
      /\ WakeAt' = WakeAt /\ ClearAt' = ClearAt /\ LaterAt' = LaterAt
      /\ GreetAt' = GreetAt /\ (ToOwe' <=> ToOwe)
  BY <1>1, <1>2 DEF SessionAt, ToInit, ApiAt, ToPlay, TurnedOff, WakeAt, ClearAt, LaterAt,
                    GreetAt, ToOwe
<1>4. GreetCopy' = GreetCopy /\ copy'[Session] = copy[Session] /\ (LoopWouldRearm' <=> LoopWouldRearm)
  BY DEF GreetCopy, LoopWouldRearm
<1>5. (Inited' <=> Inited) /\ (Bound' <=> Bound) /\ Resource' = Resource
  BY DEF Inited, Bound, Resource
<1>6. Rests => Rests'
  BY DEF Rests
<1> QED
  BY <1>3, <1>4, <1>5, <1>6 DEF ThreadsStay

\* The rabbit moves no thread and changes nothing the server remembers.
LEMMA Remains ==
  ASSUME RabbitStep
  PROVE  /\ ThreadsStay /\ (Rests => Rests') /\ UNCHANGED <<link, scenario, session>>
BY Unmoved DEF RabbitStep, threads

\* The sound-ack timer is no part of it.
LEMMA SoundForgotten ==
  ASSUME session \in SomeSession,
         session' = session \/ session' = [session EXCEPT ![sess].soundAt = FALSE]
  PROVE  \A s \in Sess : /\ session'[s].resource = session[s].resource
                         /\ session'[s].bound = session[s].bound
                         /\ session'[s].inited = session[s].inited
<1>1. CASE session' = session
  BY <1>1
<1>2. CASE session' = [session EXCEPT ![sess].soundAt = FALSE]
  <2> SUFFICES ASSUME NEW s \in Sess
               PROVE  /\ session'[s].resource = session[s].resource
                      /\ session'[s].bound = session[s].bound
                      /\ session'[s].inited = session[s].inited
    OBVIOUS
  <2>1. CASE s = sess
    BY <1>2, <2>1 DEF SomeSession
  <2>2. CASE s # sess
    BY <1>2, <2>2 DEF SomeSession
  <2> QED
    BY <2>1, <2>2
<1> QED
  BY <1>1, <1>2

\* A connection that is lost or closed takes with it all that is under way.
LEMMA LostSteps ==
  ASSUME HoldInv, PatientInv, Drop \/ AckTimeout
  PROVE  PatientInv'
<1>1. Rests /\ Setting /\ Before /\ Held /\ Paced /\ Sounds /\ Stopped /\ Owing /\ Believed
  BY DEF PatientInv, Course
<1>2. /\ UNCHANGED <<WAKE, hasListen, ctl, ref, copy, sess, scenario>>
      /\ ~link' /\ toRabbit' = <<>> /\ toServer' = <<>>
      /\ rabbit' = [rabbit EXCEPT !.play = "none"]
      /\ rabbit \in [streamOn : BOOLEAN, arp : BOOLEAN, rec : BOOLEAN,
                     play : {"none", "fetching", "playing", "muted"},
                     deaf : BOOLEAN, refused : BOOLEAN]
  BY DEF Drop, AckTimeout, Lost, threads, HoldInv, Types, TypeOK
<1>3. \A s \in Sess : /\ session'[s].resource = session[s].resource
                      /\ session'[s].bound = session[s].bound
                      /\ session'[s].inited = session[s].inited
  <2>1. session \in SomeSession
    BY DEF HoldInv, Types, TypeOK, SomeSession
  <2>2. session' = session \/ session' = [session EXCEPT ![sess].soundAt = FALSE]
    BY DEF Drop, AckTimeout
  <2> QED
    BY <2>1, <2>2, SoundForgotten
<1>4. ThreadsStay /\ Rests'
  BY <1>1, <1>2, <1>3, Unmoved
<1>5. ~ST' /\ ~RT' /\ ~RS' /\ ~RSLast' /\ OneST'
  BY <1>2 DEF ST, RT, RS, RSLast, OneST, Contains
<1>6. rabbit'.play = "none" /\ rabbit'.arp = rabbit.arp
  BY <1>2
<1>7. Setting'
  BY <1>1, <1>2, <1>3, <1>6 DEF Setting
<1>8. Before' /\ Held' /\ Paced' /\ Sounds' /\ Stopped' /\ Owing' /\ Believed'
  <2>1. Before' /\ Held'
    BY <1>1, <1>2, <1>4, <1>5, <1>6 DEF Before, Held, ThreadsStay
  <2>2. Paced' /\ Sounds'
    BY <1>1, <1>2, <1>4, <1>5, <1>6 DEF Paced, Sounds, ThreadsStay, Quiet
  <2>3. Stopped' /\ Owing' /\ Believed'
    BY <1>1, <1>2, <1>4, <1>5, <1>6 DEF Stopped, Owing, Believed, ThreadsStay
  <2> QED
    BY <2>1, <2>2, <2>3
<1> QED
  BY <1>4, <1>7, <1>8 DEF PatientInv, Course

SomeRabbit == [streamOn : BOOLEAN, arp : BOOLEAN, rec : BOOLEAN,
               play : {"none", "fetching", "playing", "muted"}, deaf : BOOLEAN, refused : BOOLEAN]

\* The rabbit starts to record: it asks for an address first.
LEMMA RabbitRSCourse ==
  ASSUME HoldInv, PatientInv, RabbitRS
  PROVE  PatientInv'
<1>1. Rests /\ Setting /\ Before /\ Held /\ Paced /\ Sounds /\ Stopped /\ Owing /\ Believed
  BY DEF PatientInv, Course
<1>2. ThreadsStay /\ Rests' /\ UNCHANGED <<link, scenario, session>>
  BY <1>1, Remains DEF RabbitRS, Applies
<1>3. /\ rabbit'.arp /\ (rabbit'.rec <=> rabbit.rec) /\ (rabbit'.play = rabbit.play) /\ (rabbit'.deaf <=> rabbit.deaf)
      /\ toServer' = toServer /\ ~rabbit.deaf
  BY DEF RabbitRS, Applies, RabbitStep, HoldInv, Types, TypeOK
<1>4. /\ toRabbit # <<>> /\ toRabbit' = Tail(toRabbit) /\ toRabbit \in Seq({"RT", "RS", "ST"}) /\ Head(toRabbit) = "RS"
  BY DEF RabbitRS, Applies, HoldInv, Types
<1>5. /\ (ST <=> ST' \/ "RS" = "ST") /\ (RT <=> RT' \/ "RS" = "RT") /\ (RS <=> RS' \/ "RS" = "RS")
      /\ (OneST => OneST' /\ ("RS" = "ST" => ~ST')) /\ (RSLast' => RSLast)
      /\ RSLast => RSLast' \/ ("RS" = "RS" /\ ~RT')
  BY <1>4, Arrived
<1>6. link /\ Setting'
  BY <1>1, <1>2, <1>3, <1>4 DEF Setting, ThreadsStay
<1>7. Before'
  BY <1>1, <1>2, <1>3, <1>4, <1>5, <1>6 DEF Before, Sounds, ThreadsStay
<1>8. Held'
  BY <1>1, <1>2, <1>3, <1>4, <1>5, <1>6 DEF Held, ThreadsStay
<1>9. Paced'
  BY <1>1, <1>2, <1>3, <1>4, <1>5, <1>6 DEF Paced, Quiet, ToST, Before, ThreadsStay
<1>10. Sounds'
  BY <1>1, <1>2, <1>3, <1>4, <1>5, <1>6 DEF Sounds, Paced, Before, Quiet, ToST, Held, ThreadsStay
<1>11. Stopped'
  BY <1>1, <1>2, <1>3, <1>4, <1>5, <1>6 DEF Stopped, Paced, Quiet, ThreadsStay
<1>12. Owing'
  BY <1>1, <1>2, <1>3, <1>4, <1>5, <1>6 DEF Owing, Paced, Before, Sounds, Quiet, ToST, ThreadsStay
<1>13. Believed'
  BY <1>1, <1>2, <1>3, <1>4, <1>5, <1>6 DEF Believed, Paced, Before, Stopped, Quiet, ThreadsStay
<1> QED
  BY <1>2, <1>6, <1>7, <1>8, <1>9, <1>10, <1>11, <1>12, <1>13 DEF PatientInv, Course

\* The rabbit stops recording.
LEMMA RabbitRTCourse ==
  ASSUME HoldInv, PatientInv, RabbitRT
  PROVE  PatientInv'
<1>1. Rests /\ Setting /\ Before /\ Held /\ Paced /\ Sounds /\ Stopped /\ Owing /\ Believed
  BY DEF PatientInv, Course
<1>2. ThreadsStay /\ Rests' /\ UNCHANGED <<link, scenario, session>>
  BY <1>1, Remains DEF RabbitRT, Applies
<1>3. /\ ~rabbit'.rec /\ (rabbit'.arp <=> rabbit.arp) /\ (rabbit'.play = rabbit.play) /\ (rabbit'.deaf <=> rabbit.deaf)
      /\ toServer' = toServer /\ ~rabbit.deaf
  BY DEF RabbitRT, Applies, RabbitStep, HoldInv, Types, TypeOK
<1>4. /\ toRabbit # <<>> /\ toRabbit' = Tail(toRabbit) /\ toRabbit \in Seq({"RT", "RS", "ST"}) /\ Head(toRabbit) = "RT"
  BY DEF RabbitRT, Applies, HoldInv, Types
<1>5. /\ (ST <=> ST' \/ "RT" = "ST") /\ (RT <=> RT' \/ "RT" = "RT") /\ (RS <=> RS' \/ "RT" = "RS")
      /\ (OneST => OneST' /\ ("RT" = "ST" => ~ST')) /\ (RSLast' => RSLast)
      /\ RSLast => RSLast' \/ ("RT" = "RS" /\ ~RT')
  BY <1>4, Arrived
<1>6. link /\ Setting'
  BY <1>1, <1>2, <1>3, <1>4 DEF Setting, ThreadsStay
<1>7. Before'
  BY <1>1, <1>2, <1>3, <1>4, <1>5, <1>6 DEF Before, Sounds, ThreadsStay
<1>8. Held'
  BY <1>1, <1>2, <1>3, <1>4, <1>5, <1>6 DEF Held, ThreadsStay
<1>9. Paced'
  BY <1>1, <1>2, <1>3, <1>4, <1>5, <1>6 DEF Paced, Quiet, ToST, Before, ThreadsStay
<1>10. Sounds'
  BY <1>1, <1>2, <1>3, <1>4, <1>5, <1>6 DEF Sounds, Paced, Before, Quiet, ToST, Held, ThreadsStay
<1>11. Stopped'
  BY <1>1, <1>2, <1>3, <1>4, <1>5, <1>6 DEF Stopped, Paced, Quiet, ThreadsStay
<1>12. Owing'
  BY <1>1, <1>2, <1>3, <1>4, <1>5, <1>6 DEF Owing, Paced, Before, Sounds, Quiet, ToST, ThreadsStay
<1>13. Believed'
  BY <1>1, <1>2, <1>3, <1>4, <1>5, <1>6 DEF Believed, Paced, Before, Stopped, Quiet, ThreadsStay
<1> QED
  BY <1>2, <1>6, <1>7, <1>8, <1>9, <1>10, <1>11, <1>12, <1>13 DEF PatientInv, Course

\* A sound is to be played.
LEMMA RabbitSTCourse ==
  ASSUME HoldInv, PatientInv, RabbitST
  PROVE  PatientInv'
<1>1. Rests /\ Setting /\ Before /\ Held /\ Paced /\ Sounds /\ Stopped /\ Owing /\ Believed
  BY DEF PatientInv, Course
<1>2. ThreadsStay /\ Rests' /\ UNCHANGED <<link, scenario, session>>
  BY <1>1, Remains DEF RabbitST, Applies
<1>3. /\ (rabbit'.rec <=> rabbit.rec) /\ (rabbit'.arp <=> rabbit.arp) /\ rabbit'.play = "fetching" /\ (rabbit'.deaf <=> rabbit.deaf)
      /\ ~rabbit.deaf /\ toServer' = IF rabbit.play = "none" THEN Append(toServer, "streaming") ELSE toServer
  BY DEF RabbitST, Applies, RabbitStep, HoldInv, Types, TypeOK
<1>4. /\ toRabbit # <<>> /\ toRabbit' = Tail(toRabbit) /\ toRabbit \in Seq({"RT", "RS", "ST"}) /\ Head(toRabbit) = "ST"
  BY DEF RabbitST, Applies, HoldInv, Types
<1>5. /\ (ST <=> ST' \/ "ST" = "ST") /\ (RT <=> RT' \/ "ST" = "RT") /\ (RS <=> RS' \/ "ST" = "RS")
      /\ (OneST => OneST' /\ ("ST" = "ST" => ~ST')) /\ (RSLast' => RSLast)
      /\ RSLast => RSLast' \/ ("ST" = "RS" /\ ~RT')
  BY <1>4, Arrived
<1>6. link /\ Setting'
  BY <1>1, <1>2, <1>3, <1>4 DEF Setting, ThreadsStay
<1>7. Inited /\ rabbit.play = "none" /\ toServer = <<>> /\ toServer' = <<"streaming">> /\ Resource = "idle" /\ ~ST'
  <2>1. ST /\ ~ST' /\ Inited
    BY <1>1, <1>5 DEF Before, Paced
  <2>2. rabbit.play = "none" /\ toServer = <<>> /\ Resource = "idle"
    BY <1>1, <1>6, <2>1 DEF Sounds, Setting
  <2>3. toServer' = <<"streaming">>
    BY <1>3, <2>2
  <2> QED
    BY <2>1, <2>2, <2>3
<1>8. Before'
  BY <1>1, <1>2, <1>3, <1>4, <1>5, <1>6, <1>7 DEF Before, Sounds, ThreadsStay
<1>9. Held'
  BY <1>1, <1>2, <1>3, <1>4, <1>5, <1>6, <1>7 DEF Held, ThreadsStay
<1>10. Paced'
  BY <1>1, <1>2, <1>3, <1>4, <1>5, <1>6, <1>7 DEF Paced, Quiet, ToST, Before, ThreadsStay
<1>11. Sounds'
  BY <1>1, <1>2, <1>3, <1>4, <1>5, <1>6, <1>7 DEF Sounds, Paced, Before, Quiet, ToST, Held, ThreadsStay
<1>12. Stopped'
  BY <1>1, <1>2, <1>3, <1>4, <1>5, <1>6, <1>7 DEF Stopped, Paced, Quiet, ThreadsStay
<1>13. Owing'
  BY <1>1, <1>2, <1>3, <1>4, <1>5, <1>6, <1>7 DEF Owing, Paced, Before, Sounds, Quiet, ToST, ThreadsStay
<1>14. Believed'
  BY <1>1, <1>2, <1>3, <1>4, <1>5, <1>6, <1>7 DEF Believed, Paced, Before, Stopped, Quiet, ThreadsStay
<1> QED
  BY <1>2, <1>6, <1>8, <1>9, <1>10, <1>11, <1>12, <1>13, <1>14 DEF PatientInv, Course

\* The address is there, and the recording begins unless a sound is playing.
LEMMA ArpReplyCourse ==
  ASSUME HoldInv, PatientInv, ArpReply
  PROVE  PatientInv'
<1>1. Rests /\ Setting /\ Before /\ Held /\ Paced /\ Sounds /\ Stopped /\ Owing /\ Believed
  BY DEF PatientInv, Course
<1>2. ThreadsStay /\ Rests' /\ UNCHANGED <<link, scenario, session>>
  BY <1>1, Remains DEF ArpReply
<1>3. /\ ~rabbit'.arp /\ (rabbit'.rec <=> rabbit.play # "playing") /\ (rabbit'.play = rabbit.play) /\ (rabbit'.deaf <=> rabbit.deaf)
      /\ toServer' = toServer /\ rabbit.arp
  BY DEF ArpReply, Applies, RabbitStep, HoldInv, Types, TypeOK
<1>4. toRabbit' = toRabbit
  BY DEF ArpReply, RabbitStep
<1>5. ST' = ST /\ RT' = RT /\ RS' = RS /\ RSLast' = RSLast /\ OneST' = OneST
  BY <1>4 DEF ST, RT, RS, RSLast, OneST
<1>6. Setting'
  BY <1>1, <1>2, <1>3, <1>4 DEF Setting, ThreadsStay
<1>7. Before'
  BY <1>1, <1>2, <1>3, <1>4, <1>5, <1>6 DEF Before, Sounds, ThreadsStay
<1>8. Held'
  BY <1>1, <1>2, <1>3, <1>4, <1>5, <1>6 DEF Held, ThreadsStay
<1>9. Paced'
  BY <1>1, <1>2, <1>3, <1>4, <1>5, <1>6 DEF Paced, Quiet, ToST, Before, ThreadsStay
<1>10. Sounds'
  BY <1>1, <1>2, <1>3, <1>4, <1>5, <1>6 DEF Sounds, Paced, Before, Quiet, ToST, Held, ThreadsStay
<1>11. Stopped'
  BY <1>1, <1>2, <1>3, <1>4, <1>5, <1>6 DEF Stopped, Paced, Quiet, ThreadsStay
<1>12. Owing'
  BY <1>1, <1>2, <1>3, <1>4, <1>5, <1>6 DEF Owing, Paced, Before, Sounds, Quiet, ToST, ThreadsStay
<1>13. Believed'
  BY <1>1, <1>2, <1>3, <1>4, <1>5, <1>6 DEF Believed, Paced, Before, Stopped, Quiet, ThreadsStay
<1> QED
  BY <1>2, <1>6, <1>7, <1>8, <1>9, <1>10, <1>11, <1>12, <1>13 DEF PatientInv, Course

\* The sound begins, or is refused.
LEMMA PlayStartCourse ==
  ASSUME HoldInv, PatientInv, PlayStart
  PROVE  PatientInv'
<1>1. Rests /\ Setting /\ Before /\ Held /\ Paced /\ Sounds /\ Stopped /\ Owing /\ Believed
  BY DEF PatientInv, Course
<1>2. ThreadsStay /\ Rests' /\ UNCHANGED <<link, scenario, session>>
  BY <1>1, Remains DEF PlayStart
<1>3. /\ (rabbit'.rec <=> rabbit.rec) /\ (rabbit'.arp <=> rabbit.arp) /\ (rabbit'.deaf <=> rabbit.deaf)
      /\ rabbit.play # "none" /\ rabbit'.play # "none" /\ toServer' = toServer
  BY DEF PlayStart, Applies, RabbitStep, HoldInv, Types, TypeOK
<1>4. toRabbit' = toRabbit
  BY DEF PlayStart, RabbitStep
<1>5. ST' = ST /\ RT' = RT /\ RS' = RS /\ RSLast' = RSLast /\ OneST' = OneST
  BY <1>4 DEF ST, RT, RS, RSLast, OneST
<1>6. Setting'
  BY <1>1, <1>2, <1>3, <1>4 DEF Setting, ThreadsStay
<1>7. Before'
  BY <1>1, <1>2, <1>3, <1>4, <1>5, <1>6 DEF Before, Sounds, ThreadsStay
<1>8. Held'
  BY <1>1, <1>2, <1>3, <1>4, <1>5, <1>6 DEF Held, ThreadsStay
<1>9. Paced'
  BY <1>1, <1>2, <1>3, <1>4, <1>5, <1>6 DEF Paced, Quiet, ToST, Before, ThreadsStay
<1>10. Sounds'
  BY <1>1, <1>2, <1>3, <1>4, <1>5, <1>6 DEF Sounds, Paced, Before, Quiet, ToST, Held, ThreadsStay
<1>11. Stopped'
  BY <1>1, <1>2, <1>3, <1>4, <1>5, <1>6 DEF Stopped, Paced, Quiet, ThreadsStay
<1>12. Owing'
  BY <1>1, <1>2, <1>3, <1>4, <1>5, <1>6 DEF Owing, Paced, Before, Sounds, Quiet, ToST, ThreadsStay
<1>13. Believed'
  BY <1>1, <1>2, <1>3, <1>4, <1>5, <1>6 DEF Believed, Paced, Before, Stopped, Quiet, ThreadsStay
<1> QED
  BY <1>2, <1>6, <1>7, <1>8, <1>9, <1>10, <1>11, <1>12, <1>13 DEF PatientInv, Course

\* The sound is over.
LEMMA PlayEndCourse ==
  ASSUME HoldInv, PatientInv, PlayEnd
  PROVE  PatientInv'
<1>1. Rests /\ Setting /\ Before /\ Held /\ Paced /\ Sounds /\ Stopped /\ Owing /\ Believed
  BY DEF PatientInv, Course
<1>2. ThreadsStay /\ Rests' /\ UNCHANGED <<link, scenario, session>>
  BY <1>1, Remains DEF PlayEnd
<1>3. /\ (rabbit'.rec <=> rabbit.rec) /\ (rabbit'.arp <=> rabbit.arp) /\ (rabbit'.deaf <=> rabbit.deaf)
      /\ rabbit.play # "none" /\ rabbit'.play = "none" /\ toServer' = Append(toServer, "idle") /\ SecondsPass
  BY DEF PlayEnd, Applies, RabbitStep, HoldInv, Types, TypeOK
<1>4. toRabbit' = toRabbit
  BY DEF PlayEnd, RabbitStep
<1>5. ST' = ST /\ RT' = RT /\ RS' = RS /\ RSLast' = RSLast /\ OneST' = OneST
  BY <1>4 DEF ST, RT, RS, RSLast, OneST
<1>6. Setting'
  BY <1>1, <1>2, <1>3, <1>4 DEF Setting, ThreadsStay
<1>7. /\ Inited /\ WakeAt = "done" /\ GreetAt = "done"
      /\ \/ toServer = <<>> /\ toServer' = <<"idle">> /\ Resource = "streaming"
         \/ toServer = <<"streaming">> /\ toServer' = <<"streaming", "idle">> /\ Resource = "idle"
  <2>1. Inited /\ link
    BY <1>1, <1>3 DEF Before, Setting
  <2>2. WakeAt = "done" /\ GreetAt \in {"done", "wait"}
    BY <1>1, <1>3, SecondsIdle
  <2>3. GreetAt = "done"
    BY <1>1, <1>3, <2>2 DEF Paced, Quiet, ToST
  <2>4. \/ toServer = <<"streaming">> /\ Resource = "idle"
        \/ toServer = <<>> /\ Resource = "streaming"
    BY <1>1, <1>3, <2>1 DEF Sounds
  <2>5. /\ Append(<<>>, "idle") = <<"idle">>
        /\ Append(<<"streaming">>, "idle") = <<"streaming", "idle">>
    BY AppendPair
  <2> QED
    BY <1>3, <2>1, <2>2, <2>3, <2>4, <2>5
<1>8. Before'
  BY <1>1, <1>2, <1>3, <1>4, <1>5, <1>6, <1>7 DEF Before, Sounds, ThreadsStay
<1>9. Held'
  BY <1>1, <1>2, <1>3, <1>4, <1>5, <1>6, <1>7 DEF Held, ThreadsStay
<1>10. Paced'
  BY <1>1, <1>2, <1>3, <1>4, <1>5, <1>6, <1>7 DEF Paced, Quiet, ToST, Before, ThreadsStay
<1>11. Sounds'
  BY <1>1, <1>2, <1>3, <1>4, <1>5, <1>6, <1>7 DEF Sounds, Paced, Before, Quiet, ToST, Held, ThreadsStay
<1>12. Stopped'
  BY <1>1, <1>2, <1>3, <1>4, <1>5, <1>6, <1>7 DEF Stopped, Paced, Quiet, ThreadsStay
<1>13. Owing'
  BY <1>1, <1>2, <1>3, <1>4, <1>5, <1>6, <1>7 DEF Owing, Paced, Before, Sounds, Quiet, ToST, ThreadsStay
<1>14. Believed'
  BY <1>1, <1>2, <1>3, <1>4, <1>5, <1>6, <1>7 DEF Believed, Paced, Before, Stopped, Quiet, ThreadsStay
<1> QED
  BY <1>2, <1>6, <1>8, <1>9, <1>10, <1>11, <1>12, <1>13, <1>14 DEF PatientInv, Course

\* A deaf rabbit ignores it.
LEMMA IgnoresProgramCourse ==
  ASSUME HoldInv, PatientInv, IgnoresProgram
  PROVE  PatientInv'
<1>1. Rests /\ Setting /\ Before /\ Held /\ Paced /\ Sounds /\ Stopped /\ Owing /\ Believed
  BY DEF PatientInv, Course
<1>2. ThreadsStay /\ Rests' /\ UNCHANGED <<link, scenario, session>>
  BY <1>1, Remains DEF IgnoresProgram
<1>3. /\ rabbit' = rabbit /\ toServer' = toServer /\ rabbit.deaf
  BY DEF IgnoresProgram, Applies, RabbitStep, HoldInv, Types, TypeOK
<1>4. /\ toRabbit # <<>> /\ toRabbit' = Tail(toRabbit) /\ toRabbit \in Seq({"RT", "RS", "ST"})
  BY DEF IgnoresProgram, Applies, HoldInv, Types
<1>5. /\ (ST <=> ST' \/ Head(toRabbit) = "ST") /\ (RT <=> RT' \/ Head(toRabbit) = "RT") /\ (RS <=> RS' \/ Head(toRabbit) = "RS")
      /\ (OneST => OneST' /\ (Head(toRabbit) = "ST" => ~ST')) /\ (RSLast' => RSLast)
      /\ RSLast => RSLast' \/ (Head(toRabbit) = "RS" /\ ~RT')
  BY <1>4, Arrived
<1>6. link /\ Setting'
  BY <1>1, <1>2, <1>3, <1>4 DEF Setting, ThreadsStay
<1>7. Before'
  BY <1>1, <1>2, <1>3, <1>4, <1>5, <1>6 DEF Before, Sounds, ThreadsStay
<1>8. Held'
  BY <1>1, <1>2, <1>3, <1>4, <1>5, <1>6 DEF Held, ThreadsStay
<1>9. Paced'
  BY <1>1, <1>2, <1>3, <1>4, <1>5, <1>6 DEF Paced, Quiet, ToST, Before, ThreadsStay
<1>10. Sounds'
  BY <1>1, <1>2, <1>3, <1>4, <1>5, <1>6 DEF Sounds, Paced, Before, Quiet, ToST, Held, ThreadsStay
<1>11. Stopped'
  BY <1>1, <1>2, <1>3, <1>4, <1>5, <1>6 DEF Stopped, Paced, Quiet, ThreadsStay
<1>12. Owing'
  BY <1>1, <1>2, <1>3, <1>4, <1>5, <1>6 DEF Owing, Paced, Before, Sounds, Quiet, ToST, ThreadsStay
<1>13. Believed'
  BY <1>1, <1>2, <1>3, <1>4, <1>5, <1>6 DEF Believed, Paced, Before, Stopped, Quiet, ThreadsStay
<1> QED
  BY <1>2, <1>6, <1>7, <1>8, <1>9, <1>10, <1>11, <1>12, <1>13 DEF PatientInv, Course
-----------------------------------------------------------------------------
\* A deaf spell begins; wake words and the cooldown of their answers do not occur.
LEMMA GoDeafCourse ==
  ASSUME HoldInv, PatientInv, GoDeaf
  PROVE  PatientInv'
<1>1. Rests /\ Setting /\ Before /\ Held /\ Paced /\ Sounds /\ Stopped /\ Owing /\ Believed
  BY DEF PatientInv, Course
<1>2. /\ UNCHANGED <<WAKE, hasListen, session, ctl, ref, copy, sess, link, toRabbit, toServer>>
      /\ rabbit.play = "none" /\ rabbit' = [rabbit EXCEPT !.deaf = TRUE]
      /\ scenario' = [scenario EXCEPT !.deaf = @ - 1] /\ link
      /\ rabbit \in SomeRabbit /\ scenario \in Scenario
  BY DEF GoDeaf, threads, wire, HoldInv, Types, TypeOK, SomeRabbit
<1>3. ThreadsStay /\ Rests'
  BY <1>1, <1>2, Unmoved
<1>4. /\ (rabbit'.rec <=> rabbit.rec) /\ (rabbit'.arp <=> rabbit.arp)
      /\ rabbit'.play = "none" /\ rabbit'.deaf
  BY <1>2 DEF SomeRabbit
<1>5. /\ scenario'.patient = scenario.patient /\ scenario'.wakes = scenario.wakes
      /\ scenario'.clients = scenario.clients /\ scenario'.jingle = scenario.jingle
  BY <1>2 DEF Scenario
<1>6. ST' = ST /\ RT' = RT /\ RS' = RS /\ RSLast' = RSLast /\ OneST' = OneST
  BY <1>2 DEF ST, RT, RS, RSLast, OneST
<1>7. Setting'
  BY <1>1, <1>2, <1>4, <1>5 DEF Setting
<1>8. Before' /\ Held'
  BY <1>1, <1>2, <1>3, <1>4, <1>5, <1>6 DEF Before, Held, ThreadsStay
<1>9. Paced' /\ Sounds'
  BY <1>1, <1>2, <1>3, <1>4, <1>6 DEF Paced, Sounds, ThreadsStay, Quiet
<1>10. Stopped' /\ Owing' /\ Believed'
  BY <1>1, <1>2, <1>3, <1>4, <1>6 DEF Stopped, Owing, Believed, ThreadsStay
<1> QED
  BY <1>3, <1>7, <1>8, <1>9, <1>10 DEF PatientInv, Course

\* There is no answer to wait out and no wake word to hear.
LEMMA Wordlessly ==
  ASSUME Setting
  PROVE  ~CooldownOver /\ ~HearsWakeWord
BY DEF Setting, CooldownOver, HearsWakeWord

\* Where all threads have finished.
LEMMA Finished ==
  ASSUME \A t \in Threads : ctl[t] = <<>>
  PROVE  /\ Rests
         /\ SessionAt = "done" /\ ApiAt = "done" /\ WakeAt = "done" /\ ClearAt = "done"
         /\ GreetAt = "done" /\ LaterAt = "done"
         /\ ~ToInit /\ ~ToPlay /\ ~TurnedOff /\ ~ToOwe
<1>1. \A t : Rest(t) = <<>>
  BY DEF Rest
<1>2. <<"RT", "save">> # <<>> /\ ~(Len(<<>>) > 1) /\ "done" # "init" /\ "done" # "ST"
  OBVIOUS
<1>3. Rests
  BY Names DEF Rests, SessionRests, ApiRests, WakeRests, ClearRests, GreetRests, LaterRests, Listens
<1> QED
  BY <1>1, <1>2, <1>3 DEF SessionAt, ApiAt, WakeAt, ClearAt, GreetAt, LaterAt, At, First,
       ToInit, ToPlay, TurnedOff, ToOwe, End

\* A rabbit that dials again finds all threads at rest.
LEMMA ConnectCourse ==
  ASSUME HoldInv, PatientInv, Connect
  PROVE  PatientInv' /\ (Wanted => Wanted') /\ (Silence => Silence')
<1>1. Rests /\ Setting /\ Before /\ Held /\ Paced /\ Sounds /\ Stopped /\ Owing /\ Believed
  BY DEF PatientInv, Course
<1>2. /\ ~link /\ SecondsPass /\ \A t \in Timers : ctl[t] = <<>>
      /\ sess' = sess + 1 /\ link' /\ toServer' = <<"idle", "session">>
      /\ rabbit' = [rabbit EXCEPT !.deaf = FALSE]
      /\ UNCHANGED <<WAKE, hasListen, session, ctl, ref, copy, toRabbit, scenario>>
      /\ rabbit \in SomeRabbit
  BY DEF Connect, threads, HoldInv, Types, TypeOK, SomeRabbit
<1>3. sess + 1 \in Sess /\ sess \in Nat
  <2>1. sess \in 0..MaxSess /\ sess < scenario.sessions /\ scenario.sessions \in 1..MaxSess
    BY DEF Connect, HoldInv, Types, TypeOK, Scenario, Sess
  <2> QED
    BY <2>1, SpeakerMicAssumption DEF Sess
<1>4. \A t \in Threads : ctl[t] = <<>>
  <2>1. SessionAt = "done" /\ ApiAt = "done" /\ WakeAt = "done"
    BY <1>1, <1>2, SecondsIdle
  <2>2. \A q \in SessionRests \cup ApiRests \cup WakeRests : q # <<>> => q[1] # "done"
    BY DEF SessionRests, ApiRests, WakeRests, Listens
  <2>3. ctl[Session] = <<>> /\ ctl[Api] = <<>> /\ ctl[Wake] = <<>> /\ ctl[T("voice")] = <<>>
    BY <1>1, <2>1, <2>2, Names DEF Rests, SessionAt, ApiAt, WakeAt, At, Rest, First
  <2>4. \A t \in Threads : t \in {Session, Api, Wake, T("voice")} \/ t \in Timers
    BY Names
  <2> QED
    BY <1>2, <2>3, <2>4
<1>5. \A t \in Threads : ctl'[t] = <<>>
  BY <1>2, <1>4
<1>6. GreetAt = "done" /\ ApiAt = "done" /\ LaterAt = "done" /\ SessionAt = "done" /\ ~TurnedOff
  BY <1>4, Finished
<1>7. /\ Rests'
      /\ SessionAt' = "done" /\ ApiAt' = "done" /\ WakeAt' = "done" /\ ClearAt' = "done"
      /\ GreetAt' = "done" /\ LaterAt' = "done"
      /\ ~ToInit' /\ ~ToPlay' /\ ~TurnedOff' /\ ~ToOwe'
  <2>1. \A t : Rest(t)' = <<>>
    BY <1>5 DEF Rest
  <2>2. <<"RT", "save">> # <<>> /\ ~(Len(<<>>) > 1) /\ "done" # "init" /\ "done" # "ST"
    OBVIOUS
  <2>3. Rests'
    BY <1>5, Names DEF Rests, SessionRests, ApiRests, WakeRests, ClearRests, GreetRests, LaterRests, Listens
  <2> QED
    BY <2>1, <2>2, <2>3 DEF SessionAt, ApiAt, WakeAt, ClearAt, GreetAt, LaterAt, At, First,
         ToInit, ToPlay, TurnedOff, ToOwe, End
<1>8. /\ toRabbit' = <<>> /\ rabbit'.play = "none" /\ (rabbit'.arp <=> rabbit.arp)
  BY <1>1, <1>2 DEF Setting, SomeRabbit
<1>9. ~ST' /\ ~RT' /\ ~RS' /\ ~RSLast' /\ OneST'
  BY <1>8 DEF ST, RT, RS, RSLast, OneST, Contains
<1>10. ~Inited' /\ ~Bound' /\ Resource' = "Boot"
  BY <1>1, <1>2, <1>3 DEF Inited, Bound, Resource, Setting
<1>11. WAKE.hold = 0
  BY <1>1, <1>6 DEF Held
<1>12. Setting'
  BY <1>1, <1>2, <1>3, <1>8 DEF Setting, Sess
<1>13. Before' /\ Held'
  BY <1>1, <1>2, <1>7, <1>8, <1>9, <1>10, <1>11 DEF Before, Held
<1>14. Paced' /\ Sounds'
  BY <1>7, <1>8, <1>9, <1>10 DEF Paced, Sounds, ToST
<1>15. Stopped' /\ Owing' /\ Believed'
  BY <1>1, <1>2, <1>6, <1>7, <1>8, <1>9, <1>10 DEF Stopped, Owing, Believed
<1>16. Wanted => Wanted'
  BY <1>2, <1>6, <1>7, <1>10 DEF Wanted, Connect
<1>17. Silence => Silence'
  <2>1. /\ (rabbit'.rec <=> rabbit.rec) /\ (rabbit'.refused <=> rabbit.refused)
    BY <1>2 DEF SomeRabbit
  <2>2. Silence => Apart' /\ ~rabbit'.refused
    BY <1>2, <2>1 DEF Silence, Apart
  <2>3. HasTurn' /\ ApiSounds' /\ GreetSounds'
    BY <1>7 DEF HasTurn, ApiSounds, GreetSounds, ToST
  <2>4. OnTheWay' /\ Playing'
    BY <1>8, <1>9 DEF OnTheWay, Playing
  <2> QED
    BY <2>2, <2>3, <2>4 DEF Silence
<1> QED
  BY <1>7, <1>12, <1>13, <1>14, <1>15, <1>16, <1>17 DEF PatientInv, Course

-----------------------------------------------------------------------------
\* A thread is given something else to do.
Gives(t, p) ==
  /\ \A u \in Threads : ctl'[u] = IF u = t THEN p ELSE ctl[u]
  /\ \A u \in Threads : u # t => ref'[u] = ref[u]
  /\ ref'[t] = sess /\ sess \in Sess
  /\ UNCHANGED <<WAKE, hasListen, copy, sess, link, toRabbit, rabbit>>

\* A thread that is given something to do.
LEMMA Given ==
  ASSUME HoldInv, Rests, NEW t \in {Session, Api, Wake}, NEW p, Gives(t, p),
         t = Session => p \in SessionRests,
         t = Api => p \in ApiRests,
         t = Wake => p \in WakeRests
  PROVE  OthersStay(t) /\ Rest(t)' = p /\ Rests' /\ copy'[Session] = copy[Session]
<1>1. t \in Threads /\ t \notin Timers /\ t # T("voice")
  <2>1. Session # T("voice") /\ Api # T("voice") /\ Wake # T("voice")
    BY DEF Session, Api, Wake, T
  <2> QED
    BY <2>1, Names
<1>2. \A u : u # t => Rest(u)' = Rest(u)
  BY <1>1 DEF Rest, Gives
<1>3. \A u : u # t => At(u)' = At(u)
  BY <1>2 DEF At
<1>4. Rest(t)' = p
  BY <1>1 DEF Rest, Gives
<1>5. OthersStay(t)
  BY <1>2, <1>3
  DEF OthersStay, SessionAt, ToInit, ApiAt, ToPlay, TurnedOff, WakeAt, ClearAt, GreetAt,
      ToOwe, LaterAt, GreetCopy, Gives
<1>6. Rests'
  <2>1. /\ ctl'[Session] \in SessionRests /\ ctl'[Api] \in ApiRests /\ ctl'[Wake] \in WakeRests
        /\ ctl'[T("voice")] = <<>>
    BY <1>1, Names DEF Rests, Gives
  <2>2. \A s \in Sess : /\ <<"clear", s>> \in Timers /\ <<"jingle", s>> \in Timers
                        /\ <<"listen", s>> \in Timers
    BY Names
  <2>3. \A u \in Timers : u \in Threads /\ u # t
    BY <1>1, Names
  <2>4. \A u \in Timers : ctl'[u] = ctl[u]
    BY <2>3 DEF Gives
  <2>5. \A s \in Sess : /\ ctl'[<<"clear", s>>] \in ClearRests /\ ctl'[<<"jingle", s>>] \in GreetRests
                        /\ ctl'[<<"listen", s>>] \in LaterRests
    BY <2>2, <2>4 DEF Rests
  <2>6. \A u \in Threads : ctl'[u] # <<>> => ref'[u] = sess' /\ sess' \in Sess
    BY DEF Rests, Gives
  <2>7. \A u \in Timers : ctl'[u] # <<>> => u[2] = sess'
    BY <2>4 DEF Rests, Gives
  <2> QED
    BY <2>1, <2>5, <2>6, <2>7 DEF Rests
<1> QED
  BY <1>4, <1>5, <1>6 DEF Gives

\* What the session thread reads, it reads from the latest connection.
LEMMA SessionReads ==
  ASSUME HoldInv, PatientInv, NEW stanza, Reads(stanza), NEW p,
         ctl' = [ctl EXCEPT ![Session] = p], p \in SessionRests
  PROVE  /\ OthersStay(Session) /\ Rest(Session)' = p /\ Rests' /\ copy'[Session] = copy[Session]
         /\ UNCHANGED <<WAKE, hasListen, sess, link, toRabbit, rabbit, wanted, scenario>>
         /\ link /\ sess \in Sess /\ SessionAt = "done" /\ ~ToInit
         /\ toServer # <<>> /\ Head(toServer) = stanza /\ toServer' = Tail(toServer)
         /\ ST' = ST /\ RT' = RT /\ RS' = RS /\ RSLast' = RSLast /\ OneST' = OneST
<1>1. /\ UNCHANGED <<WAKE, hasListen, copy, sess, link, toRabbit, rabbit, wanted, scenario>>
      /\ toServer # <<>> /\ Head(toServer) = stanza /\ toServer' = Tail(toServer)
      /\ ctl[Session] = <<>> /\ ref' = [ref EXCEPT ![Session] = sess]
  BY DEF Reads, Free, Session
<1>2. Session \in Threads /\ Rests /\ Setting
  BY Names DEF PatientInv
<1>3. link /\ sess \in Sess
  BY <1>1, <1>2 DEF Setting
<1>4. Gives(Session, p)
  BY <1>1, <1>2, <1>3 DEF Gives, HoldInv, Types, TypeOK
<1>5. OthersStay(Session) /\ Rest(Session)' = p /\ Rests' /\ copy'[Session] = copy[Session]
  BY <1>2, <1>4, Given, Names
<1>6. SessionAt = "done" /\ ~ToInit
  BY <1>1, <1>2 DEF SessionAt, At, Rest, First, ToInit, End
<1>7. ST' = ST /\ RT' = RT /\ RS' = RS /\ RSLast' = RSLast /\ OneST' = OneST
  BY <1>1 DEF ST, RT, RS, RSLast, OneST
<1> QED
  BY <1>1, <1>3, <1>5, <1>6, <1>7

\* What a bind finds, and leaves.
Binds(r) ==
  \/ /\ ~Inited /\ r = "idle" /\ toServer' = <<"session">> /\ ~Bound /\ SessionAt' = "done"
  \/ /\ Inited /\ r = "streaming" /\ toServer = <<"streaming">> /\ toServer' = <<>>
     /\ rabbit.play # "none" /\ ~ST /\ SessionAt' = "done"
  \/ /\ Inited /\ r = "streaming" /\ toServer = <<"streaming", "idle">> /\ toServer' = <<"idle">>
     /\ rabbit.play = "none" /\ ~ST /\ SessionAt' = "done"
  \/ /\ Inited /\ r = "idle" /\ toServer = <<"idle">> /\ toServer' = <<>>
     /\ rabbit.play = "none" /\ ~ST /\ SessionAt' = "rearm"

\* A bind keeps all of it.
LEMMA BindCourse ==
  ASSUME HoldInv, PatientInv, NEW r \in {"idle", "streaming"}, HandleBind(r)
  PROVE  PatientInv' /\ (Wanted => Wanted') /\ (Silence => Silence')
<1>1. Rests /\ Setting /\ Before /\ Held /\ Paced /\ Sounds /\ Stopped /\ Owing /\ Believed
  BY DEF PatientInv, Course
<1> DEFINE p == IF session[sess].bound /\ r = "idle" THEN <<"rearm">> ELSE <<>>
<1>2. Reads(r) /\ ctl' = [ctl EXCEPT ![Session] = p] /\ p \in SessionRests
  BY DEF HandleBind, Session, SessionRests, Listens
<1>3. /\ OthersStay(Session) /\ Rest(Session)' = p /\ Rests' /\ copy'[Session] = copy[Session]
      /\ UNCHANGED <<WAKE, hasListen, sess, link, toRabbit, rabbit, wanted, scenario>>
      /\ link /\ sess \in Sess /\ SessionAt = "done" /\ ~ToInit
      /\ toServer # <<>> /\ Head(toServer) = r /\ toServer' = Tail(toServer)
      /\ ST' = ST /\ RT' = RT /\ RS' = RS /\ RSLast' = RSLast /\ OneST' = OneST
  BY <1>2, SessionReads
<1>4. /\ \A s \in Sess : /\ session'[s].bound = session[s].bound
                         /\ session'[s].inited = session[s].inited
                         /\ s # sess => session'[s].resource = session[s].resource
      /\ session'[sess].resource = r
  <2>1. /\ session \in SomeSession
        /\ session' = [session EXCEPT ![sess].resource = r, ![sess].soundAt = FALSE]
    BY DEF HandleBind, HoldInv, Types, TypeOK, SomeSession
  <2>2. ASSUME NEW s \in Sess, s # sess
        PROVE  session'[s] = session[s]
    BY <2>1, <2>2 DEF SomeSession
  <2>3. /\ session'[sess].resource = r /\ session'[sess].bound = session[sess].bound
        /\ session'[sess].inited = session[sess].inited
    BY <1>3, <2>1 DEF SomeSession
  <2> QED
    BY <1>3, <2>2, <2>3
<1>5. (Inited' <=> Inited) /\ (Bound' <=> Bound) /\ Resource' = r
  BY <1>3, <1>4 DEF Inited, Bound, Resource
<1>6. SessionAt' = (IF Bound /\ r = "idle" THEN "rearm" ELSE "done") /\ ~ToInit'
  BY <1>3 DEF SessionAt, At, First, ToInit, End, Bound
<1>7. /\ ApiAt' = ApiAt /\ (ToPlay' <=> ToPlay) /\ (TurnedOff' <=> TurnedOff)
      /\ WakeAt' = WakeAt /\ ClearAt' = ClearAt /\ LaterAt' = LaterAt
      /\ GreetAt' = GreetAt /\ (ToOwe' <=> ToOwe) /\ GreetCopy' = GreetCopy
  BY <1>3, Names DEF OthersStay
<1>8. Binds(r)
  <2>1. CASE ~Inited
    <3>1. toServer = <<"idle", "session">> /\ ~Bound
      <4>1. toServer = <<"session">> => Head(toServer) = "session"
        OBVIOUS
      <4> QED
        BY <1>1, <1>3, <2>1, <4>1 DEF Before
    <3>2. Head(toServer) = "idle" /\ Tail(toServer) = <<"session">>
      BY <3>1, Tails
    <3> QED
      BY <1>3, <1>6, <2>1, <3>1, <3>2 DEF Binds
  <2>2. CASE Inited
    <3>1. Bound
      BY <1>1, <2>2 DEF Paced
    <3>2. /\ Head(<<"streaming">>) = "streaming" /\ Tail(<<"streaming">>) = <<>>
          /\ Head(<<"streaming", "idle">>) = "streaming" /\ Tail(<<"streaming", "idle">>) = <<"idle">>
          /\ Head(<<"idle">>) = "idle" /\ Tail(<<"idle">>) = <<>>
      BY Tails
    <3>3. \/ rabbit.play # "none" /\ toServer = <<"streaming">> /\ ~ST
          \/ rabbit.play = "none" /\ toServer = <<"streaming", "idle">> /\ ~ST
          \/ rabbit.play = "none" /\ toServer = <<"idle">> /\ ~ST
      BY <1>1, <1>3, <2>2 DEF Sounds
    <3> QED
      BY <1>3, <1>6, <2>2, <3>1, <3>2, <3>3 DEF Binds
  <2> QED
    BY <2>1, <2>2
<1>9. Setting'
  BY <1>1, <1>3, <1>4 DEF Setting, Sess
<1> HIDE DEF p
<1>10. Before' /\ Held'
  BY <1>1, <1>3, <1>5, <1>6, <1>7, <1>8 DEF Before, Held, Binds
<1>11. Paced'
  BY <1>1, <1>3, <1>5, <1>6, <1>7, <1>8 DEF Paced, Quiet, Binds, Sounds, Before, ToST
<1>12. Sounds'
  BY <1>1, <1>3, <1>5, <1>6, <1>7, <1>8 DEF Sounds, Binds
<1>13. Stopped'
  BY <1>1, <1>3, <1>5, <1>6, <1>7, <1>8 DEF Stopped, LoopWouldRearm, Binds
<1>14. Owing'
  BY <1>1, <1>3, <1>5, <1>6, <1>7, <1>8 DEF Owing, Binds, Quiet
<1>15. Believed'
  BY <1>1, <1>3, <1>5, <1>6, <1>7, <1>8 DEF Believed, Binds
<1>16. Wanted => Wanted'
  BY <1>3, <1>5, <1>7 DEF Wanted
<1>17. Silence => Silence'
  <2> SUFFICES ASSUME Silence PROVE Silence'
    OBVIOUS
  <2>1. turn' = turn
    BY <1>2 DEF Reads
  <2>2. Apart' /\ ~rabbit'.refused /\ HasTurn' /\ ApiSounds'
    BY <1>3, <1>7, <2>1 DEF Silence, Apart, HasTurn, ApiSounds, RTOnly, Hearing
  <2>3. GreetAt = "done" \/ SessionAt' = "done"
    BY <1>1, <1>3, <1>8 DEF Binds, Sounds
  <2>4. GreetSounds'
    BY <1>3, <1>7, <2>3 DEF Silence, GreetSounds, ToST, RTOnly, Hearing
  <2>5. OnTheWay' /\ Playing'
    BY <1>3, <1>7 DEF Silence, OnTheWay, Playing
  <2> QED
    BY <2>2, <2>4, <2>5 DEF Silence
<1> QED
  BY <1>3, <1>9, <1>10, <1>11, <1>12, <1>13, <1>14, <1>15, <1>16, <1>17
  DEF PatientInv, Course

\* The first session of a connection.
LEMMA SessionCourse ==
  ASSUME HoldInv, PatientInv, HandleSession
  PROVE  PatientInv' /\ (Wanted => Wanted') /\ (Silence => Silence')
<1>1. Rests /\ Setting /\ Before /\ Held /\ Paced /\ Sounds /\ Stopped /\ Owing /\ Believed
  BY DEF PatientInv, Course
<1> DEFINE p == IF session[sess].resource # "idle" THEN <<>>
                ELSE IF session[sess].inited THEN <<"rearm">> ELSE <<"rearm", "init">>
<1>2. Reads("session") /\ ctl' = [ctl EXCEPT ![Session] = p] /\ p \in SessionRests
  BY DEF HandleSession, Session, SessionRests, Listens
<1> HIDE DEF p
<1>3. /\ OthersStay(Session) /\ Rest(Session)' = p /\ Rests' /\ copy'[Session] = copy[Session]
      /\ UNCHANGED <<WAKE, hasListen, sess, link, toRabbit, rabbit, wanted, scenario>>
      /\ link /\ sess \in Sess /\ SessionAt = "done" /\ ~ToInit
      /\ toServer # <<>> /\ Head(toServer) = "session" /\ toServer' = Tail(toServer)
      /\ ST' = ST /\ RT' = RT /\ RS' = RS /\ RSLast' = RSLast /\ OneST' = OneST
  BY <1>2, SessionReads
<1>4. /\ \A s \in Sess : /\ s # sess => session'[s].bound = session[s].bound
                         /\ session'[s].inited = session[s].inited
                         /\ session'[s].resource = session[s].resource
      /\ session'[sess].bound
  <2>1. session \in SomeSession /\ session' = [session EXCEPT ![sess].bound = TRUE]
    BY DEF HandleSession, HoldInv, Types, TypeOK, SomeSession
  <2>2. ASSUME NEW s \in Sess, s # sess
        PROVE  session'[s] = session[s]
    BY <2>1, <2>2 DEF SomeSession
  <2>3. /\ session'[sess].resource = session[sess].resource /\ session'[sess].bound
        /\ session'[sess].inited = session[sess].inited
    BY <1>3, <2>1 DEF SomeSession
  <2> QED
    BY <1>3, <2>2, <2>3
<1>5. (Inited' <=> Inited) /\ Bound' /\ Resource' = Resource
  BY <1>3, <1>4 DEF Inited, Bound, Resource
<1>6. ~Inited /\ toServer = <<"session">> /\ Resource = "idle" /\ toServer' = <<>>
  <2>1. /\ Head(<<"idle", "session">>) = "idle" /\ Head(<<"streaming">>) = "streaming"
        /\ Head(<<"streaming", "idle">>) = "streaming" /\ Head(<<"idle">>) = "idle"
        /\ Tail(<<"session">>) = <<>>
    BY Tails
  <2>2. ~Inited
    BY <1>1, <1>3, <2>1 DEF Sounds
  <2>3. toServer = <<"session">> /\ Resource = "idle"
    BY <1>1, <1>3, <2>1, <2>2 DEF Before
  <2> QED
    BY <1>3, <2>1, <2>2, <2>3
<1>7. SessionAt' = "rearm" /\ ToInit'
  <2>1. p = <<"rearm", "init">>
    BY <1>3, <1>6 DEF Inited, Resource, p
  <2> QED
    BY <1>3, <2>1 DEF SessionAt, At, First, ToInit, End
<1>8. /\ ApiAt' = ApiAt /\ (ToPlay' <=> ToPlay) /\ (TurnedOff' <=> TurnedOff)
      /\ WakeAt' = WakeAt /\ ClearAt' = ClearAt /\ LaterAt' = LaterAt
      /\ GreetAt' = GreetAt /\ (ToOwe' <=> ToOwe) /\ GreetCopy' = GreetCopy
  BY <1>3, Names DEF OthersStay
<1>9. Setting'
  BY <1>1, <1>3, <1>4 DEF Setting, Sess
<1>10. Before' /\ Held'
  BY <1>1, <1>3, <1>5, <1>6, <1>7, <1>8 DEF Before, Held
<1>11. Paced' /\ Sounds'
  BY <1>1, <1>3, <1>5, <1>6, <1>7, <1>8 DEF Paced, Quiet, Before, ToST, Sounds
<1>12. Stopped' /\ Owing' /\ Believed'
  BY <1>1, <1>3, <1>5, <1>6, <1>7, <1>8 DEF Stopped, LoopWouldRearm, Owing, Quiet, Believed
<1>13. Wanted => Wanted'
  BY <1>3, <1>5, <1>8 DEF Wanted
<1>14. Silence => Silence'
  <2>1. ApiAt = "done" /\ GreetAt = "done" /\ ~ToPlay
    BY <1>1, <1>6, PlayMeans DEF Before
  <2>2. HasTurn' /\ ApiSounds' /\ GreetSounds'
    BY <1>8, <2>1 DEF HasTurn, ApiSounds, GreetSounds, ToST
  <2>3. Silence => Apart' /\ ~rabbit'.refused /\ OnTheWay' /\ Playing'
    BY <1>3, <1>8 DEF Silence, Apart, OnTheWay, Playing
  <2> QED
    BY <2>2, <2>3 DEF Silence
<1> QED
  BY <1>3, <1>9, <1>10, <1>11, <1>12, <1>13, <1>14 DEF PatientInv, Course

-----------------------------------------------------------------------------
\* The timers of a connection, as they are armed.
LEMMA ArmedTimers ==
  ASSUME NEW owed \in BOOLEAN
  PROVE  /\ <<"wait">> \o ClearMic = <<"wait", "RT", "unstream">>
         /\ <<"wait">> \o <<"listen">> = <<"wait", "listen">>
         /\ <<"wait">> \o ConnectJingle(owed) =
              IF owed THEN <<"wait", "owe", "free", "ack", "ST", "readHold", "decHold">>
                      ELSE <<"wait", "free", "ack", "ST", "readHold", "decHold">>
<1>1. /\ <<"wait">> \o <<"RT", "unstream">> = <<"wait", "RT", "unstream">>
      /\ <<"wait">> \o <<"listen">> = <<"wait", "listen">>
  BY Joins
<1>2. /\ <<"owe">> \o <<"free", "ack", "ST">> = <<"owe", "free", "ack", "ST">>
      /\ <<"owe", "free", "ack", "ST">> \o <<"readHold", "decHold">>
           = <<"owe", "free", "ack", "ST", "readHold", "decHold">>
      /\ <<"wait">> \o <<"owe", "free", "ack", "ST", "readHold", "decHold">>
           = <<"wait", "owe", "free", "ack", "ST", "readHold", "decHold">>
  BY Joins
<1>3. /\ <<>> \o <<"free", "ack", "ST">> = <<"free", "ack", "ST">>
      /\ <<"free", "ack", "ST">> \o <<"readHold", "decHold">>
           = <<"free", "ack", "ST", "readHold", "decHold">>
      /\ <<"wait">> \o <<"free", "ack", "ST", "readHold", "decHold">>
           = <<"wait", "free", "ack", "ST", "readHold", "decHold">>
  BY Joins
<1>4. CASE owed
  BY <1>1, <1>2, <1>4 DEF ClearMic, ConnectJingle, SendSound, Unhold
<1>5. CASE ~owed
  BY <1>1, <1>3, <1>5 DEF ClearMic, ConnectJingle, SendSound, Unhold
<1> QED
  BY <1>4, <1>5

\* The first session on idle arms them, and holds the speaker for the jingle.
LEMMA InitCourse ==
  ASSUME HoldInv, PatientInv, InitSession
  PROVE  PatientInv' /\ (Wanted => Wanted') /\ (Silence => Silence')
<1>1. Rests /\ Setting /\ Before /\ Held /\ Paced /\ Sounds /\ Stopped /\ Owing /\ Believed
  BY DEF PatientInv, Course
<1> DEFINE C == <<"clear", sess>>  J == <<"jingle", sess>>  L == <<"listen", sess>>
           greets == scenario.jingle  listens == ~scenario.jingle /\ WantListen
           first == IF greets THEN <<"readHold", "incHold">> ELSE <<>>
           greet == IF WantListen
                      THEN <<"wait", "owe", "free", "ack", "ST", "readHold", "decHold">>
                      ELSE <<"wait", "free", "ack", "ST", "readHold", "decHold">>
<1>2. ctl[Session] = <<"init">> /\ ref[Session] = sess /\ sess \in Sess /\ Session \in Threads
  BY <1>1, Names DEF InitSession, Session, Rests
<1>3. WantListen \in BOOLEAN /\ scenario.jingle \in BOOLEAN /\ ~WAKE.capturing
  BY <1>1 DEF WantListen, HoldInv, Types, TypeOK, Scenario, Setting
<1>4. /\ UNCHANGED <<WAKE, hasListen, copy, sess, link, toRabbit, toServer, rabbit, wanted, scenario>>
      /\ session' = [session EXCEPT ![sess].inited = TRUE]
  BY <1>2 DEF InitSession, wire, Session
<1>5. /\ ctl'[Session] = first
      /\ ctl'[C] = <<"wait", "RT", "unstream">>
      /\ ctl'[J] = IF greets THEN greet ELSE ctl[J]
      /\ ctl'[L] = IF listens THEN <<"wait", "listen">> ELSE ctl[L]
      /\ \A u \in Threads : u \notin {Session, C, J, L} => ctl'[u] = ctl[u]
      /\ ref'[Session] = ref[Session]
      /\ ref'[C] = sess /\ ref'[J] \in {sess, ref[J]} /\ ref'[L] \in {sess, ref[L]}
      /\ greets => ref'[J] = sess
      /\ listens => ref'[L] = sess
      /\ \A u \in Threads : u \notin {Session, C, J, L} => ref'[u] = ref[u]
  <2> DEFINE armed == (IF ShouldClearMic THEN {"clear"} ELSE {})
                 \cup (IF scenario.jingle THEN {"jingle"} ELSE IF WantListen THEN {"listen"} ELSE {})
             program == [clear |-> ClearMic, jingle |-> ConnectJingle(WantListen),
                         listen |-> <<"listen">>]
  <2>1. /\ ctl' = [u \in Threads |->
                     CASE u = Session -> IF scenario.jingle THEN Hold ELSE <<>>
                       [] u \in armed \X {sess} -> <<"wait">> \o program[u[1]]
                       [] OTHER -> ctl[u]]
        /\ ref' = [u \in Threads |-> IF u \in armed \X {sess} THEN sess ELSE ref[u]]
    BY <1>2 DEF InitSession, Session
  <2>2. \A u \in Threads : u \in armed \X {sess} <=> u = C \/ (greets /\ u = J) \/ (listens /\ u = L)
    <3>1. armed = {"clear"} \cup (IF greets THEN {"jingle"} ELSE IF WantListen THEN {"listen"} ELSE {})
      BY <1>3 DEF ShouldClearMic
    <3>2. armed \X {sess} = {C} \cup (IF greets THEN {J} ELSE IF WantListen THEN {L} ELSE {})
      <4>1. CASE greets
        <5>1. armed = {"clear", "jingle"}
          BY <3>1, <4>1
        <5> QED
          BY <4>1, <5>1
      <4>2. CASE ~greets /\ WantListen
        <5>1. armed = {"clear", "listen"}
          BY <3>1, <4>2
        <5> QED
          BY <4>2, <5>1
      <4>3. CASE ~greets /\ ~WantListen
        <5>1. armed = {"clear"}
          BY <3>1, <4>3
        <5> QED
          BY <4>3, <5>1
      <4> QED
        BY <1>3, <4>1, <4>2, <4>3
    <3> HIDE DEF armed
    <3> QED
      BY <3>2
  <2>3. /\ C \in Threads /\ J \in Threads /\ L \in Threads
        /\ Session # C /\ Session # J /\ Session # L /\ C # J /\ C # L /\ J # L
        /\ C[1] = "clear" /\ J[1] = "jingle" /\ L[1] = "listen"
    BY <1>2, Names
  <2>4. /\ program["clear"] = ClearMic /\ program["jingle"] = ConnectJingle(WantListen)
        /\ program["listen"] = <<"listen">>
    OBVIOUS
  <2>5. /\ <<"wait">> \o program["clear"] = <<"wait", "RT", "unstream">>
        /\ <<"wait">> \o program["listen"] = <<"wait", "listen">>
        /\ <<"wait">> \o program["jingle"] = greet
    BY <1>3, <2>4, ArmedTimers
  <2> HIDE DEF armed, program, C, J, L, greet, first
  <2>6. ctl'[Session] = first
    <3>1. Session \notin armed \X {sess}
      BY <1>2, <2>2, <2>3
    <3>2. ctl'[Session] = IF scenario.jingle THEN Hold ELSE <<>>
      BY <1>2, <2>1, <3>1
    <3> QED
      BY <3>2 DEF Hold, first
  <2>7. ASSUME NEW u \in Threads, u # Session
        PROVE  /\ ctl'[u] = IF u \in armed \X {sess} THEN <<"wait">> \o program[u[1]] ELSE ctl[u]
               /\ ref'[u] = IF u \in armed \X {sess} THEN sess ELSE ref[u]
    BY <2>1, <2>7
  <2>8. /\ ctl'[C] = <<"wait", "RT", "unstream">> /\ ref'[C] = sess
        /\ ctl'[J] = (IF greets THEN greet ELSE ctl[J]) /\ ref'[J] = (IF greets THEN sess ELSE ref[J])
        /\ ctl'[L] = (IF listens THEN <<"wait", "listen">> ELSE ctl[L])
        /\ ref'[L] = (IF listens THEN sess ELSE ref[L])
    BY <1>3, <2>2, <2>3, <2>5, <2>7
  <2>9. \A u \in Threads : u \notin {Session, C, J, L} => ctl'[u] = ctl[u] /\ ref'[u] = ref[u]
    BY <2>2, <2>7
  <2>10. ref'[Session] = ref[Session]
    BY <1>2, <2>1, <2>2, <2>3
  <2> QED
    BY <2>6, <2>8, <2>9, <2>10
<1>6. SessionAt = "init" /\ ToInit /\ ~Inited
  <2>1. SessionAt = "init" /\ ToInit
    BY <1>2 DEF SessionAt, At, Rest, First, ToInit, End
  <2> QED
    BY <1>1, <2>1 DEF Paced
<1>7. /\ ApiAt = "done" /\ ClearAt = "done" /\ GreetAt = "done" /\ LaterAt = "done"
      /\ rabbit.play = "none" /\ ~ST /\ Resource = "idle" /\ Bound /\ WAKE.hold = 0
      /\ toServer = <<>> /\ (link => ~WAKE.rearm)
  BY <1>1, <1>6 DEF Before, Paced, Held, Setting
<1>8. /\ C \in Threads /\ J \in Threads /\ L \in Threads /\ Api \in Threads /\ Wake \in Threads
      /\ Session # C /\ Session # J /\ Session # L /\ C # J /\ C # L /\ J # L
      /\ Api \notin {Session, C, J, L} /\ Wake \notin {Session, C, J, L}
      /\ T("voice") \notin {Session, C, J, L} /\ T("voice") \in Threads
  <2>1. /\ C \in Timers /\ J \in Timers /\ L \in Timers
        /\ Session # C /\ Session # J /\ Session # L /\ C # J /\ C # L /\ J # L
        /\ Api # C /\ Api # J /\ Api # L /\ Wake # C /\ Wake # J /\ Wake # L
    BY <1>2, Names
  <2>2. T("voice") # Session
    BY DEF T, Session
  <2> QED
    BY <2>1, <2>2, Names
<1> HIDE DEF C, J, L
<1>9. ctl[J] = <<>> /\ ctl[L] = <<>>
  <2>1. \A q \in GreetRests \cup LaterRests : q # <<>> => q[1] # "done"
    <3>1. \A q \in GreetRests : q # <<>> => q[1] # "done"
      BY DEF GreetRests
    <3>2. \A q \in LaterRests : q # <<>> => q[1] # "done"
      BY DEF LaterRests, Listens
    <3> QED
      BY <3>1, <3>2
  <2>2. ctl[J] \in GreetRests /\ ctl[L] \in LaterRests
    BY <1>1, <1>2 DEF Rests, J, L
  <2>3. Rest(J) = ctl[J] /\ Rest(L) = ctl[L]
    BY <1>8 DEF Rest
  <2>4. First(ctl[J]) = "done" /\ First(ctl[L]) = "done"
    BY <1>7, <2>3 DEF GreetAt, LaterAt, At, J, L
  <2> QED
    BY <2>1, <2>2, <2>4 DEF First
<1> HIDE DEF first, greet
<1>10. /\ Rest(Session)' = first /\ Rest(C)' = <<"wait", "RT", "unstream">>
       /\ Rest(J)' = (IF greets THEN greet ELSE <<>>)
       /\ Rest(L)' = (IF listens THEN <<"wait", "listen">> ELSE <<>>)
       /\ Rest(Api)' = Rest(Api) /\ Rest(Wake)' = Rest(Wake)
  <2>1. \A u \in Threads : Rest(u)' = ctl'[u] /\ Rest(u) = ctl[u]
    BY DEF Rest
  <2>6. C' = C /\ J' = J /\ L' = L
    BY <1>4 DEF C, J, L
  <2>2. Rest(Session)' = first /\ Rest(C)' = <<"wait", "RT", "unstream">>
    BY <1>2, <1>5, <1>8, <2>1, <2>6
  <2>3. Rest(J)' = (IF greets THEN greet ELSE <<>>)
    BY <1>5, <1>8, <1>9, <2>1, <2>6
  <2>4. Rest(L)' = (IF listens THEN <<"wait", "listen">> ELSE <<>>)
    BY <1>5, <1>8, <1>9, <2>1, <2>6
  <2>5. Rest(Api)' = Rest(Api) /\ Rest(Wake)' = Rest(Wake)
    BY <1>5, <1>8, <2>1
  <2> QED
    BY <2>2, <2>3, <2>4, <2>5
<1>11. /\ SessionAt' = (IF greets THEN "readHold" ELSE "done") /\ ~ToInit'
       /\ ClearAt' = "wait"
       /\ GreetAt' = (IF greets THEN "wait" ELSE "done") /\ (greets /\ WantListen => ToOwe')
       /\ LaterAt' = (IF listens THEN "wait" ELSE "done")
       /\ ApiAt' = ApiAt /\ WakeAt' = WakeAt /\ (ToPlay' <=> ToPlay) /\ (TurnedOff' <=> TurnedOff)
       /\ GreetCopy' = GreetCopy /\ copy'[Session] = copy[Session]
  <2>1. SessionAt' = (IF greets THEN "readHold" ELSE "done") /\ ~ToInit'
    BY <1>10 DEF SessionAt, At, First, ToInit, End, first
  <2>2. ClearAt' = "wait"
    BY <1>4, <1>10 DEF ClearAt, At, First, C
  <2>3. GreetAt' = (IF greets THEN "wait" ELSE "done") /\ (greets /\ WantListen => ToOwe')
    BY <1>4, <1>10 DEF GreetAt, At, First, J, ToOwe, greet
  <2>4. LaterAt' = (IF listens THEN "wait" ELSE "done")
    BY <1>4, <1>10 DEF LaterAt, At, First, L
  <2>5. ApiAt' = ApiAt /\ WakeAt' = WakeAt /\ (ToPlay' <=> ToPlay) /\ (TurnedOff' <=> TurnedOff)
    BY <1>10 DEF ApiAt, WakeAt, At, ToPlay, TurnedOff
  <2> QED
    BY <1>4, <2>1, <2>2, <2>3, <2>4, <2>5 DEF GreetCopy
<1>12. Rests'
  <2>1. first \in SessionRests
    BY DEF SessionRests, Listens, first
  <2>2. greet \in GreetRests
    BY DEF GreetRests, greet
  <2>3. <<"wait", "listen">> \in LaterRests /\ <<"wait", "RT", "unstream">> \in ClearRests
    BY DEF LaterRests, ClearRests
  <2>4. /\ ctl'[Session] \in SessionRests /\ ctl'[Api] \in ApiRests /\ ctl'[Wake] \in WakeRests
        /\ ctl'[T("voice")] = <<>>
    BY <1>1, <1>5, <1>8, <2>1 DEF Rests
  <2>5. /\ ctl'[C] \in ClearRests /\ ctl'[J] \in GreetRests /\ ctl'[L] \in LaterRests
    BY <1>1, <1>2, <1>5, <2>2, <2>3 DEF Rests, J, L
  <2>6. ASSUME NEW s \in Sess, s # sess
        PROVE  /\ ctl'[<<"clear", s>>] = ctl[<<"clear", s>>] /\ ctl'[<<"jingle", s>>] = ctl[<<"jingle", s>>]
               /\ ctl'[<<"listen", s>>] = ctl[<<"listen", s>>]
    <3>1. /\ <<"clear", s>> \in Threads /\ <<"jingle", s>> \in Threads /\ <<"listen", s>> \in Threads
          /\ Session # <<"clear", s>> /\ Session # <<"jingle", s>> /\ Session # <<"listen", s>>
      BY Names
    <3>2. /\ <<"clear", s>> \notin {C, J, L} /\ <<"jingle", s>> \notin {C, J, L}
          /\ <<"listen", s>> \notin {C, J, L}
      BY <2>6 DEF C, J, L
    <3> QED
      BY <1>5, <3>1, <3>2
  <2>7. \A s \in Sess : /\ ctl'[<<"clear", s>>] \in ClearRests /\ ctl'[<<"jingle", s>>] \in GreetRests
                        /\ ctl'[<<"listen", s>>] \in LaterRests
    <3> SUFFICES ASSUME NEW s \in Sess
                 PROVE  /\ ctl'[<<"clear", s>>] \in ClearRests /\ ctl'[<<"jingle", s>>] \in GreetRests
                        /\ ctl'[<<"listen", s>>] \in LaterRests
      OBVIOUS
    <3>1. CASE s = sess
      BY <2>5, <3>1 DEF C, J, L
    <3>2. CASE s # sess
      BY <1>1, <2>6, <3>2 DEF Rests
    <3> QED
      BY <3>1, <3>2
  <2>8. \A u \in Threads : ctl'[u] # <<>> => ref'[u] = sess' /\ sess' \in Sess
    <3> SUFFICES ASSUME NEW u \in Threads, ctl'[u] # <<>>
                 PROVE  ref'[u] = sess /\ sess \in Sess
      BY <1>4
    <3>1. CASE u \notin {Session, C, J, L}
      BY <1>1, <1>2, <1>5, <3>1 DEF Rests
    <3>2. CASE u \in {Session, C, J, L}
      BY <1>2, <1>5, <1>9, <3>2
    <3> QED
      BY <3>1, <3>2
  <2>9. \A u \in Timers : ctl'[u] # <<>> => u[2] = sess'
    <3> SUFFICES ASSUME NEW u \in Timers, ctl'[u] # <<>>
                 PROVE  u[2] = sess
      BY <1>4
    <3>1. u \in Threads /\ u # Session
      BY Names
    <3>2. CASE u \notin {Session, C, J, L}
      BY <1>1, <1>5, <3>1, <3>2 DEF Rests
    <3>3. CASE u \in {C, J, L}
      BY <3>3 DEF C, J, L
    <3> QED
      BY <3>1, <3>2, <3>3
  <2> QED
    BY <2>4, <2>7, <2>8, <2>9 DEF Rests
<1>13. /\ \A s \in Sess : /\ session'[s].bound = session[s].bound
                          /\ session'[s].resource = session[s].resource
                          /\ s # sess => session'[s].inited = session[s].inited
       /\ session'[sess].inited
  <2>1. session \in SomeSession
    BY DEF HoldInv, Types, TypeOK, SomeSession
  <2>2. ASSUME NEW s \in Sess, s # sess
        PROVE  session'[s] = session[s]
    BY <1>4, <2>1, <2>2 DEF SomeSession
  <2>3. /\ session'[sess].resource = session[sess].resource /\ session'[sess].inited
        /\ session'[sess].bound = session[sess].bound
    BY <1>2, <1>4, <2>1 DEF SomeSession
  <2> QED
    BY <1>2, <2>2, <2>3
<1>14. Inited' /\ Bound' /\ Resource' = "idle"
  BY <1>2, <1>4, <1>7, <1>13 DEF Inited, Bound, Resource
<1>15. ST' = ST /\ RT' = RT /\ RS' = RS /\ RSLast' = RSLast /\ OneST' = OneST
  BY <1>4 DEF ST, RT, RS, RSLast, OneST
<1>16. Setting'
  BY <1>1, <1>2, <1>4, <1>13 DEF Setting, Sess
<1>17. Before' /\ Held'
  BY <1>1, <1>4, <1>7, <1>11, <1>14, <1>15 DEF Before, Held
<1>18. Paced' /\ Sounds'
  BY <1>1, <1>4, <1>7, <1>11, <1>14, <1>15 DEF Paced, Quiet, Sounds, ToST
<1>19. WAKE.on => hasListen
  BY <1>1, <1>7 DEF Stopped
<1>20. Stopped'
  BY <1>1, <1>4, <1>7, <1>11, <1>14, <1>15 DEF Stopped, LoopWouldRearm
<1>21. WAKE.on => WantListen
  BY <1>19 DEF WantListen
<1>22. Owing' /\ Believed'
  BY <1>1, <1>3, <1>4, <1>7, <1>11, <1>14, <1>15, <1>21 DEF Owing, Quiet, Believed
<1>23. Wanted => Wanted'
  BY <1>3, <1>4, <1>6, <1>7, <1>11, <1>14, TurningOff DEF Wanted, WantListen
<1>24. Silence => Silence'
  <2>1. ~ToPlay
    BY <1>1, <1>7, PlayMeans
  <2>2. HasTurn' /\ ApiSounds' /\ GreetSounds'
    BY <1>7, <1>11, <2>1 DEF HasTurn, ApiSounds, GreetSounds
  <2>3. Silence => Apart' /\ ~rabbit'.refused /\ OnTheWay' /\ Playing'
    BY <1>4, <1>7, <1>15 DEF Silence, Apart, OnTheWay, Playing
  <2> QED
    BY <2>2, <2>3 DEF Silence
<1> QED
  BY <1>12, <1>16, <1>17, <1>18, <1>20, <1>22, <1>23, <1>24 DEF PatientInv, Course

-----------------------------------------------------------------------------
\* A request, and the wake loop's own start of the microphone.
LEMMA Started ==
  ASSUME HoldInv, PatientInv, NEW t \in {Api, Wake}, NEW p, Starts(t, p),
         t = Api => p \in ApiRests, t = Wake => p \in WakeRests
  PROVE  /\ OthersStay(t) /\ Rest(t)' = p /\ Rests' /\ copy'[Session] = copy[Session]
         /\ UNCHANGED <<WAKE, hasListen, session, sess, link, toRabbit, toServer, rabbit>>
         /\ link /\ sess \in Sess /\ Resource # "Boot" /\ ctl[t] = <<>>
         /\ ST' = ST /\ RT' = RT /\ RS' = RS /\ RSLast' = RSLast /\ OneST' = OneST
         /\ (Inited' <=> Inited) /\ (Bound' <=> Bound) /\ Resource' = Resource
<1>1. /\ UNCHANGED <<WAKE, hasListen, session, copy, sess, link, toRabbit, toServer, rabbit>>
      /\ ctl[t] = <<>> /\ ctl' = [ctl EXCEPT ![t] = p] /\ ref' = [ref EXCEPT ![t] = sess]
      /\ link /\ session[sess].resource # "Boot"
  BY DEF Starts, Free, Registered, wire
<1>2. t \in Threads /\ t # Session /\ Rests /\ Setting
  BY Names DEF PatientInv
<1>3. sess \in Sess
  BY <1>1, <1>2 DEF Setting
<1>4. Gives(t, p)
  BY <1>1, <1>2, <1>3 DEF Gives, HoldInv, Types, TypeOK
<1>5. OthersStay(t) /\ Rest(t)' = p /\ Rests' /\ copy'[Session] = copy[Session]
  BY <1>2, <1>4, Given, Names
<1>6. Resource # "Boot"
  BY <1>1, <1>3 DEF Resource
<1>7. /\ ST' = ST /\ RT' = RT /\ RS' = RS /\ RSLast' = RSLast /\ OneST' = OneST
      /\ (Inited' <=> Inited) /\ (Bound' <=> Bound) /\ Resource' = Resource
  BY <1>1 DEF ST, RT, RS, RSLast, OneST, Inited, Bound, Resource
<1> QED
  BY <1>1, <1>3, <1>5, <1>6, <1>7

\* Where all is settled, nothing is under way or expected.
LEMMA SettledMeans ==
  ASSUME HoldInv, PatientInv, Settled
  PROVE  /\ Inited /\ link /\ Quiet /\ Resource = "idle" /\ toRabbit = <<>> /\ ~rabbit.arp
         /\ SessionAt = "done" /\ ApiAt = "done" /\ WakeAt = "done" /\ ClearAt = "done"
         /\ GreetAt = "done" /\ LaterAt = "done" /\ ~ToInit /\ ~ToPlay /\ ~TurnedOff
         /\ WAKE.hold = 0 /\ ~LoopWouldRearm /\ (WAKE.on => hasListen)
         /\ (WAKE.on => WAKE.streaming \/ WAKE.rearm) /\ ~RT /\ ~RS /\ ~ST /\ ~RSLast
         /\ ~rabbit.deaf => ~WAKE.rearm
<1>1. Rests /\ Setting /\ Before /\ Held /\ Paced /\ Sounds /\ Stopped /\ Owing /\ Believed
  BY DEF PatientInv, Course
<1>2. /\ link /\ session[sess].inited /\ \A t \in Threads : ctl[t] = <<>>
      /\ toRabbit = <<>> /\ toServer = <<>> /\ rabbit.play = "none" /\ ~rabbit.arp
      /\ ~WAKE.cooling /\ ~LoopWouldRearm
  BY DEF Settled, Registered
<1>3. /\ SessionAt = "done" /\ ApiAt = "done" /\ WakeAt = "done" /\ ClearAt = "done"
      /\ GreetAt = "done" /\ LaterAt = "done" /\ ~ToInit /\ ~ToPlay /\ ~TurnedOff
  BY <1>2, Finished
<1>4. ~ST /\ ~RT /\ ~RS /\ ~RSLast
  BY <1>2, NothingSent
<1>5. Inited /\ Quiet
  BY <1>1, <1>2, <1>4 DEF Inited, Setting, Quiet
<1>6. Resource = "idle"
  BY <1>1, <1>2, <1>5 DEF Sounds
<1>7. WAKE.hold = 0 /\ (WAKE.on => hasListen)
  BY <1>1, <1>3 DEF Held, Stopped
<1>8. WAKE.on => WAKE.streaming \/ WAKE.rearm
  BY <1>2, <1>7 DEF LoopWouldRearm
<1>9. ~rabbit.deaf => ~WAKE.rearm
  BY <1>1, <1>2, <1>3, <1>5 DEF Owing, ToST
<1> QED
  BY <1>2, <1>3, <1>4, <1>5, <1>6, <1>7, <1>8, <1>9

\* There the server is right about the microphone.
LEMMA SettledBelief ==
  ASSUME HoldInv, PatientInv, Settled, ~rabbit.deaf
  PROVE  WAKE.streaming <=> rabbit.rec
<1>1. Stopped /\ Believed
  BY DEF PatientInv, Course
<1>2. /\ Inited /\ link /\ Quiet /\ toRabbit = <<>> /\ ~rabbit.arp
      /\ SessionAt = "done" /\ ApiAt = "done" /\ WakeAt = "done" /\ ClearAt = "done"
      /\ GreetAt = "done" /\ LaterAt = "done" /\ ~ToPlay /\ ~TurnedOff
      /\ (WAKE.on => WAKE.streaming \/ WAKE.rearm) /\ ~WAKE.rearm /\ ~RT /\ ~RSLast
  BY SettledMeans
<1>3. WAKE.streaming => rabbit.rec
  BY <1>1, <1>2 DEF Believed, Quiet
<1>4. ~WAKE.on => ~WAKE.streaming /\ ~rabbit.rec
  BY <1>1, <1>2 DEF Stopped
<1> QED
  BY <1>2, <1>3, <1>4 DEF HoldInv, Types, TypeOK

\* What the user asks for keeps all of it,
LEMMA AskCourse ==
  ASSUME HoldInv, PatientInv, NEW request \in Requests, Ask(request)
  PROVE  PatientInv' /\ (Wanted => Wanted') /\ (Silence => Silence')
<1>1. Rests /\ Setting /\ Before /\ Held /\ Paced /\ Sounds /\ Stopped /\ Owing /\ Believed
  BY DEF PatientInv, Course
<1>2. /\ request \in {"play", "micOn", "micOff"} /\ Settled
      /\ scenario' = [scenario EXCEPT !.requests = @ - 1]
  BY <1>1 DEF Ask, Setting, Requests
<1>3. PICK p \in {SendSound, <<"listen">>, MicOff} :
        /\ Starts(Api, p)
        /\ wanted' = IF p = <<"listen">> THEN TRUE ELSE IF p = MicOff THEN FALSE ELSE wanted
  <2>1. SendSound # <<"listen">> /\ SendSound # MicOff /\ MicOff # <<"listen">>
    BY DEF SendSound, MicOff
  <2>2. CASE request = "play"
    BY <1>2, <2>1, <2>2 DEF Ask, Api
  <2>3. CASE request = "micOn"
    BY <1>2, <2>1, <2>3 DEF Ask, Api
  <2>4. CASE request = "micOff"
    BY <1>2, <2>1, <2>4 DEF Ask, Api
  <2> QED
    BY <1>2, <2>2, <2>3, <2>4
<1>4. p \in ApiRests
  BY DEF SendSound, MicOff, ApiRests, Listens
<1>5. Api # Session /\ Api # Wake
  BY Names
<1>6. /\ OthersStay(Api) /\ Rest(Api)' = p /\ Rests' /\ copy'[Session] = copy[Session]
      /\ UNCHANGED <<WAKE, hasListen, session, sess, link, toRabbit, toServer, rabbit>>
      /\ ST' = ST /\ RT' = RT /\ RS' = RS /\ RSLast' = RSLast /\ OneST' = OneST
      /\ (Inited' <=> Inited) /\ (Bound' <=> Bound) /\ Resource' = Resource
  BY <1>3, <1>4, <1>5, Started
<1>7. /\ SessionAt' = SessionAt /\ (ToInit' <=> ToInit) /\ WakeAt' = WakeAt
      /\ ClearAt' = ClearAt /\ LaterAt' = LaterAt
      /\ GreetAt' = GreetAt /\ (ToOwe' <=> ToOwe) /\ GreetCopy' = GreetCopy
  BY <1>5, <1>6, Names DEF OthersStay
<1>8. /\ ApiAt' \in {"free", "listen", "off"} /\ ~TurnedOff' /\ (ToPlay' => ApiAt' = "free")
      /\ wanted' = IF ApiAt' = "listen" THEN TRUE ELSE IF ApiAt' = "off" THEN FALSE ELSE wanted
  <2>1. /\ First(p) \in {"free", "listen", "off"}
        /\ (p = <<"listen">> <=> First(p) = "listen") /\ (p = MicOff <=> First(p) = "off")
    BY DEF SendSound, MicOff, First
  <2>2. p # <<"RT", "save">>
    BY DEF SendSound, MicOff
  <2>3. End(p) = "ST" => First(p) = "free"
    BY DEF SendSound, MicOff, First, End
  <2> QED
    BY <1>3, <1>6, <2>1, <2>2, <2>3 DEF ApiAt, At, TurnedOff, ToPlay
<1>9. /\ Inited /\ link /\ Quiet /\ Resource = "idle" /\ toRabbit = <<>> /\ ~rabbit.arp
      /\ SessionAt = "done" /\ ApiAt = "done" /\ WakeAt = "done" /\ ClearAt = "done"
      /\ GreetAt = "done" /\ LaterAt = "done" /\ ~ToInit /\ ~ToPlay /\ ~TurnedOff
      /\ ~LoopWouldRearm /\ (WAKE.on => hasListen)
      /\ (WAKE.on => WAKE.streaming \/ WAKE.rearm) /\ (~rabbit.deaf => ~WAKE.rearm)
  BY <1>2, SettledMeans
<1>10. /\ scenario'.patient = scenario.patient /\ scenario'.wakes = scenario.wakes
       /\ scenario'.clients = scenario.clients /\ scenario'.jingle = scenario.jingle
       /\ scenario'.autoListen = scenario.autoListen /\ scenario'.prompt = scenario.prompt
       /\ scenario'.preempt = scenario.preempt
  BY <1>2 DEF Scenario, HoldInv, Types, TypeOK
<1>11. Setting'
  BY <1>1, <1>6, <1>10 DEF Setting
<1>12. Before' /\ Held'
  BY <1>1, <1>6, <1>7, <1>9, <1>10 DEF Before, Held
<1>13. Paced' /\ Sounds'
  BY <1>1, <1>6, <1>7, <1>8, <1>9 DEF Paced, Sounds, Quiet
<1>14. Stopped'
  <2>1. LoopWouldRearm' <=> LoopWouldRearm
    BY <1>6 DEF LoopWouldRearm
  <2> QED
    BY <1>1, <1>6, <1>7, <1>8, <1>9, <2>1 DEF Stopped
<1>15. Owing' /\ Believed'
  BY <1>1, <1>6, <1>7, <1>8, <1>9 DEF Owing, Believed, Quiet
<1>16. Wanted => Wanted'
  BY <1>6, <1>7, <1>8, <1>9, <1>10 DEF Wanted
<1>17. Silence => Silence'
  <2>1. ~rabbit.deaf => (WAKE.streaming <=> rabbit.rec)
    BY <1>2, SettledBelief
  <2>2. Silence => Apart' /\ ~rabbit'.refused
    BY <1>6, <1>10 DEF Silence, Apart
  <2>3. HasTurn' /\ ApiSounds' /\ GreetSounds'
    BY <1>6, <1>7, <1>8, <1>9, <2>1 DEF HasTurn, ApiSounds, GreetSounds, RTOnly, Hearing, ToST
  <2>4. OnTheWay' /\ Playing'
    BY <1>6, <1>9 DEF OnTheWay, Playing, Quiet
  <2> QED
    BY <2>2, <2>3, <2>4 DEF Silence
<1> QED
  BY <1>6, <1>11, <1>12, <1>13, <1>14, <1>15, <1>16, <1>17 DEF PatientInv, Course

\* and so does the wake loop's start of the microphone.
LEMMA LoopCourse ==
  ASSUME HoldInv, PatientInv, LoopRearms
  PROVE  PatientInv' /\ (Wanted => Wanted') /\ (Silence => Silence')
<1>1. Rests /\ Setting /\ Before /\ Held /\ Paced /\ Sounds /\ Stopped /\ Owing /\ Believed
  BY DEF PatientInv, Course
<1>2. LoopWouldRearm /\ Starts(Wake, <<"listen">>) /\ UNCHANGED scenario
  BY DEF LoopRearms, Wake
<1>3. Wake # Session /\ Wake # Api /\ <<"listen">> \in WakeRests
  BY Names DEF WakeRests, Listens
<1>4. /\ OthersStay(Wake) /\ Rest(Wake)' = <<"listen">> /\ Rests' /\ copy'[Session] = copy[Session]
      /\ UNCHANGED <<WAKE, hasListen, session, sess, link, toRabbit, toServer, rabbit>>
      /\ link /\ Resource # "Boot" /\ ctl[Wake] = <<>>
      /\ ST' = ST /\ RT' = RT /\ RS' = RS /\ RSLast' = RSLast /\ OneST' = OneST
      /\ (Inited' <=> Inited) /\ (Bound' <=> Bound) /\ Resource' = Resource
  BY <1>2, <1>3, Started
<1>5. /\ SessionAt' = SessionAt /\ (ToInit' <=> ToInit)
      /\ ApiAt' = ApiAt /\ (ToPlay' <=> ToPlay) /\ (TurnedOff' <=> TurnedOff)
      /\ ClearAt' = ClearAt /\ LaterAt' = LaterAt
      /\ GreetAt' = GreetAt /\ (ToOwe' <=> ToOwe) /\ GreetCopy' = GreetCopy
  BY <1>3, <1>4, Names DEF OthersStay
<1>6. WakeAt = "done" /\ WakeAt' = "listen"
  BY <1>4 DEF WakeAt, At, First, Rest
<1>7. WAKE.on /\ ~WAKE.streaming /\ WAKE.hold = 0 /\ ~WAKE.rearm
  BY <1>2 DEF LoopWouldRearm
<1>8. Setting'
  BY <1>1, <1>2, <1>4 DEF Setting
<1>9. Before' /\ Held'
  BY <1>1, <1>2, <1>4, <1>5, <1>6 DEF Before, Held
<1>10. Paced' /\ Sounds'
  BY <1>1, <1>4, <1>5, <1>6, <1>7 DEF Paced, Sounds, Quiet, Owing
<1>11. Stopped' /\ Owing' /\ Believed'
  BY <1>1, <1>2, <1>4, <1>5, <1>6, <1>7 DEF Stopped, Owing, Believed, Quiet
<1>12. Wanted => Wanted'
  BY <1>2, <1>4, <1>5 DEF Wanted, LoopRearms
<1>13. Silence => Silence'
  <2> SUFFICES ASSUME Silence PROVE Silence'
    OBVIOUS
  <2>1. turn = Nobody /\ turn' = turn /\ Nobody # Api
    BY <1>2 DEF Starts, Free, Nobody, Api, T
  <2>2. ~ToPlay
    BY <1>1, <1>7, <2>1, PlayMeans DEF Owing, Silence, HasTurn, ApiSounds
  <2>3. GreetAt \notin ToST \/ ClearAt = "wait"
    BY <1>1, <1>7 DEF Held, Silence, GreetSounds, ToST
  <2>4. ~ST /\ rabbit.play = "none"
    BY <1>1, <1>7 DEF Owing
  <2>5. Apart' /\ ~rabbit'.refused /\ HasTurn'
    BY <1>2, <1>4, <1>5, <2>1 DEF Silence, Apart, HasTurn
  <2>6. ApiSounds' /\ GreetSounds'
    BY <1>4, <1>5, <2>2, <2>3 DEF ApiSounds, GreetSounds, ToST
  <2>7. OnTheWay' /\ Playing'
    BY <1>4, <2>4 DEF OnTheWay, Playing
  <2> QED
    BY <2>5, <2>6, <2>7 DEF Silence
<1> QED
  BY <1>4, <1>8, <1>9, <1>10, <1>11, <1>12, <1>13 DEF PatientInv, Course

-----------------------------------------------------------------------------
\* A patient user, who speaks to the rabbit neither way.
Wordless == scenario.patient => scenario.wakes = 0 /\ "voice" \notin scenario.clients

\* It holds before the first connection.
LEMMA PatientInit ==
  ASSUME Init, Wordless, scenario.patient
  PROVE  PatientInv
<1>1. /\ \A t \in Threads : ctl[t] = <<>>
      /\ sess = 0 /\ ~link /\ toRabbit = <<>> /\ toServer = <<>>
      /\ rabbit.play = "none" /\ ~rabbit.arp /\ ~rabbit.rec /\ ~rabbit.deaf
      /\ \A s \in Sess : session[s].resource = "Boot" /\ ~session[s].bound /\ ~session[s].inited
      /\ WAKE.hold = 0 /\ ~WAKE.streaming /\ ~WAKE.rearm /\ ~WAKE.capturing /\ ~WAKE.cooling
      /\ WAKE.on => hasListen
  BY DEF Init
<1>2. sess \notin Sess
  BY <1>1, SpeakerMicAssumption DEF Sess
<1>3. /\ Rests
      /\ SessionAt = "done" /\ ApiAt = "done" /\ WakeAt = "done" /\ ClearAt = "done"
      /\ GreetAt = "done" /\ LaterAt = "done"
      /\ ~ToInit /\ ~ToPlay /\ ~TurnedOff /\ ~ToOwe
  BY <1>1, Finished
<1>4. ~ST /\ ~RT /\ ~RS /\ ~RSLast /\ OneST
  BY <1>1, NothingSent
<1>5. ~Inited /\ ~Bound
  BY <1>2 DEF Inited, Bound
<1>6. Setting
  BY <1>1 DEF Setting, Wordless
<1>7. Before /\ Held /\ Paced /\ Sounds
  BY <1>1, <1>3, <1>4, <1>5 DEF Before, Held, Paced, Sounds, ToST
<1>8. Stopped /\ Owing /\ Believed
  BY <1>1, <1>3, <1>4, <1>5 DEF Stopped, Owing, Believed
<1> QED
  BY <1>3, <1>6, <1>7, <1>8 DEF PatientInv, Course

\* Whatever thread takes a step keeps it.
LEMMA ThreadsCourse ==
  ASSUME HoldInv, PatientInv, NEW t \in Threads, Step(t)
  PROVE  PatientInv' /\ (Wanted => Wanted') /\ (Silence => Silence')
<1>1. Rests /\ Setting
  BY DEF PatientInv
<1>2. PICK op \in Taken : \E more : Goes(t, op, more) /\ Adds(op, more) /\ Effect(t, op)
  BY <1>1, StepIs
<1>3. PICK more : Goes(t, op, more) /\ Adds(op, more) /\ Effect(t, op)
  BY <1>2
<1>4. /\ sess \in Sess
      /\ t \in {Session, Api, Wake, <<"clear", sess>>, <<"jingle", sess>>, <<"listen", sess>>}
  BY <1>1, Heads DEF Step
<1>5. CASE t = Session
  BY <1>3, <1>5, SessionSteps
<1>6. CASE t = Api
  BY <1>3, <1>6, ApiSteps
<1>7. CASE t = Wake
  BY <1>3, <1>7, WakeSteps
<1>8. CASE t = <<"clear", sess>>
  BY <1>3, <1>4, <1>8, ClearSteps
<1>9. CASE t = <<"jingle", sess>>
  BY <1>3, <1>4, <1>9, GreetSteps
<1>10. CASE t = <<"listen", sess>>
  BY <1>3, <1>4, <1>10, LaterSteps
<1> QED
  BY <1>4, <1>5, <1>6, <1>7, <1>8, <1>9, <1>10

\* What moves no thread and asks for nothing changes nothing of what is wanted.
LEMMA WantedStays ==
  ASSUME Wanted, ThreadsStay, UNCHANGED wanted, scenario'.jingle = scenario.jingle,
         scenario'.autoListen = scenario.autoListen
  PROVE  Wanted'
BY DEF Wanted, ThreadsStay

\* What the user wants is left alone by the rabbit and by the network.
LEMMA WantedElsewhere ==
  ASSUME HoldInv, PatientInv, Wanted,
         Drop \/ AckTimeout \/ Rabbit \/ GoDeaf \/ UNCHANGED vars
  PROVE  Wanted'
<1>1. /\ UNCHANGED <<WAKE, hasListen, ctl, ref, copy, sess, wanted>>
      /\ scenario' = scenario \/ scenario' = [scenario EXCEPT !.deaf = @ - 1]
  BY DEF Drop, AckTimeout, Lost, Rabbit, RabbitStep, RabbitRS, RabbitRT, ArpReply, RabbitST,
     PlayStart, PlayEnd, IgnoresProgram, Applies, GoDeaf, vars, threads, wire
<1>2. scenario'.jingle = scenario.jingle /\ scenario'.autoListen = scenario.autoListen
  BY <1>1 DEF HoldInv, Types, TypeOK, Scenario
<1>3. \A s \in Sess : /\ session'[s].resource = session[s].resource
                      /\ session'[s].bound = session[s].bound
                      /\ session'[s].inited = session[s].inited
  <2>1. session \in SomeSession
    BY DEF HoldInv, Types, TypeOK, SomeSession
  <2>2. session' = session \/ session' = [session EXCEPT ![sess].soundAt = FALSE]
    BY DEF Drop, AckTimeout, Rabbit, RabbitStep, RabbitRS, RabbitRT, ArpReply, RabbitST,
       PlayStart, PlayEnd, IgnoresProgram, Applies, GoDeaf, vars
  <2> QED
    BY <2>1, <2>2, SoundForgotten
<1>4. ThreadsStay
  BY <1>1, <1>3, Unmoved
<1> QED
  BY <1>1, <1>2, <1>4, WantedStays

\* What is under way to the rabbit while it is silent, and what is left of it.
LEMMA ShortQueues ==
  /\ Head(<<"RT">>) = "RT" /\ Tail(<<"RT">>) = <<>>
  /\ Head(<<"ST">>) = "ST" /\ Tail(<<"ST">>) = <<>>
  /\ Head(<<"RT", "ST">>) = "RT" /\ Tail(<<"RT", "ST">>) = <<"ST">>
  /\ <<"ST">> # <<>> /\ <<"RT">> # <<>> /\ <<"RT", "ST">> # <<>> /\ <<"RT", "ST">> # <<"ST">>
BY Tails

\* The rabbit's own steps and the loss of a connection start no recording either.
LEMMA SilenceElsewhere ==
  ASSUME HoldInv, PatientInv, Silence,
         Drop \/ AckTimeout \/ Rabbit \/ GoDeaf \/ UNCHANGED vars
  PROVE  Silence'
<1>1. /\ UNCHANGED <<WAKE, hasListen, ctl, ref, copy, turn, sess>>
      /\ scenario' = scenario \/ scenario' = [scenario EXCEPT !.deaf = @ - 1]
  BY DEF Drop, AckTimeout, Lost, Rabbit, RabbitStep, RabbitRS, RabbitRT, ArpReply, RabbitST,
     PlayStart, PlayEnd, IgnoresProgram, Applies, GoDeaf, vars, threads, wire
<1>2. /\ scenario'.jingle = scenario.jingle /\ scenario'.prompt = scenario.prompt
      /\ scenario'.preempt = scenario.preempt
  BY <1>1 DEF HoldInv, Types, TypeOK, Scenario
<1>3. \A s \in Sess : /\ session'[s].resource = session[s].resource
                      /\ session'[s].bound = session[s].bound
                      /\ session'[s].inited = session[s].inited
  <2>1. session \in SomeSession
    BY DEF HoldInv, Types, TypeOK, SomeSession
  <2>2. session' = session \/ session' = [session EXCEPT ![sess].soundAt = FALSE]
    BY DEF Drop, AckTimeout, Rabbit, RabbitStep, RabbitRS, RabbitRT, ArpReply, RabbitST,
       PlayStart, PlayEnd, IgnoresProgram, Applies, GoDeaf, vars
  <2> QED
    BY <2>1, <2>2, SoundForgotten
<1>4. ThreadsStay
  BY <1>1, <1>3, Unmoved
<1>5. /\ Apart' /\ HasTurn'
      /\ Apart /\ ~rabbit.refused /\ HasTurn /\ ApiSounds /\ GreetSounds /\ OnTheWay /\ Playing
  BY <1>1, <1>2, <1>4 DEF Silence, Apart, HasTurn, ThreadsStay
<1>6. rabbit \in SomeRabbit /\ toRabbit \in Seq({"RT", "RS", "ST"}) /\ OneST
  BY DEF HoldInv, Types, TypeOK, SomeRabbit, PatientInv, Course, Paced
<1>7. toRabbit = <<>> => ~ST
  BY NothingSent
<1>8. toRabbit # <<>> /\ toRabbit' = Tail(toRabbit) =>
        /\ ST <=> ST' \/ Head(toRabbit) = "ST"
        /\ Head(toRabbit) = "ST" => ~ST'
  BY <1>6, Arrived
<1>9. toRabbit' = toRabbit => ST' = ST
  BY DEF ST
<1>10. CASE Drop \/ AckTimeout
  <2>1. /\ ~link' /\ toRabbit' = <<>> /\ rabbit' = [rabbit EXCEPT !.play = "none"]
    BY <1>10 DEF Drop, AckTimeout, Lost
  <2>2. /\ rabbit'.play = "none" /\ rabbit'.arp = rabbit.arp /\ rabbit'.refused = rabbit.refused
        /\ ~ST'
    BY <1>6, <2>1 DEF SomeRabbit, ST, Contains
  <2> QED
    BY <1>4, <1>5, <2>1, <2>2
    DEF Silence, ApiSounds, GreetSounds, OnTheWay, Playing, RTOnly, Hearing, ThreadsStay
<1>11. CASE RabbitRS
  <2>1. /\ toRabbit # <<>> /\ Head(toRabbit) = "RS" /\ toRabbit' = Tail(toRabbit)
        /\ rabbit'.play = rabbit.play /\ rabbit'.refused = rabbit.refused
    BY <1>6, <1>11 DEF RabbitRS, Applies, SomeRabbit
  <2>2. ~ToPlay /\ ~(GreetAt \in ToST /\ ClearAt # "wait") /\ ~ST' /\ rabbit.play = "none"
    BY <1>5, <1>8, <2>1, ShortQueues DEF ApiSounds, GreetSounds, OnTheWay, Playing, RTOnly
  <2> QED
    BY <1>4, <1>5, <2>1, <2>2 DEF Silence, ApiSounds, GreetSounds, OnTheWay, Playing, ThreadsStay
<1>12. CASE RabbitRT
  <2>1. /\ toRabbit # <<>> /\ Head(toRabbit) = "RT" /\ toRabbit' = Tail(toRabbit)
        /\ rabbit'.play = rabbit.play /\ rabbit'.refused = rabbit.refused
        /\ rabbit'.arp = rabbit.arp /\ ~rabbit'.rec
    BY <1>6, <1>12 DEF RabbitRT, Applies, SomeRabbit
  <2>2. /\ RTOnly => toRabbit' = <<>>
        /\ toRabbit \in {<<"ST">>, <<"RT", "ST">>} => toRabbit' = <<"ST">>
    BY <2>1, ShortQueues DEF RTOnly
  <2> QED
    BY <1>4, <1>5, <1>8, <2>1, <2>2
    DEF Silence, ApiSounds, GreetSounds, OnTheWay, Playing, RTOnly, Hearing, ThreadsStay
<1>13. CASE ArpReply
  <2>1. /\ rabbit.arp /\ toRabbit' = toRabbit /\ rabbit'.play = rabbit.play
        /\ rabbit'.refused = rabbit.refused
    BY <1>6, <1>13 DEF ArpReply, SomeRabbit
  <2>2. ~ToPlay /\ ~(GreetAt \in ToST /\ ClearAt # "wait") /\ ~ST' /\ rabbit.play = "none"
    BY <1>5, <1>9, <2>1 DEF ApiSounds, GreetSounds, OnTheWay, Playing
  <2> QED
    BY <1>4, <1>5, <2>1, <2>2 DEF Silence, ApiSounds, GreetSounds, OnTheWay, Playing, ThreadsStay
<1>14. CASE RabbitST
  <2>1. /\ toRabbit # <<>> /\ Head(toRabbit) = "ST" /\ toRabbit' = Tail(toRabbit) /\ ~rabbit.deaf
        /\ rabbit'.play = "fetching" /\ rabbit'.refused = rabbit.refused
        /\ rabbit'.arp = rabbit.arp /\ rabbit'.rec = rabbit.rec
    BY <1>6, <1>14 DEF RabbitST, Applies, SomeRabbit
  <2>2. ST /\ ~ST'
    BY <1>8, <2>1
  <2>3. toRabbit = <<"ST">> /\ toRabbit' = <<>> /\ ~rabbit.rec /\ ~rabbit.arp /\ WakeAt = "done"
    BY <1>5, <2>1, <2>2, ShortQueues DEF OnTheWay
  <2>4. ~ToPlay /\ ~(GreetAt \in ToST /\ ClearAt # "wait")
    BY <1>5, <2>3, ShortQueues DEF ApiSounds, GreetSounds, RTOnly
  <2> QED
    BY <1>4, <1>5, <2>1, <2>2, <2>3, <2>4
    DEF Silence, ApiSounds, GreetSounds, OnTheWay, Playing, ThreadsStay
<1>15. CASE PlayStart
  <2>1. /\ rabbit.play = "fetching" /\ toRabbit' = toRabbit
        /\ rabbit' = IF rabbit.rec THEN [rabbit EXCEPT !.play = "muted", !.refused = TRUE]
                     ELSE [rabbit EXCEPT !.play = "playing", !.rec = FALSE]
    BY <1>15 DEF PlayStart
  <2>2. /\ ~rabbit'.refused /\ ~rabbit'.rec /\ rabbit'.play = "playing" /\ rabbit'.arp = rabbit.arp
        /\ toRabbit = <<>> /\ ~ST' /\ ~rabbit.arp /\ WakeAt = "done"
    BY <1>5, <1>6, <1>7, <1>9, <2>1 DEF Playing, SomeRabbit
  <2> QED
    BY <1>4, <1>5, <2>1, <2>2
    DEF Silence, ApiSounds, GreetSounds, OnTheWay, Playing, RTOnly, Hearing, ThreadsStay
<1>16. CASE PlayEnd
  <2>1. /\ rabbit'.play = "none" /\ toRabbit' = toRabbit /\ rabbit'.refused = rabbit.refused
        /\ rabbit'.arp = rabbit.arp /\ rabbit'.rec = rabbit.rec /\ rabbit'.deaf = rabbit.deaf
        /\ UNCHANGED link
    BY <1>6, <1>16 DEF PlayEnd, RabbitStep, SomeRabbit
  <2> QED
    BY <1>4, <1>5, <1>9, <2>1
    DEF Silence, ApiSounds, GreetSounds, OnTheWay, Playing, RTOnly, Hearing, ThreadsStay
<1>17. CASE IgnoresProgram
  <2>1. /\ toRabbit # <<>> /\ toRabbit' = Tail(toRabbit) /\ rabbit.deaf /\ rabbit' = rabbit
    BY <1>17 DEF IgnoresProgram
  <2>2. /\ RTOnly => toRabbit' = <<>>
        /\ toRabbit = <<"ST">> => toRabbit' = <<>> /\ ~ST'
        /\ toRabbit = <<"RT", "ST">> => toRabbit' = <<"ST">>
    BY <1>8, <2>1, ShortQueues DEF RTOnly
  <2> QED
    BY <1>4, <1>5, <1>8, <2>1, <2>2
    DEF Silence, ApiSounds, GreetSounds, OnTheWay, Playing, RTOnly, Hearing, ThreadsStay
<1>18. CASE GoDeaf
  <2>1. /\ rabbit' = [rabbit EXCEPT !.deaf = TRUE] /\ toRabbit' = toRabbit
    BY <1>18 DEF GoDeaf, wire
  <2>2. /\ rabbit'.play = rabbit.play /\ rabbit'.refused = rabbit.refused /\ rabbit'.deaf
        /\ rabbit'.arp = rabbit.arp /\ rabbit'.rec = rabbit.rec
    BY <1>6, <2>1 DEF SomeRabbit
  <2> QED
    BY <1>4, <1>5, <1>9, <2>1, <2>2
    DEF Silence, ApiSounds, GreetSounds, OnTheWay, Playing, RTOnly, Hearing, ThreadsStay
<1>19. CASE UNCHANGED vars
  <2>1. toRabbit' = toRabbit /\ rabbit' = rabbit /\ link' = link
    BY <1>19 DEF vars, wire
  <2> QED
    BY <1>4, <1>5, <1>9, <2>1
    DEF Silence, ApiSounds, GreetSounds, OnTheWay, Playing, RTOnly, Hearing, ThreadsStay
<1> QED
  BY <1>10, <1>11, <1>12, <1>13, <1>14, <1>15, <1>16, <1>17, <1>18, <1>19 DEF Rabbit

\* Every step keeps all of it.
LEMMA PatientNext ==
  ASSUME HoldInv, PatientInv, [Next]_vars
  PROVE  PatientInv' /\ (Wanted => Wanted') /\ (Silence => Silence')
<1>1. CASE \E t \in Threads : Step(t)
  BY <1>1, ThreadsCourse
<1>2. CASE SessionThread
  BY <1>2, BindCourse, SessionCourse, InitCourse DEF SessionThread
<1>3. CASE \E request \in Requests : Ask(request)
  BY <1>3, AskCourse
<1>4. CASE LoopRearms \/ HearsWakeWord \/ CooldownOver
  BY <1>4, LoopCourse, Wordlessly DEF PatientInv
<1>5. CASE Drop \/ AckTimeout
  BY <1>5, LostSteps, WantedElsewhere, SilenceElsewhere
<1>6. CASE Connect
  BY <1>6, ConnectCourse
<1>7. CASE Rabbit
  <2>1. PatientInv'
    BY <1>7, RabbitRSCourse, RabbitRTCourse, RabbitSTCourse, ArpReplyCourse, PlayStartCourse,
       PlayEndCourse, IgnoresProgramCourse DEF Rabbit
  <2> QED
    BY <1>7, <2>1, WantedElsewhere, SilenceElsewhere
<1>8. CASE GoDeaf
  BY <1>8, GoDeafCourse, WantedElsewhere, SilenceElsewhere
<1>9. CASE UNCHANGED vars
  <2>1. UNCHANGED <<WAKE, hasListen, session, ctl, ref, copy, turn, sess, link, toRabbit, toServer,
                    rabbit, wanted, scenario>>
    BY <1>9 DEF vars, threads, wire
  <2>2. ThreadsStay /\ Rests'
    BY <2>1, Unmoved DEF PatientInv
  <2>3. ST' = ST /\ RT' = RT /\ RS' = RS /\ RSLast' = RSLast /\ OneST' = OneST
    BY <2>1 DEF ST, RT, RS, RSLast, OneST
  <2>4. Setting'
    BY <2>1 DEF PatientInv, Setting
  <2>5. Before' /\ Held' /\ Paced'
    BY <2>1, <2>2, <2>3 DEF PatientInv, Course, Before, Held, Paced, ThreadsStay, Quiet
  <2>6. Sounds' /\ Stopped' /\ Owing' /\ Believed'
    BY <2>1, <2>2, <2>3 DEF PatientInv, Course, Sounds, Stopped, Owing, Believed, ThreadsStay, Quiet
  <2> QED
    BY <1>9, <2>2, <2>4, <2>5, <2>6, WantedElsewhere, SilenceElsewhere DEF PatientInv, Course
<1> QED
  BY <1>1, <1>2, <1>3, <1>4, <1>5, <1>6, <1>7, <1>8, <1>9 DEF Next

\* Nobody becomes patient, or stops being it.
LEMMA PatientStays ==
  ASSUME HoldInv, [Next]_vars
  PROVE  scenario'.patient = scenario.patient
<1>1. scenario \in Scenario
  BY DEF HoldInv, Types, TypeOK
<1>2. \/ scenario' = scenario
      \/ scenario' = [scenario EXCEPT !.requests = @ - 1]
      \/ scenario' = [scenario EXCEPT !.wakes = @ - 1]
      \/ scenario' = [scenario EXCEPT !.deaf = @ - 1]
  BY DEF Next, vars, Step, SessionThread, HandleSession, HandleBind, Reads, InitSession, Ask,
     LoopRearms, HearsWakeWord, CooldownOver, Drop, AckTimeout, Connect, Lost, Rabbit, RabbitStep,
     RabbitRS, RabbitRT, ArpReply, RabbitST, PlayStart, PlayEnd, IgnoresProgram, Applies, GoDeaf
<1> QED
  BY <1>1, <1>2 DEF Scenario

\* The course of things holds throughout: what each thread may still have to do,
\* what is under way, and what the server owes the microphone.
THEOREM PatientInvariant == Spec /\ Wordless => [](scenario.patient => PatientInv)
<1> DEFINE I == scenario.patient => PatientInv
<1>1. Init /\ Wordless => I
  BY PatientInit
<1>2. ASSUME HoldInv, I, [Next]_vars
      PROVE  I'
  BY <1>2, PatientNext, PatientStays
<1>3. HoldInv /\ I /\ [Next]_vars => I'
  BY <1>2
<1> HIDE DEF I
<1>4. Spec /\ Wordless => []I
  BY <1>1, <1>3, HoldInvariant, PTL DEF Spec
<1> QED
  BY <1>4 DEF I

\* Where nothing more is to come, what the server believes of the microphone
\* (WAKE["streaming"]) is what the rabbit does.
THEOREM BeliefHolds == Spec /\ Wordless => []BeliefIsTrue
<1>1. ASSUME HoldInv, scenario.patient => PatientInv
      PROVE  BeliefIsTrue
  BY <1>1, SettledBelief DEF BeliefIsTrue
<1>2. HoldInv /\ (scenario.patient => PatientInv) => BeliefIsTrue
  BY <1>1
<1> QED
  BY <1>2, PatientInvariant, HoldInvariant, PTL

\* The user of a server that has a setting to go by, or no jingle to greet with.
Settable == scenario.patient => (scenario.jingle /\ scenario.autoListen => hasListen)

\* What is wanted at first is what the settings say.
LEMMA WantedInit ==
  ASSUME Init, Settable, scenario.patient
  PROVE  Wanted
<1>1. /\ \A t \in Threads : ctl[t] = <<>>
      /\ sess = 0 /\ (wanted <=> IF hasListen THEN WAKE.on ELSE scenario.autoListen)
      /\ WAKE.on => hasListen
  BY DEF Init
<1>2. ApiAt = "done" /\ LaterAt = "done" /\ ~TurnedOff
  BY <1>1, Finished
<1>3. ~Inited
  BY <1>1, SpeakerMicAssumption DEF Inited, Sess
<1> QED
  BY <1>1, <1>2, <1>3 DEF Wanted, Settable

\* What the user wants of the microphone is what the server remembers in WAKE["on"],
\* but while a request is under way and before the first start of a fresh install.
THEOREM WantedInvariant == Spec /\ Wordless /\ Settable => [](scenario.patient => Wanted)
<1> DEFINE I == scenario.patient => Wanted
           J == scenario.patient => PatientInv
<1>1. Init /\ Settable => I
  BY WantedInit
<1>2. ASSUME HoldInv, I, J, [Next]_vars
      PROVE  I'
  BY <1>2, PatientNext, PatientStays
<1>3. HoldInv /\ I /\ J /\ [Next]_vars => I'
  BY <1>2
<1>4. Spec /\ Wordless => []J
  BY PatientInvariant
<1> HIDE DEF I, J
<1>5. Spec /\ Wordless /\ Settable => []I
  BY <1>1, <1>3, <1>4, HoldInvariant, PTL DEF Spec
<1> QED
  BY <1>5 DEF I

\* Where nothing more is to come, the rabbit records if and only if the user wants it to.
THEOREM MicObeys == Spec /\ Wordless /\ Settable => []MicFollowsUser
<1>1. ASSUME HoldInv, scenario.patient => PatientInv, scenario.patient => Wanted, BeliefIsTrue
      PROVE  MicFollowsUser
  <2> SUFFICES ASSUME scenario.patient, Settled, ~rabbit.deaf
               PROVE  rabbit.rec <=> wanted
    BY DEF MicFollowsUser
  <2>1. Stopped /\ Wanted
    BY <1>1 DEF PatientInv, Course
  <2>2. /\ Inited /\ ApiAt = "done" /\ LaterAt = "done"
        /\ (WAKE.on => WAKE.streaming \/ WAKE.rearm) /\ ~WAKE.rearm
    BY <1>1, SettledMeans
  <2>3. WAKE.streaming <=> rabbit.rec
    BY <1>1 DEF BeliefIsTrue
  <2>4. WAKE.on <=> WAKE.streaming
    BY <2>1, <2>2 DEF Stopped
  <2>5. WAKE.on <=> wanted
    BY <2>1, <2>2 DEF Wanted
  <2> QED
    BY <2>3, <2>4, <2>5
<1>2. HoldInv /\ (scenario.patient => PatientInv) /\ (scenario.patient => Wanted) /\ BeliefIsTrue
        => MicFollowsUser
  BY <1>1
<1> QED
  BY <1>2, PatientInvariant, WantedInvariant, BeliefHolds, HoldInvariant, PTL

\* The patient user of a server whose threads run until they send or sleep, and, where it greets its rabbit,
\* a network and a rabbit that answer within the seconds it counts on.
Undisturbed == scenario.patient => Apart

\* Every sound the server pushes, asked for or the jingle, has the speaker to itself:
\* the rabbit refuses none for a capture under way.
THEOREM SoundHasSpeaker == Spec /\ Wordless /\ Undisturbed => []SoundGetsSpeaker
<1> DEFINE I == scenario.patient => Silence
           J == scenario.patient => PatientInv
<1>1. Init /\ Undisturbed => I
  <2> SUFFICES ASSUME Init, Undisturbed, scenario.patient
               PROVE  Silence
    OBVIOUS
  <2>1. /\ \A t \in Threads : ctl[t] = <<>>
        /\ toRabbit = <<>> /\ rabbit.play = "none" /\ ~rabbit.refused
    BY DEF Init
  <2>2. ApiAt = "done" /\ GreetAt = "done" /\ ~ToPlay
    BY <2>1, Finished
  <2> QED
    BY <2>1, <2>2, NothingSent
    DEF Silence, Undisturbed, HasTurn, ApiSounds, GreetSounds, ToST, OnTheWay, Playing
<1>2. ASSUME HoldInv, I, J, [Next]_vars
      PROVE  I'
  BY <1>2, PatientNext, PatientStays
<1>3. HoldInv /\ I /\ J /\ [Next]_vars => I'
  BY <1>2
<1>4. I => SoundGetsSpeaker
  BY DEF Silence, SoundGetsSpeaker
<1>5. Spec /\ Wordless => []J
  BY PatientInvariant
<1> HIDE DEF I, J
<1> QED
  BY <1>1, <1>3, <1>4, <1>5, HoldInvariant, PTL DEF Spec
=============================================================================
