----------------------------- MODULE XmppStream -----------------------------
(***************************************************************************)
(* One rabbit, one XMPP connection, byte by byte: the incremental parser   *)
(* (XmppSession._feed) on segments cut anywhere, and the handshake that    *)
(* _handle_stanza answers, from the first stream header to the presence    *)
(* that makes the rabbit act on what it is pushed.                         *)
(*                                                                         *)
(* A text is a sequence of lexemes, and cuts fall between them.  One that  *)
(* falls right after "<", or before "<?xml" or "</stream:stream" is whole, *)
(* makes the parser drop the "<" and what it has of the name: the cut      *)
(* right after "<" stands for these.  Inside any other lexeme it leaves    *)
(* the parser waiting, as one before "?>" and "/>" or after a name does.   *)
(***************************************************************************)
EXTENDS Integers, SequencesExt

CONSTANTS CutsAnywhere,    \* may a segment end right after a "<"?
          Credentials,     \* the set of BOOLEAN: does the rabbit have credentials?
          MaxAsides        \* unsolicited texts: keepalives, pings, buttons, ears

ASSUME XmppStreamAssumption ==
  /\ CutsAnywhere \in BOOLEAN
  /\ Credentials \subseteq BOOLEAN
  /\ MaxAsides \in Nat

VARIABLES buf,        \* XmppSession.buf
          pc,         \* the session's thread: "recv" or "parse"
          alive, authed, bound, resource, knowsMac,   \* its attributes
          wire,       \* what the rabbit has sent and recv() has not returned
          toRabbit,   \* answers on their way to the rabbit
          rabbit,     \* the step of the rabbit's script it is at
          needs,      \* does the rabbit have to register first?
          waiting,    \* the answers the rabbit waits for, in order
          rabbitRes,  \* the resource the rabbit has bound last
          said, handled,      \* histories: the stanzas said, and those handled
          asides              \* how many asides were made

server == <<buf, pc, alive, authed, bound, resource, knowsMac, handled>>
peer == <<rabbit, needs, rabbitRes, said, asides>>
vars == <<server, wire, toRabbit, peer, waiting>>
-----------------------------------------------------------------------------
(* What the rabbit writes.  A unit is written in one go.                   *)
IqKinds == {"register?", "register!", "bind_boot", "bind_idle", "session",
            "sources", "unbind_boot", "ping"}
MessageKinds == {"button", "ears"}

Element(tag, close, kind) ==
  <<"<", tag, ">", "<", kind, "/>", "<", close, ">">>

Text(unit) ==
  CASE unit = "open"     -> <<"<", "?xml", "?>", "<", "stream:stream", ">">>
    [] unit = "close"    -> <<"<", "/stream:stream", ">">>
    [] unit = "space"    -> <<"blank">>
    [] unit = "auth"     -> <<"<", "auth", "/>">>
    [] unit = "response" -> <<"<", "response", ">", "digest", "<", "/response", ">">>
    [] unit = "presence" -> <<"<", "presence", "/>">>
    [] unit \in IqKinds  -> Element("iq", "/iq", unit)
    [] unit \in MessageKinds -> Element("message", "/message", unit)

CloseOf == [iq |-> "/iq", message |-> "/message", auth |-> "/auth",
            response |-> "/response", presence |-> "/presence"]
Children == IqKinds \cup MessageKinds
-----------------------------------------------------------------------------
(* One turn of the loop of _feed on the text t: what it takes off its      *)
(* front, and what is left.                                                *)
From(t, i) == SubSeq(t, i, Len(t))

\* str.find: the first of the places, 0 if there is none.
First(places) == IF places = {} THEN 0 ELSE Min(places)

Strip(t) ==
  LET i == First({j \in 1..Len(t) : t[j] # "blank"})
  IN  IF i = 0 THEN <<>> ELSE From(t, i)

StartsWith(t, name) == Len(t) >= 2 /\ t[1] = "<" /\ t[2] = name
EndOfTag(t) == First({j \in 1..Len(t) : t[j] \in {">", "/>", "?>"}})

Turn(take, what, rest) == [take |-> take, what |-> what, rest |-> rest]
Wait(t) == Turn("wait", <<>>, t)

\* What follows a "<" that no name follows, or that is no "<", is dropped up to
\* the next "<".
Resync(t) ==
  LET i == First({j \in 2..Len(t) : t[j] = "<"})
  IN  Turn("junk", <<>>, IF i = 0 THEN <<>> ELSE From(t, i))

IsName(x) == x \in DOMAIN CloseOf \cup Children
EndOfElement(t, from) ==
  LET end == First({j \in from..Len(t) : t[2] \in DOMAIN CloseOf /\ t[j] = CloseOf[t[2]]})
  IN  IF end # 0 /\ end < Len(t) THEN end + 1 ELSE 0

\* Mutant: a stanza whose end has not come yet is handed over as it is.
StanzaHandsOverIncomplete(t) ==
  IF EndOfTag(t) = 0 THEN Wait(t) ELSE Turn("stanza", t, <<>>)

Stanza(t) ==
  LET open  == EndOfTag(t)
      close == EndOfElement(t, open + 1)
  IN  CASE open = 0 -> Wait(t)
        [] open # 0 /\ t[open] = "/>" -> Turn("stanza", SubSeq(t, 1, open), From(t, open + 1))
        [] open # 0 /\ t[open] # "/>" /\ close = 0 -> Wait(t)
        [] OTHER -> Turn("stanza", SubSeq(t, 1, close), From(t, close + 1))

Scan(t) ==
  CASE t = <<>> -> Wait(t)
    [] StartsWith(t, "?xml") ->
         IF EndOfTag(t) = 0 THEN Wait(t) ELSE Turn("junk", <<>>, From(t, EndOfTag(t) + 1))
    [] StartsWith(t, "/stream:stream") -> Turn("close", <<>>, t)
    [] StartsWith(t, "stream:stream") ->
         IF EndOfTag(t) = 0 THEN Wait(t) ELSE Turn("open", <<>>, From(t, EndOfTag(t) + 1))
    [] Len(t) >= 2 /\ t[1] = "<" /\ IsName(t[2]) -> Stanza(t)
    [] OTHER -> Resync(t)
-----------------------------------------------------------------------------
Init ==
  /\ buf = <<>> /\ pc = "recv"
  /\ alive = TRUE /\ authed = FALSE /\ bound = FALSE
  /\ resource = "Boot" /\ knowsMac = FALSE
  /\ wire = <<>> /\ toRabbit = <<>> 
  /\ rabbit = "dials" /\ needs \in {~c : c \in Credentials} /\ rabbitRes = "Boot"
  /\ waiting = <<>> /\ said = <<>> /\ handled = <<>> /\ asides = 0

\* recv() returns what TCP has, cut where the segments happen to end.
Recv(n) ==
  /\ pc = "recv" /\ alive
  /\ n \in 1..Len(wire)
  /\ CutsAnywhere \/ wire[n] # "<"
  /\ buf' = buf \o SubSeq(wire, 1, n)
  /\ wire' = From(wire, n + 1)
  /\ pc' = "parse"
  /\ UNCHANGED <<alive, authed, bound, resource, knowsMac, handled,
                 toRabbit, peer, waiting>>

\* The one turn the loop of _feed takes next, as a set so that it is computed once.
Turns == {Scan(t) : t \in {Strip(buf)}}

\* _feed gives up until more has come.
Waits ==
  /\ pc = "parse"
  /\ \E turn \in Turns : turn.take = "wait" /\ buf' = turn.rest
  /\ pc' = "recv"
  /\ UNCHANGED <<alive, authed, bound, resource, knowsMac, handled,
                 wire, toRabbit, peer, waiting>>

\* An XML declaration, or what cannot be the start of a stanza.
Skips ==
  /\ pc = "parse"
  /\ \E turn \in Turns : turn.take = "junk" /\ buf' = turn.rest
  /\ UNCHANGED <<pc, alive, authed, bound, resource, knowsMac, handled,
                 wire, toRabbit, peer, waiting>>

\* </stream:stream>: the loops of _feed and of run both end.
StreamCloses ==
  /\ pc = "parse"
  /\ \E turn \in Turns : turn.take = "close"
  /\ alive' = FALSE
  /\ pc' = "recv"
  /\ UNCHANGED <<buf, authed, bound, resource, knowsMac, handled,
                 wire, toRabbit, peer, waiting>>

\* _on_stream_open: the features depend on whether the rabbit has authenticated.
\* Mutant: the stream the rabbit restarts once authenticated is offered SASL again.
StreamOpensForgetsAuth ==
  /\ pc = "parse"
  /\ \E turn \in Turns : turn.take = "open" /\ buf' = turn.rest
  /\ handled' = Append(handled, "open")
  /\ toRabbit' = Append(toRabbit, "features_sasl")
  /\ UNCHANGED <<pc, alive, authed, bound, resource, knowsMac, wire, peer, waiting>>

StreamOpens ==
  /\ pc = "parse"
  /\ \E turn \in Turns : turn.take = "open" /\ buf' = turn.rest
  /\ handled' = Append(handled, "open")
  /\ toRabbit' = Append(toRabbit, IF authed THEN "features_bind" ELSE "features_sasl")
  /\ UNCHANGED <<pc, alive, authed, bound, resource, knowsMac,
                 wire, peer, waiting>>
-----------------------------------------------------------------------------
(* _handle_stanza.  Its branches look for substrings, in this order.       *)
In(word, st) == \E i \in DOMAIN st : st[i] = word
Iq(st) == StartsWith(st, "iq")
Resources == [x \in {"bind_boot", "bind_idle", "unbind_boot"} |->
                IF x = "bind_idle" THEN "idle" ELSE "boot"]
BindNamespace(st) == {x \in DOMAIN Resources : In(x, st)}
\* Mutant: the whole element instead of the text of <resource>.
BoundResourceUntrimmed(st) == CHOOSE x \in BindNamespace(st) : TRUE

BoundResource(st) == Resources[CHOOSE x \in BindNamespace(st) : TRUE]
\* Mutant: <unbind> shares the namespace and is taken for a bind.
IsBindTakesUnbind(st) == BindNamespace(st) # {} /\ Iq(st)

IsBind(st) == BindNamespace(st) # {} /\ Iq(st) /\ ~In("unbind_boot", st)

Branch(st) ==
  CASE Iq(st) /\ In("register!", st) -> "credentials"
    [] Iq(st) /\ In("register?", st) -> "register"
    [] StartsWith(st, "auth") -> "auth"
    [] StartsWith(st, "response") -> "response"
    [] IsBind(st) -> "bind"
    [] Iq(st) /\ In("session", st) -> "session"
    [] Iq(st) /\ In("sources", st) -> "sources"
    [] Iq(st) /\ In("unbind_boot", st) -> "unbind"
    [] Iq(st) /\ In("ping", st) -> "ping"
    [] StartsWith(st, "presence") -> "presence"
    [] In("button", st) -> "button"
    [] In("ears", st) -> "ears"
    [] OTHER -> "logged"

\* Mutant: the server logs the rabbit's presence and leaves it at that.
AnswersWithoutPresence ==
  [register |-> "form", credentials |-> "registered", auth |-> "challenge",
   response |-> "success", session |-> "result_session", sources |-> "init_packet",
   unbind |-> "result_unbind", ping |-> "result_ping"]

Answers == [register |-> "form", credentials |-> "registered", auth |-> "challenge",
            response |-> "success", session |-> "result_session",
            sources |-> "init_packet", unbind |-> "result_unbind",
            ping |-> "result_ping", presence |-> "presence"]

\* The jid in the answer to a bind ends in the resource.
Jid(res) == IF res = "idle" THEN "jid_idle" ELSE "jid_boot"

Answer(st) ==
  LET b == Branch(st)
  IN  CASE b = "bind" -> <<Jid(BoundResource(st))>>
        [] b \in DOMAIN Answers -> <<Answers[b]>>
        [] OTHER -> <<>>

\* The kind of a stanza, for the histories: what the rabbit called it.
KindOf(st) ==
  LET i == First({j \in DOMAIN st : st[j] \in Children})
  IN  IF i = 0 THEN st[2] ELSE st[i]

Handle ==
  /\ pc = "parse"
  /\ \E turn \in Turns :
       /\ turn.take = "stanza"
       /\ LET st == turn.what
              b  == Branch(st)
          IN  /\ handled' = Append(handled, KindOf(st))
              /\ toRabbit' = toRabbit \o Answer(st)
              /\ authed' = (authed \/ b = "response")
              /\ bound' = (bound \/ b \in {"session", "unbind"})
              /\ knowsMac' = (knowsMac \/ b \in {"credentials", "bind"})
              /\ resource' = IF b = "bind" THEN BoundResource(st) ELSE resource
       /\ buf' = turn.rest
  /\ UNCHANGED <<pc, alive, wire, peer, waiting>>
-----------------------------------------------------------------------------
(* The rabbit's bytecode: it says the next unit of its script once the     *)
(* answer to the one before has come.                                      *)
Script ==
  [ dials    |-> [says |-> "open",        awaits |-> "features_sasl",  then |-> "greeted"],
    asks     |-> [says |-> "register?",   awaits |-> "form",           then |-> "fills"],
    fills    |-> [says |-> "register!",   awaits |-> "registered",     then |-> "auths"],
    auths    |-> [says |-> "auth",        awaits |-> "challenge",      then |-> "responds"],
    responds |-> [says |-> "response",    awaits |-> "success",        then |-> "restarts"],
    restarts |-> [says |-> "open",        awaits |-> "features_bind",  then |-> "binds"],
    binds    |-> [says |-> "bind_boot",   awaits |-> "jid_boot",       then |-> "sessions"],
    sessions |-> [says |-> "session",     awaits |-> "result_session", then |-> "sources"],
    sources  |-> [says |-> "sources",     awaits |-> "init_packet",    then |-> "rebinds"],
    rebinds  |-> [says |-> "bind_idle",   awaits |-> "jid_idle",       then |-> "resumes"],
    resumes  |-> [says |-> "session",     awaits |-> "result_session", then |-> "unbinds"],
    unbinds  |-> [says |-> "unbind_boot", awaits |-> "result_unbind",  then |-> "appears"],
    appears  |-> [says |-> "presence",    awaits |-> "presence",       then |-> "free"] ]

RabbitSays ==
  /\ rabbit \in DOMAIN Script /\ waiting = <<>>
  /\ LET s == Script[rabbit]
     IN  /\ wire' = wire \o Text(s.says)
         /\ said' = Append(said, s.says)
         /\ waiting' = <<s.awaits>>
         /\ rabbitRes' = IF s.says \in {"bind_boot", "bind_idle"}
                         THEN Resources[s.says] ELSE rabbitRes
         /\ rabbit' = s.then
  /\ UNCHANGED <<server, toRabbit, needs, asides>>

\* It reads one answer; only the one it waits for takes it further.
RabbitReads ==
  /\ toRabbit # <<>> /\ waiting # <<>>
  /\ Head(toRabbit) = Head(waiting)
  /\ toRabbit' = Tail(toRabbit) /\ waiting' = Tail(waiting)
  /\ UNCHANGED <<server, wire, peer>>

\* Greeted by the features, it registers first if it has no credentials.
RabbitChooses ==
  /\ rabbit = "greeted" /\ waiting = <<>>
  /\ rabbit' = IF needs THEN "asks" ELSE "auths"
  /\ UNCHANGED <<server, wire, toRabbit, needs, rabbitRes, said, asides, waiting>>

\* Keepalives come at any time after the first header, the others once free.
Aside(unit) ==
  /\ asides < MaxAsides
  /\ rabbit = "free" \/ (unit = "space" /\ rabbit \notin {"dials", "left"})
  /\ wire' = wire \o Text(unit)
  /\ said' = IF unit \in {"space", "close"} THEN said ELSE Append(said, unit)
  /\ waiting' = IF unit = "ping" THEN Append(waiting, "result_ping") ELSE waiting
  /\ rabbit' = IF unit = "close" THEN "left" ELSE rabbit
  /\ asides' = asides + 1
  /\ UNCHANGED <<server, toRabbit, needs, rabbitRes>>

Asides == {"space", "ping", "button", "ears", "close"}
-----------------------------------------------------------------------------
Parse == Waits \/ Skips \/ StreamCloses \/ StreamOpens \/ Handle
Receive == \E n \in 1..Len(wire) : Recv(n)

Next ==
  \/ Receive
  \/ Parse
  \/ RabbitSays \/ RabbitReads \/ RabbitChooses
  \/ \E unit \in Asides : Aside(unit)

Spec == Init /\ [][Next]_vars

\* The session's thread runs, TCP delivers, and the rabbit follows its script.
FairSpec ==
  Spec /\ WF_vars(Receive) /\ WF_vars(Parse)
       /\ WF_vars(RabbitSays) /\ WF_vars(RabbitReads) /\ WF_vars(RabbitChooses)
=============================================================================
