-------------------------- MODULE XmppStreamProofs --------------------------
(***************************************************************************)
(* The stream and its handshake, for rabbits with or without credentials   *)
(* and any number of asides: the parser hands over what was said, however  *)
(* TCP cut it, and the handshake stays in step.                            *)
(***************************************************************************)
EXTENDS XmppStreamProps, SequenceTheorems, FiniteSetTheorems, TLAPS

\* What is said, and handed over; what is answered, and how.
Units == IqKinds \cup MessageKinds \cup {"auth", "response", "presence"}
Heard == Units \cup {"open"}
Answered == Heard \ MessageKinds
ReplyOf(u) ==
  CASE u = "register?"   -> "form"
    [] u = "register!"   -> "registered"
    [] u = "auth"        -> "challenge"
    [] u = "response"    -> "success"
    [] u = "bind_boot"   -> "jid_boot"
    [] u = "bind_idle"   -> "jid_idle"
    [] u = "session"     -> "result_session"
    [] u = "sources"     -> "init_packet"
    [] u = "unbind_boot" -> "result_unbind"
    [] u = "ping"        -> "result_ping"
    [] u = "presence"    -> "presence"
Reply(u, a) ==
  IF u = "open" THEN (IF a THEN "features_bind" ELSE "features_sasl") ELSE ReplyOf(u)

\* The text T is a stanza of one tag, or one with a closing tag at its end.
Single(T) == Len(T) = 3 /\ T[3] = "/>"
Double(T) ==
  /\ Len(T) \in Nat /\ Len(T) >= 7 /\ T[3] = ">" /\ T[Len(T) - 1] = CloseOf[T[2]]
  /\ \A j \in 4..(Len(T) - 2) : T[j] # CloseOf[T[2]]
StanzaText(T) == T[1] = "<" /\ T[2] \in DOMAIN CloseOf /\ (Single(T) \/ Double(T))

\* t begins as T does after its first b lexemes.
Follows(t, T, b) == \A k \in 1..Len(t) : b + k <= Len(T) => t[k] = T[b + k]
-----------------------------------------------------------------------------
\* The least of the places is the first,
LEMMA FirstIs ==
  ASSUME NEW P, P \subseteq Int, NEW k \in P, \A j \in P : k <= j
  PROVE  First(P) = k
<1>1. \E x \in P : \A y \in P : x <= y
  OBVIOUS
<1>2. Min(P) \in P /\ \A y \in P : Min(P) <= y
  BY <1>1 DEF Min
<1>3. Min(P) <= k /\ k <= Min(P) /\ Min(P) \in Int /\ k \in Int
  BY <1>2
<1>4. Min(P) = k
  BY ONLY <1>3
<1> QED  BY <1>4 DEF First

\* and where there is none it is 0.
LEMMA FirstNone == First({}) = 0
BY DEF First

\* The text of each unit.
LEMMA Texts ==
  /\ Text("open") = <<"<", "?xml", "?>", "<", "stream:stream", ">">>
  /\ Text("close") = <<"<", "/stream:stream", ">">>
  /\ Text("space") = <<"blank">>
  /\ Text("auth") = <<"<", "auth", "/>">>
  /\ Text("response") = <<"<", "response", ">", "digest", "<", "/response", ">">>
  /\ Text("presence") = <<"<", "presence", "/>">>
  /\ \A u \in IqKinds : Text(u) = <<"<", "iq", ">", "<", u, "/>", "<", "/iq", ">">>
  /\ \A u \in MessageKinds : Text(u) = <<"<", "message", ">", "<", u, "/>", "<", "/message", ">">>
<1>1. Text("open") = <<"<", "?xml", "?>", "<", "stream:stream", ">">>
  BY DEF Text, IqKinds, MessageKinds
<1>2. Text("close") = <<"<", "/stream:stream", ">">>
  BY DEF Text, IqKinds, MessageKinds
<1>3. Text("space") = <<"blank">>
  BY DEF Text, IqKinds, MessageKinds
<1>4. Text("auth") = <<"<", "auth", "/>">>
  BY DEF Text, IqKinds, MessageKinds
<1>5. Text("response") = <<"<", "response", ">", "digest", "<", "/response", ">">>
  BY DEF Text, IqKinds, MessageKinds
<1>6. Text("presence") = <<"<", "presence", "/>">>
  BY DEF Text, IqKinds, MessageKinds
<1>7. \A u \in IqKinds : Text(u) = <<"<", "iq", ">", "<", u, "/>", "<", "/iq", ">">>
  <2> SUFFICES ASSUME NEW u \in IqKinds
               PROVE  Text(u) = Element("iq", "/iq", u)
    BY DEF Element
  <2> QED  BY DEF Text, IqKinds, MessageKinds
<1>8. \A u \in MessageKinds : Text(u) = <<"<", "message", ">", "<", u, "/>", "<", "/message", ">">>
  <2> SUFFICES ASSUME NEW u \in MessageKinds
               PROVE  Text(u) = Element("message", "/message", u)
    BY DEF Element
  <2> QED  BY DEF Text, IqKinds, MessageKinds
<1> QED  BY <1>1, <1>2, <1>3, <1>4, <1>5, <1>6, <1>7, <1>8

\* An element of one tag.
LEMMA SingleText ==
  ASSUME NEW tag \in DOMAIN CloseOf, NEW T, T = <<"<", tag, "/>">>
  PROVE  StanzaText(T) /\ Len(T) = 3 /\ \A j \in 1..3 : T[j] \in {"<", tag, "/>"}
<1>1. Len(T) = 3 /\ T[1] = "<" /\ T[2] = tag /\ T[3] = "/>"
  OBVIOUS
<1>2. \A j \in 1..3 : j = 1 \/ j = 2 \/ j = 3
  OBVIOUS
<1> QED  BY ONLY <1>1, <1>2, tag \in DOMAIN CloseOf DEF StanzaText, Single

\* The response has text inside and a closing tag.
LEMMA ResponseText ==
  ASSUME NEW T, T = <<"<", "response", ">", "digest", "<", "/response", ">">>
  PROVE  /\ StanzaText(T) /\ Len(T) = 7
         /\ \A j \in 1..7 : T[j] \in {"<", "response", ">", "digest", "/response"}
<1>1. /\ Len(T) = 7 /\ T[1] = "<" /\ T[2] = "response" /\ T[3] = ">" /\ T[4] = "digest"
      /\ T[5] = "<" /\ T[6] = "/response" /\ T[7] = ">"
  OBVIOUS
<1>2. \A j \in 1..7 : j = 1 \/ j = 2 \/ j = 3 \/ j = 4 \/ j = 5 \/ j = 6 \/ j = 7
  OBVIOUS
<1>3. \A j \in 4..(Len(T) - 2) : j = 4 \/ j = 5
  BY ONLY <1>1
<1>4. "response" \in DOMAIN CloseOf /\ CloseOf["response"] = "/response"
  BY DEF CloseOf
<1>5. Len(T) >= 7 /\ Len(T) \in Nat /\ Len(T) - 1 = 6
  BY ONLY <1>1
<1>6. Double(T)
  BY ONLY <1>1, <1>3, <1>4, <1>5 DEF Double
<1>7. StanzaText(T)
  BY ONLY <1>1, <1>4, <1>6 DEF StanzaText
<1> QED  BY ONLY <1>1, <1>2, <1>7

\* So has an element around a child.
LEMMA ElementText ==
  ASSUME NEW tag \in DOMAIN CloseOf, NEW u, u \notin {CloseOf[tag], "blank"}, tag # "blank",
         CloseOf[tag] \notin {"<", "/>", "blank"},
         NEW T, Len(T) = 9, T[1] = "<", T[2] = tag, T[3] = ">", T[4] = "<", T[5] = u,
         T[6] = "/>", T[7] = "<", T[8] = CloseOf[tag], T[9] = ">"
  PROVE  StanzaText(T) /\ \A j \in 1..9 : T[j] # "blank"
<1>2. \A j \in 1..9 : \/ j = 1 \/ j = 2 \/ j = 3 \/ j = 4 \/ j = 5 \/ j = 6 \/ j = 7 \/ j = 8 \/ j = 9
  BY ONLY TRUE
<1>3. \A j \in 4..(Len(T) - 2) : j = 4 \/ j = 5 \/ j = 6 \/ j = 7
  BY ONLY Len(T) = 9
<1>5. Len(T) >= 7 /\ Len(T) \in Nat /\ Len(T) - 1 = 8
  BY ONLY Len(T) = 9
<1>6. Double(T)
  BY <1>3, <1>5 DEF Double
<1>7. StanzaText(T)
  BY <1>6 DEF StanzaText
<1> QED  BY <1>2, <1>7

\* Every stanza has the shape the parser looks for.
LEMMA UnitShapes ==
  ASSUME NEW u \in Units
  PROVE  /\ StanzaText(Text(u)) /\ Len(Text(u)) \in {3, 7, 9}
         /\ \A j \in 1..Len(Text(u)) : Text(u)[j] # "blank"
<1>1. CASE u \in {"auth", "presence"}
  <2>1. u \in DOMAIN CloseOf /\ u # "blank"
    BY <1>1 DEF CloseOf
  <2>2. Text(u) = <<"<", u, "/>">>
    BY <1>1, Texts
  <2> QED  BY <2>1, <2>2, SingleText
<1>2. CASE u = "response"
  <2>1. Text(u) = <<"<", "response", ">", "digest", "<", "/response", ">">>
    BY <1>2, Texts
  <2> HIDE <1>2
  <2> QED  BY <2>1, ResponseText
<1>3. CASE u \in IqKinds
  <2>1. "iq" \in DOMAIN CloseOf /\ CloseOf["iq"] = "/iq"
    BY DEF CloseOf
  <2>2. u # "/iq" /\ u # "blank"
    BY <1>3 DEF IqKinds
  <2>3. Text(u) = <<"<", "iq", ">", "<", u, "/>", "<", CloseOf["iq"], ">">>
    BY <1>3, <2>1, Texts
  <2>4. CloseOf["iq"] \notin {"<", "/>", "blank"} /\ "iq" # "blank"
    BY ONLY <2>1
  <2>6. LET T == Text(u) IN
          /\ Len(T) = 9 /\ T[1] = "<" /\ T[2] = "iq" /\ T[3] = ">" /\ T[4] = "<" /\ T[5] = u
          /\ T[6] = "/>" /\ T[7] = "<" /\ T[8] = CloseOf["iq"] /\ T[9] = ">"
    BY ONLY <2>3
  <2>7. StanzaText(Text(u)) /\ \A j \in 1..9 : Text(u)[j] # "blank"
    BY <2>1, <2>2, <2>4, <2>6, ElementText
  <2> QED  BY <2>6, <2>7
<1>4. CASE u \in MessageKinds
  <2>1. "message" \in DOMAIN CloseOf /\ CloseOf["message"] = "/message"
    BY DEF CloseOf
  <2>2. u # "/message" /\ u # "blank"
    BY <1>4 DEF MessageKinds
  <2>3. Text(u) = <<"<", "message", ">", "<", u, "/>", "<", CloseOf["message"], ">">>
    BY <1>4, <2>1, Texts
  <2>4. CloseOf["message"] \notin {"<", "/>", "blank"} /\ "message" # "blank"
    BY ONLY <2>1
  <2>6. LET T == Text(u) IN
          /\ Len(T) = 9 /\ T[1] = "<" /\ T[2] = "message" /\ T[3] = ">" /\ T[4] = "<" /\ T[5] = u
          /\ T[6] = "/>" /\ T[7] = "<" /\ T[8] = CloseOf["message"] /\ T[9] = ">"
    BY ONLY <2>3
  <2>7. StanzaText(Text(u)) /\ \A j \in 1..9 : Text(u)[j] # "blank"
    BY <2>1, <2>2, <2>4, <2>6, ElementText
  <2> QED  BY <2>6, <2>7
<1> QED  BY <1>1, <1>2, <1>3, <1>4 DEF Units

\* The header and the end of the stream, by their lexemes.
LEMMA StreamTexts ==
  /\ Len(Text("open")) = 6 /\ Text("open")[1] = "<" /\ Text("open")[2] = "?xml" /\ Text("open")[3] = "?>"
  /\ Text("open")[4] = "<" /\ Text("open")[5] = "stream:stream" /\ Text("open")[6] = ">"
  /\ Len(Text("close")) = 3 /\ Text("close")[1] = "<" /\ Text("close")[2] = "/stream:stream"
  /\ Text("close")[3] = ">" /\ Len(Text("space")) = 1 /\ Text("space")[1] = "blank"
<1>1. \A T : T = <<"<", "?xml", "?>", "<", "stream:stream", ">">> =>
         /\ Len(T) = 6 /\ T[1] = "<" /\ T[2] = "?xml" /\ T[3] = "?>"
         /\ T[4] = "<" /\ T[5] = "stream:stream" /\ T[6] = ">"
  OBVIOUS
<1>2. \A T : T = <<"<", "/stream:stream", ">">> =>
         Len(T) = 3 /\ T[1] = "<" /\ T[2] = "/stream:stream" /\ T[3] = ">"
  OBVIOUS
<1>3. \A x : Len(<<x>>) = 1 /\ <<x>>[1] = x
  OBVIOUS
<1>4. Len(Text("space")) = 1 /\ Text("space")[1] = "blank"
  BY <1>3, Texts, Zenon
<1> QED  BY <1>1, <1>2, <1>4, Texts, Zenon

\* The parser finds a whole stanza,
LEMMA ScanFull ==
  ASSUME NEW T, StanzaText(T), NEW t, Len(t) \in Nat, Follows(t, T, 0), Len(t) >= Len(T)
  PROVE  Scan(t) = Turn("stanza", SubSeq(t, 1, Len(T)), From(t, Len(T) + 1))
<1>1. Len(T) \in Nat /\ Len(T) >= 3 /\ Len(t) \in Nat
  BY DEF StanzaText, Single, Double
<1>2. \A k \in 1..Len(T) : k \in 1..Len(t) /\ t[k] = T[k]
  BY <1>1 DEF Follows
<1>3. t[1] = "<" /\ t[2] = T[2] /\ t[3] = T[3] /\ 3 \in 1..Len(t)
  BY <1>1, <1>2 DEF StanzaText
<1>4. T[2] \in {"iq", "message", "auth", "response", "presence"}
  BY DEF StanzaText, CloseOf
<1>5. Scan(t) = Stanza(t)
  <2>1. t # <<>> /\ Len(t) >= 2
    BY <1>1
  <2>2. ~StartsWith(t, "?xml") /\ ~StartsWith(t, "/stream:stream") /\ ~StartsWith(t, "stream:stream")
    BY <1>3, <1>4 DEF StartsWith
  <2>3. IsName(t[2])
    BY <1>3, <1>4 DEF IsName, CloseOf
  <2> QED  BY <2>1, <2>2, <2>3, <1>3 DEF Scan
<1>6. EndOfTag(t) = 3
  <2> DEFINE P == {j \in 1..Len(t) : t[j] \in {">", "/>", "?>"}}
  <2>1. 3 \in P
    BY <1>3 DEF StanzaText, Single, Double
  <2>2. 1 \notin P /\ 2 \notin P
    BY <1>3, <1>4
  <2>3. \A j \in P : j \in Int /\ 3 <= j
    BY <1>1, <2>2
  <2> HIDE DEF P
  <2>4. First(P) = 3
    BY <2>1, <2>3, FirstIs
  <2> QED  BY <2>4 DEF P, EndOfTag
<1>7. CASE Single(T)
  <2>1. Len(T) = 3 /\ t[3] = "/>"
    BY <1>7, <1>3 DEF Single
  <2> QED  BY <1>5, <1>6, <2>1 DEF Stanza
<1>8. CASE Double(T)
  <2>1. t[3] = ">" /\ T[Len(T) - 1] = CloseOf[T[2]] /\ Len(T) >= 7 /\ T[2] \in DOMAIN CloseOf
    BY <1>8, <1>3 DEF Double, StanzaText
  <2> DEFINE P == {j \in 4..Len(t) : t[2] \in DOMAIN CloseOf /\ t[j] = CloseOf[t[2]]}
  <2>2. Len(T) - 1 \in P
    <3>1. Len(T) - 1 \in 4..Len(t) /\ Len(T) - 1 \in 1..Len(T)
      BY <1>1, <2>1
    <3> QED  BY <3>1, <2>1, <1>2, <1>3
  <2>3. \A j \in P : j \in Int /\ Len(T) - 1 <= j
    <3> SUFFICES ASSUME NEW j \in P, j < Len(T) - 1 PROVE FALSE
      BY <1>1
    <3>1. j \in 4..(Len(T) - 2) /\ j \in 1..Len(T)
      BY <1>1
    <3>2. t[j] = T[j] /\ t[j] = CloseOf[T[2]]
      BY <3>1, <1>2, <1>3
    <3> QED  BY <3>1, <3>2, <1>8 DEF Double
  <2> HIDE DEF P
  <2>4. First(P) = Len(T) - 1
    BY <2>2, <2>3, FirstIs
  <2>5. EndOfElement(t, 3 + 1) = Len(T)
    <3>1. EndOfElement(t, 3 + 1) = IF First(P) # 0 /\ First(P) < Len(t) THEN First(P) + 1 ELSE 0
      BY DEF P, EndOfElement
    <3>2. First(P) # 0 /\ First(P) < Len(t) /\ First(P) + 1 = Len(T)
      <4>1. Len(T) - 1 # 0 /\ Len(T) - 1 < Len(t) /\ Len(T) - 1 + 1 = Len(T)
        BY ONLY <1>1, <2>1, Len(t) >= Len(T)
      <4> QED  BY ONLY <4>1, <2>4
    <3> QED  BY ONLY <3>1, <3>2
  <2>6. ~(3 # 0 /\ t[3] # "/>" /\ Len(T) = 0) /\ t[3] # "/>" /\ 3 # 0
    BY <2>1, <1>1
  <2> QED  BY <1>5, <1>6, <2>5, <2>6 DEF Stanza
<1> QED  BY <1>7, <1>8 DEF StanzaText

\* Facts about numbers that are cited for lengths.
LEMMA TwoOrMore == ASSUME NEW n \in Nat, n >= 2 PROVE n = 2 \/ (n > 2 /\ n >= 3)
OBVIOUS

\* Likewise.
LEMMA LessOrSame == ASSUME NEW n \in Nat, NEW m \in Nat, n <= m PROVE n < m \/ n = m
OBVIOUS

\* Likewise.
LEMMA NotOne == ASSUME NEW n \in Nat, n # 0, n # 1 PROVE n >= 2
OBVIOUS

\* Likewise.
LEMMA TheLast == ASSUME NEW n \in Nat, NEW j \in 1..(n + 1), ~(j <= n) PROVE j = n + 1
OBVIOUS

\* Likewise.
LEMMA BeyondTwo == ASSUME NEW n \in Nat, NEW m \in Nat, n > 2, n < m PROVE m # 3
OBVIOUS

\* and waits for the rest of one.
LEMMA ScanPart ==
  ASSUME NEW T, StanzaText(T), NEW t, Len(t) \in Nat, Follows(t, T, 0),
         Len(t) >= 2, Len(t) < Len(T)
  PROVE  Scan(t) = Wait(t)
<1>1. Len(T) \in Nat /\ Len(T) >= 3 /\ Len(t) \in Nat
  BY DEF StanzaText, Single, Double
<1>2. \A k \in 1..Len(t) : k \in 1..Len(T) /\ t[k] = T[k]
  BY <1>1 DEF Follows
<1>3. t[1] = "<" /\ t[2] = T[2]
  BY <1>1, <1>2 DEF StanzaText
<1>4. T[2] \in {"iq", "message", "auth", "response", "presence"}
  BY DEF StanzaText, CloseOf
<1>5. Scan(t) = Stanza(t)
  <2>1. t # <<>> /\ Len(t) >= 2
    BY <1>1
  <2>2. ~StartsWith(t, "?xml") /\ ~StartsWith(t, "/stream:stream") /\ ~StartsWith(t, "stream:stream")
    BY <1>3, <1>4 DEF StartsWith
  <2>3. IsName(t[2])
    BY <1>3, <1>4 DEF IsName, CloseOf
  <2> QED  BY <2>1, <2>2, <2>3, <1>3 DEF Scan
<1>6. CASE Len(t) = 2
  <2>1. {j \in 1..Len(t) : t[j] \in {">", "/>", "?>"}} = {}
    <3>1. \A j \in 1..Len(t) : j = 1 \/ j = 2
      BY <1>6
    <3> QED  BY <3>1, <1>3, <1>4
  <2>2. EndOfTag(t) = 0
    BY <2>1, FirstNone DEF EndOfTag
  <2> QED  BY <1>5, <2>2 DEF Stanza
<1>7. CASE Len(t) > 2
  <2>0. Double(T) /\ t[3] = ">"
    <3>1. Double(T)
      <4>1. Len(T) # 3
        BY <1>7, <1>1, BeyondTwo, Zenon
      <4> QED  BY <4>1 DEF StanzaText, Single
    <3>2. 3 \in 1..Len(t) /\ T[3] = ">"
      BY <1>7, <1>1, <3>1 DEF Double
    <3> QED  BY <3>1, <3>2, <1>2
  <2>6. EndOfTag(t) = 3
    <3> DEFINE P == {j \in 1..Len(t) : t[j] \in {">", "/>", "?>"}}
    <3>1. 3 \in P
      BY <2>0, <1>7, <1>1
    <3>2. 1 \notin P /\ 2 \notin P
      BY <1>3, <1>4
    <3>3. \A j \in P : j \in Int /\ 3 <= j
      BY <1>1, <3>2
    <3> HIDE DEF P
    <3>4. First(P) = 3
      BY <3>1, <3>3, FirstIs
    <3> QED  BY <3>4 DEF P, EndOfTag
  <2> DEFINE P == {j \in 4..Len(t) : t[2] \in DOMAIN CloseOf /\ t[j] = CloseOf[t[2]]}
  <2>1. P \subseteq {Len(t)}
    <3> SUFFICES ASSUME NEW j \in P, j # Len(t) PROVE FALSE
      OBVIOUS
    <3>1. j \in 4..(Len(T) - 2) /\ j \in 1..Len(t)
      BY <1>1
    <3>2. t[j] = T[j] /\ t[j] = CloseOf[T[2]]
      BY <3>1, <1>2, <1>3
    <3> QED  BY <3>1, <3>2, <2>0 DEF Double
  <2>2. P = {} \/ P = {Len(t)}
    BY <2>1
  <2>3. First(P) = 0 \/ First(P) = Len(t)
    <3>1. CASE P = {}
      BY <3>1, FirstNone
    <3>2. CASE P = {Len(t)}
      <4>1. Len(t) \in P /\ P \subseteq Int /\ \A j \in P : Len(t) <= j
        BY <3>2, <1>1
      <4> HIDE DEF P
      <4> QED  BY <4>1, FirstIs
    <3> QED  BY <2>2, <3>1, <3>2
  <2>4. EndOfElement(t, 3 + 1) = 0
    <3>1. EndOfElement(t, 3 + 1) = IF First(P) # 0 /\ First(P) < Len(t) THEN First(P) + 1 ELSE 0
      BY DEF P, EndOfElement
    <3> QED  BY ONLY <3>1, <2>3, <1>1
  <2>5. t[3] # "/>" /\ 3 # 0
    BY <2>0
  <2> QED  BY <1>5, <2>6, <2>4, <2>5 DEF Stanza
<1>8. Len(t) = 2 \/ Len(t) > 2
  BY <1>1, TwoOrMore, Zenon
<1> QED  BY <1>6, <1>7, <1>8

\* The first tag of t ends at its third lexeme, or has not ended.
LEMMA TagEnd ==
  ASSUME NEW t, Len(t) \in Nat, Len(t) >= 2,
         t[1] \notin {">", "/>", "?>"}, t[2] \notin {">", "/>", "?>"}
  PROVE  /\ Len(t) = 2 => EndOfTag(t) = 0
         /\ Len(t) >= 3 /\ t[3] \in {">", "/>", "?>"} => EndOfTag(t) = 3
<1> DEFINE P == {j \in 1..Len(t) : t[j] \in {">", "/>", "?>"}}
<1>0. Len(t) \in Nat
  OBVIOUS
<1>1. 1 \notin P /\ 2 \notin P
  OBVIOUS
<1>2. P \subseteq Int /\ \A j \in P : 3 <= j
  BY <1>1, <1>0
<1>3. Len(t) = 2 => P = {}
  BY <1>1, <1>0
<1>4. Len(t) >= 3 /\ t[3] \in {">", "/>", "?>"} => 3 \in P
  BY <1>0
<1>5. EndOfTag(t) = First(P)
  BY DEF EndOfTag
<1> HIDE DEF P
<1> QED  BY <1>2, <1>3, <1>4, <1>5, FirstIs, FirstNone

\* The first three lexemes of t.
LEMMA Begins ==
  ASSUME NEW t, Len(t) \in Nat, Len(t) >= 2, NEW T, NEW b \in Nat, Follows(t, T, b),
         Len(T) \in Nat, b + 3 <= Len(T)
  PROVE  t[1] = T[b + 1] /\ t[2] = T[b + 2] /\ (Len(t) >= 3 => t[3] = T[b + 3])
<1>0. Len(t) \in Nat
  OBVIOUS
<1>1. /\ 1 \in 1..Len(t) /\ 2 \in 1..Len(t) /\ (Len(t) >= 3 => 3 \in 1..Len(t))
      /\ b + 1 <= Len(T) /\ b + 2 <= Len(T)
  BY ONLY <1>0, Len(t) >= 2, b \in Nat, Len(T) \in Nat, b + 3 <= Len(T)
<1> QED  BY <1>1, Zenon DEF Follows

\* The header of the stream is taken off in two turns,
LEMMA ScanHeader ==
  ASSUME NEW t, Len(t) \in Nat, Follows(t, Text("open"), 0), Len(t) >= 2
  PROVE  Scan(t) = IF Len(t) = 2 THEN Wait(t) ELSE Turn("junk", <<>>, From(t, 4))
<1>0. Len(t) \in Nat
  OBVIOUS
<1>1. t[1] = "<" /\ t[2] = "?xml" /\ (Len(t) >= 3 => t[3] = "?>")
  <2>1. Len(Text("open")) \in Nat /\ 0 + 3 <= Len(Text("open"))
    BY StreamTexts
  <2> QED  BY <2>1, Begins, StreamTexts
<1>2. StartsWith(t, "?xml") /\ t # <<>>
  BY <1>1, <1>0 DEF StartsWith
<1>3. /\ ~StartsWith(t, "/stream:stream") /\ ~StartsWith(t, "stream:stream")
      /\ ~IsName(t[2])
  BY <1>1 DEF StartsWith, IsName, CloseOf, Children, IqKinds, MessageKinds
<1>4. EndOfTag(t) = IF Len(t) = 2 THEN 0 ELSE 3
  <2>1. Len(t) = 2 \/ Len(t) >= 3
    BY <1>0, TwoOrMore, Zenon
  <2> QED  BY <2>1, <1>1, TagEnd
<1>5. Scan(t) = IF EndOfTag(t) = 0 THEN Wait(t) ELSE Turn("junk", <<>>, From(t, EndOfTag(t) + 1))
  BY <1>2, <1>3, Zenon DEF Scan
<1> QED  BY <1>4, <1>5

\* the declaration before the header itself;
LEMMA ScanOpen ==
  ASSUME NEW t, Len(t) \in Nat, Follows(t, Text("open"), 3), Len(t) >= 2
  PROVE  Scan(t) = IF Len(t) = 2 THEN Wait(t) ELSE Turn("open", <<>>, From(t, 4))
<1>0. Len(t) \in Nat
  OBVIOUS
<1>1. t[1] = "<" /\ t[2] = "stream:stream" /\ (Len(t) >= 3 => t[3] = ">")
  <2>1. Len(Text("open")) \in Nat /\ 3 + 3 <= Len(Text("open"))
    BY StreamTexts
  <2> QED  BY <2>1, Begins, StreamTexts
<1>2. StartsWith(t, "stream:stream") /\ t # <<>>
  BY <1>1, <1>0 DEF StartsWith
<1>3. /\ ~StartsWith(t, "/stream:stream") /\ ~StartsWith(t, "?xml")
      /\ ~IsName(t[2])
  BY <1>1 DEF StartsWith, IsName, CloseOf, Children, IqKinds, MessageKinds
<1>4. EndOfTag(t) = IF Len(t) = 2 THEN 0 ELSE 3
  <2>1. Len(t) = 2 \/ Len(t) >= 3
    BY <1>0, TwoOrMore, Zenon
  <2> QED  BY <2>1, <1>1, TagEnd
<1>5. Scan(t) = IF EndOfTag(t) = 0 THEN Wait(t) ELSE Turn("open", <<>>, From(t, EndOfTag(t) + 1))
  BY <1>2, <1>3, Zenon DEF Scan
<1> QED  BY <1>4, <1>5

\* and the end of the stream is seen by its name.
LEMMA ScanClose ==
  ASSUME NEW t, Len(t) \in Nat, Follows(t, Text("close"), 0), Len(t) >= 2
  PROVE  Scan(t) = Turn("close", <<>>, t)
<1>0. Len(t) \in Nat
  OBVIOUS
<1>1. t[1] = "<" /\ t[2] = "/stream:stream"
  <2>1. Len(Text("close")) \in Nat /\ 0 + 3 <= Len(Text("close"))
    BY StreamTexts
  <2> QED  BY <2>1, Begins, StreamTexts
<1>2. StartsWith(t, "/stream:stream") /\ t # <<>>
  BY <1>1, <1>0 DEF StartsWith
<1>3. /\ ~StartsWith(t, "stream:stream") /\ ~StartsWith(t, "?xml")
      /\ ~IsName(t[2])
  BY <1>1 DEF StartsWith, IsName, CloseOf, Children, IqKinds, MessageKinds
<1> QED  BY <1>2, <1>3, Zenon DEF Scan
-----------------------------------------------------------------------------
(* What _handle_stanza does with each stanza.                              *)
BranchOf(u) ==
  CASE u = "register!" -> "credentials"
    [] u = "register?" -> "register"
    [] u \in {"bind_boot", "bind_idle"} -> "bind"
    [] u = "unbind_boot" -> "unbind"
    [] OTHER -> u

\* The lexemes of an element around a child.
LEMMA ElementIn ==
  ASSUME NEW tag, NEW close, NEW u, NEW w
  PROVE  In(w, <<"<", tag, ">", "<", u, "/>", "<", close, ">">>) <=>
           w \in {"<", tag, ">", u, "/>", close}
<1> DEFINE T == <<"<", tag, ">", "<", u, "/>", "<", close, ">">>
<1>1. DOMAIN T = 1..9
  OBVIOUS
<1>2. /\ T[1] = "<" /\ T[2] = tag /\ T[3] = ">" /\ T[4] = "<" /\ T[5] = u
      /\ T[6] = "/>" /\ T[7] = "<" /\ T[8] = close /\ T[9] = ">"
  OBVIOUS
<1> HIDE DEF T
<1>3. \A j \in 1..9 : \/ j = 1 \/ j = 2 \/ j = 3 \/ j = 4 \/ j = 5 \/ j = 6 \/ j = 7 \/ j = 8 \/ j = 9
  BY ONLY TRUE
<1>4. /\ 1 \in 1..9 /\ 2 \in 1..9 /\ 3 \in 1..9 /\ 5 \in 1..9 /\ 6 \in 1..9 /\ 8 \in 1..9
  BY ONLY TRUE
<1>5. In(w, T) <=> w \in {"<", tag, ">", u, "/>", close}
  BY <1>1, <1>2, <1>3, <1>4, Zenon DEF In
<1> QED  BY <1>5 DEF T

\* The branch each query takes,
LEMMA IqHandled ==
  ASSUME NEW u \in IqKinds
  PROVE  /\ Branch(Text(u)) = BranchOf(u)
         /\ u \in {"bind_boot", "bind_idle"} => BoundResource(Text(u)) = Resources[u]
<1> DEFINE st == Text(u)
<1>1. st = <<"<", "iq", ">", "<", u, "/>", "<", "/iq", ">">>
  BY Texts
<1>2. \A w : In(w, st) <=> w \in {"<", "iq", ">", u, "/>", "/iq"}
  BY <1>1, ElementIn
<1>3. /\ Iq(st) /\ ~StartsWith(st, "auth") /\ ~StartsWith(st, "response") /\ ~StartsWith(st, "presence")
  <2>1. Len(st) >= 2 /\ st[1] = "<" /\ st[2] = "iq"
    BY ONLY <1>1
  <2> QED  BY <2>1 DEF Iq, StartsWith
<1> HIDE DEF st
<1>4. \A x : x \in BindNamespace(st) <=> x \in {"bind_boot", "bind_idle", "unbind_boot"} /\ x = u
  <2>1. DOMAIN Resources = {"bind_boot", "bind_idle", "unbind_boot"}
    BY DEF Resources
  <2> QED  BY <2>1, <1>2 DEF BindNamespace
<1>5. IsBind(st) <=> u \in {"bind_boot", "bind_idle"}
  <2>1. BindNamespace(st) # {} <=> u \in {"bind_boot", "bind_idle", "unbind_boot"}
    BY <1>4
  <2>2. In("unbind_boot", st) <=> u = "unbind_boot"
    BY <1>2
  <2> QED  BY <2>1, <2>2, <1>3 DEF IsBind
<1>6. Branch(st) = BranchOf(u)
  <2>1. \A w \in {"register!", "register?", "session", "sources", "unbind_boot", "ping", "button", "ears"} :
          In(w, st) <=> w = u
    BY <1>2
  <2>2. CASE u = "register?"
    BY <2>2, <2>1, <1>3, <1>5 DEF Branch, BranchOf
  <2>3. CASE u = "register!"
    BY <2>3, <2>1, <1>3, <1>5 DEF Branch, BranchOf
  <2>4. CASE u \in {"bind_boot", "bind_idle"}
    BY <2>4, <2>1, <1>3, <1>5 DEF Branch, BranchOf
  <2>5. CASE u \in {"session", "sources", "ping"}
    BY <2>5, <2>1, <1>3, <1>5 DEF Branch, BranchOf
  <2>6. CASE u = "unbind_boot"
    BY <2>6, <2>1, <1>3, <1>5 DEF Branch, BranchOf
  <2> QED  BY <2>2, <2>3, <2>4, <2>5, <2>6 DEF IqKinds
<1>7. u \in {"bind_boot", "bind_idle"} => BoundResource(st) = Resources[u]
  <2> SUFFICES ASSUME u \in {"bind_boot", "bind_idle"} PROVE BoundResource(st) = Resources[u]
    OBVIOUS
  <2>1. BindNamespace(st) = {u}
    BY <1>4
  <2>2. (CHOOSE x \in BindNamespace(st) : TRUE) = u
    BY <2>1
  <2> QED  BY <2>2 DEF BoundResource
<1> QED  BY <1>6, <1>7 DEF st

\* An element goes by the name of its child.
LEMMA IqKind ==
  ASSUME NEW u \in Children, NEW tag, tag \notin Children, NEW close
  PROVE  KindOf(<<"<", tag, ">", "<", u, "/>", "<", close, ">">>) = u
<1> DEFINE T == <<"<", tag, ">", "<", u, "/>", "<", close, ">">>
           P == {j \in DOMAIN T : T[j] \in Children}
<1>1. DOMAIN T = 1..9
  OBVIOUS
<1>2. T[1] = "<" /\ T[2] = tag /\ T[3] = ">" /\ T[4] = "<" /\ T[5] = u
  OBVIOUS
<1>3. {"<", ">"} \cap Children = {}
  BY DEF Children, IqKinds, MessageKinds
<1> HIDE DEF T
<1>4. \A j \in 1..9 : j = 1 \/ j = 2 \/ j = 3 \/ j = 4 \/ j >= 5
  BY ONLY TRUE
<1>5. 5 \in P /\ P \subseteq Int /\ \A j \in P : 5 <= j
  BY <1>1, <1>2, <1>3, <1>4
<1>6. KindOf(T) = IF First(P) = 0 THEN T[2] ELSE T[First(P)]
  BY DEF KindOf
<1> HIDE DEF P
<1>7. First(P) = 5
  BY <1>5, FirstIs
<1>8. KindOf(T) = u
  BY <1>2, <1>6, <1>7
<1> QED  BY <1>8 DEF T

\* each message,
LEMMA MessageHandled ==
  ASSUME NEW u \in MessageKinds
  PROVE  Branch(Text(u)) = BranchOf(u)
<1> DEFINE st == Text(u)
<1>1. st = <<"<", "message", ">", "<", u, "/>", "<", "/message", ">">>
  BY Texts
<1>2. \A w : In(w, st) <=> w \in {"<", "message", ">", u, "/>", "/message"}
  BY <1>1, ElementIn
<1>3. /\ ~Iq(st) /\ ~StartsWith(st, "auth") /\ ~StartsWith(st, "response") /\ ~StartsWith(st, "presence")
  <2>1. Len(st) >= 2 /\ st[1] = "<" /\ st[2] = "message"
    BY ONLY <1>1
  <2> QED  BY <2>1 DEF Iq, StartsWith
<1> HIDE DEF st
<1>4. ~IsBind(st)
  BY <1>3 DEF IsBind
<1>5. \A w \in {"button", "ears"} : In(w, st) <=> w = u
  BY <1>2
<1>6. CASE u = "button"
  BY <1>3, <1>4, <1>5, <1>6 DEF Branch, BranchOf, st
<1>7. CASE u = "ears"
  BY <1>3, <1>4, <1>5, <1>7 DEF Branch, BranchOf, st
<1> QED  BY <1>6, <1>7 DEF MessageKinds

\* and each of the others.
LEMMA PlainHandled ==
  ASSUME NEW u \in {"auth", "response", "presence"}
  PROVE  Branch(Text(u)) = BranchOf(u) /\ KindOf(Text(u)) = u
<1> DEFINE st == Text(u)
<1>1. /\ Len(st) >= 2 /\ st[1] = "<" /\ st[2] = u /\ \A j \in DOMAIN st : st[j] \notin Children
  <2>1. CASE u \in {"auth", "presence"}
    <3>1. st = <<"<", u, "/>">>
      BY <2>1, Texts
    <3>2. DOMAIN st = 1..3 /\ Len(st) = 3 /\ st[1] = "<" /\ st[2] = u /\ st[3] = "/>"
      BY ONLY <3>1
    <3>3. \A j \in 1..3 : j = 1 \/ j = 2 \/ j = 3
      BY ONLY TRUE
    <3>4. {"<", "/>", u} \cap Children = {}
      BY <2>1 DEF Children, IqKinds, MessageKinds
    <3> HIDE DEF st
    <3> QED  BY <3>2, <3>3, <3>4
  <2>2. CASE u = "response"
    <3>1. st = <<"<", "response", ">", "digest", "<", "/response", ">">>
      BY <2>2, Texts
    <3>2. /\ DOMAIN st = 1..7 /\ Len(st) = 7 /\ st[1] = "<" /\ st[2] = "response" /\ st[3] = ">"
          /\ st[4] = "digest" /\ st[5] = "<" /\ st[6] = "/response" /\ st[7] = ">"
      BY ONLY <3>1
    <3>3. \A j \in 1..7 : j = 1 \/ j = 2 \/ j = 3 \/ j = 4 \/ j = 5 \/ j = 6 \/ j = 7
      BY ONLY TRUE
    <3>4. {"<", ">", "response", "digest", "/response"} \cap Children = {}
      BY DEF Children, IqKinds, MessageKinds
    <3> HIDE DEF st
    <3> QED  BY <2>2, <3>2, <3>3, <3>4
  <2> QED  BY <2>1, <2>2
<1> HIDE DEF st
<1>2. KindOf(st) = u
  <2>1. {j \in DOMAIN st : st[j] \in Children} = {}
    BY <1>1
  <2> QED  BY <2>1, <1>1, FirstNone DEF KindOf
<1>3. \A w \in Children : ~In(w, st)
  BY <1>1 DEF In
<1>4. ~Iq(st) /\ \A w : StartsWith(st, w) <=> w = u
  BY <1>1 DEF Iq, StartsWith
<1>5. ~IsBind(st)
  BY <1>4 DEF IsBind
<1>6. ~In("button", st) /\ ~In("ears", st)
  BY <1>3 DEF Children, MessageKinds
<1>7. Branch(st) = BranchOf(u)
  <2>1. CASE u = "auth"
    BY <2>1, <1>4, <1>5, <1>6 DEF Branch, BranchOf
  <2>2. CASE u = "response"
    BY <2>2, <1>4, <1>5, <1>6 DEF Branch, BranchOf
  <2>3. CASE u = "presence"
    BY <2>3, <1>4, <1>5, <1>6 DEF Branch, BranchOf
  <2> QED  BY <2>1, <2>2, <2>3
<1> QED  BY <1>2, <1>7 DEF st

\* A stanza goes by its name, does what its branch does, and is answered once or
\* not at all.
LEMMA HandleIs ==
  ASSUME NEW u \in Units
  PROVE  /\ KindOf(Text(u)) = u
         /\ Answer(Text(u)) = IF u \in Answered THEN <<ReplyOf(u)>> ELSE <<>>
         /\ Branch(Text(u)) = "response" <=> u = "response"
         /\ Branch(Text(u)) = "bind" <=> u \in {"bind_boot", "bind_idle"}
         /\ u \in {"bind_boot", "bind_idle"} => BoundResource(Text(u)) = Resources[u]
<1>1. Branch(Text(u)) = BranchOf(u)
  BY IqHandled, MessageHandled, PlainHandled DEF Units
<1>2. u \in {"bind_boot", "bind_idle"} => BoundResource(Text(u)) = Resources[u]
  BY IqHandled DEF IqKinds
<1>3. KindOf(Text(u)) = u
  <2>1. CASE u \in IqKinds
    <3>1. u \in Children /\ "iq" \notin Children
      BY <2>1 DEF Children, IqKinds, MessageKinds
    <3> QED  BY <3>1, <2>1, IqKind, Texts
  <2>2. CASE u \in MessageKinds
    <3>1. u \in Children /\ "message" \notin Children
      BY <2>2 DEF Children, IqKinds, MessageKinds
    <3> QED  BY <3>1, <2>2, IqKind, Texts
  <2> QED  BY <2>1, <2>2, PlainHandled DEF Units
<1>4. Answer(Text(u)) = IF u \in Answered THEN <<ReplyOf(u)>> ELSE <<>>
  <2>1. DOMAIN Answers = {"register", "credentials", "auth", "response", "session", "sources",
                          "unbind", "ping", "presence"}
    BY DEF Answers
  <2>2. CASE u \in {"bind_boot", "bind_idle"}
    <3>1. Branch(Text(u)) = "bind"
      BY <1>1, <2>2 DEF BranchOf
    <3>2. Jid(BoundResource(Text(u))) = ReplyOf(u)
      BY <1>2, <2>2 DEF Jid, ReplyOf, Resources
    <3>3. u \in Answered
      BY <2>2 DEF Answered, Heard, Units, IqKinds, MessageKinds
    <3>4. Answer(Text(u)) = <<Jid(BoundResource(Text(u)))>>
      BY <3>1, <2>1, Zenon DEF Answer
    <3> QED  BY <3>2, <3>3, <3>4
  <2>3. CASE u \in MessageKinds
    <3>1. Branch(Text(u)) \in {"button", "ears"} /\ u \notin Answered
      BY <1>1, <2>3 DEF BranchOf, MessageKinds, Answered
    <3> QED  BY <3>1, <2>1 DEF Answer
  <2>4. CASE u \notin {"bind_boot", "bind_idle"} \cup MessageKinds
    <3>1. /\ Branch(Text(u)) \in DOMAIN Answers /\ Answers[Branch(Text(u))] = ReplyOf(u)
          /\ Branch(Text(u)) # "bind"
      BY <1>1, <2>4 DEF BranchOf, Answers, ReplyOf, Units, IqKinds, MessageKinds
    <3>2. u \in Answered
      BY <2>4 DEF Answered, Heard
    <3>3. Answer(Text(u)) = <<Answers[Branch(Text(u))]>>
      BY <3>1, Zenon DEF Answer
    <3> QED  BY <3>1, <3>2, <3>3
  <2> QED  BY <2>2, <2>3, <2>4
<1>5. BranchOf(u) = "response" <=> u = "response"
  BY DEF BranchOf, Units, IqKinds, MessageKinds
<1>6. BranchOf(u) = "bind" <=> u \in {"bind_boot", "bind_idle"}
  BY DEF BranchOf, Units, IqKinds, MessageKinds
<1> QED  BY <1>1, <1>2, <1>3, <1>4, <1>5, <1>6
-----------------------------------------------------------------------------
(* The stream, as a text str of which the parser has taken p lexemes: the  *)
(* texts of the units C lie in it from S[i] + 1 to E[i], with blanks       *)
(* around them, up to W.                                                   *)
Said == Heard \cup {"close"}
Lexemes ==
  Children \cup {"<", ">", "/>", "?>", "?xml", "stream:stream", "/stream:stream", "iq", "/iq",
                 "message", "/message", "auth", "response", "/response", "digest", "presence", "blank"}

Laid(str, S, E, C, W) ==
  /\ S \in [Nat -> Nat] /\ E \in [Nat -> Nat] /\ E[0] = 0
  /\ \A i \in 1..Len(C) :
       /\ E[i - 1] <= S[i] /\ E[i] = S[i] + Len(Text(C[i])) /\ E[i] <= W
       /\ \A k \in 1..Len(Text(C[i])) : str[S[i] + k] = Text(C[i])[k]
       /\ \A j \in (E[i - 1] + 1)..S[i] : str[j] = "blank"
  /\ E[Len(C)] <= W /\ \A j \in (E[Len(C)] + 1)..W : str[j] = "blank"

\* n units have been handed over: the parser is before the next one, or in the
\* header of a stream, past its declaration.
Placed(S, E, C, W, n, p) ==
  /\ n <= Len(C)
  /\ n = Len(C) => p \in E[n]..W
  /\ n < Len(C) => p \in E[n]..S[n + 1] \/ (C[n + 1] = "open" /\ p = S[n + 1] + 3)

\* t is what follows the first p lexemes, and not cut after a "<".
Held(t, str, p) ==
  /\ t \in Seq(Lexemes) /\ (t # <<>> => t[Len(t)] # "<")
  /\ \A k \in 1..Len(t) : t[k] = str[p + k]

\* What is in the buffer and then on the wire comes after what has been taken.
Reads(str, p) ==
  /\ Held(buf, str, p)
  /\ wire \in Seq(Lexemes) /\ \A j \in 1..Len(wire) : wire[j] = str[p + Len(buf) + j]

\* What the rabbit has written, with the end of the stream.
Sent == IF rabbit = "left" THEN Append(said, "close") ELSE said

Fed(str, S, E, p) ==
  /\ p \in Nat
  /\ Laid(str, S, E, Sent, p + Len(buf) + Len(wire))
  /\ Placed(S, E, Sent, p + Len(buf) + Len(wire), Len(handled), p)
  /\ Reads(str, p)
  /\ (pc = "recv" /\ alive /\ Len(handled) < Len(Sent)) => p + Len(buf) < E[Len(handled) + 1]

\* What has been handed over is what was said first.
Texted ==
  /\ said \in Seq(Heard) /\ handled \in Seq(Heard)
  /\ Len(handled) <= Len(said) /\ \A i \in 1..Len(handled) : handled[i] = said[i]

StreamInv == Texted /\ \E str, S, E, p : Fed(str, S, E, p)
-----------------------------------------------------------------------------
\* A text is made of lexemes and ends in none that is "<".
LEMMA TextTypes ==
  ASSUME NEW u \in Said \cup {"space"}
  PROVE  /\ Text(u) \in Seq(Lexemes) /\ Len(Text(u)) \in Nat \ {0}
         /\ u # "space" => Text(u)[1] = "<" /\ Len(Text(u)) >= 3
         /\ Text(u)[Len(Text(u))] # "<"
<1> DEFINE T == Text(u)
<1>1. CASE u \in IqKinds
  <2>1. u \in Lexemes /\ {"<", "iq", ">", "/>", "/iq"} \subseteq Lexemes
    BY <1>1 DEF Lexemes, Children
  <2>2. T = <<"<", "iq", ">", "<", u, "/>", "<", "/iq", ">">>
    BY <1>1, Texts
  <2> QED  BY ONLY <2>1, <2>2
<1>2. CASE u \in MessageKinds
  <2>1. u \in Lexemes /\ {"<", "message", ">", "/>", "/message"} \subseteq Lexemes
    BY <1>2 DEF Lexemes, Children
  <2>2. T = <<"<", "message", ">", "<", u, "/>", "<", "/message", ">">>
    BY <1>2, Texts
  <2> QED  BY ONLY <2>1, <2>2
<1>3. CASE u = "response"
  <2>1. {"<", "response", ">", "digest", "/response"} \subseteq Lexemes
    BY DEF Lexemes
  <2>2. T = <<"<", "response", ">", "digest", "<", "/response", ">">>
    BY <1>3, Texts
  <2> QED  BY ONLY <2>1, <2>2
<1>4. CASE u \in {"auth", "presence"}
  <2>1. u \in Lexemes /\ {"<", "/>"} \subseteq Lexemes
    BY <1>4 DEF Lexemes
  <2>2. T = <<"<", u, "/>">>
    BY <1>4, Texts
  <2> QED  BY ONLY <2>1, <2>2
<1>5. CASE u = "open"
  <2>1. {"<", "?xml", "?>", "stream:stream", ">"} \subseteq Lexemes
    BY DEF Lexemes
  <2>2. T = <<"<", "?xml", "?>", "<", "stream:stream", ">">>
    BY <1>5, Texts
  <2> QED  BY ONLY <2>1, <2>2
<1>6. CASE u = "close"
  <2>1. {"<", "/stream:stream", ">"} \subseteq Lexemes
    BY DEF Lexemes
  <2>2. T = <<"<", "/stream:stream", ">">>
    BY <1>6, Texts
  <2> QED  BY ONLY <2>1, <2>2
<1>7. CASE u = "space"
  <2>1. "blank" \in Lexemes
    BY DEF Lexemes
  <2>2. T = <<"blank">>
    BY <1>7, Texts
  <2> QED  BY ONLY <2>1, <2>2, <1>7
<1> QED  BY <1>1, <1>2, <1>3, <1>4, <1>5, <1>6, <1>7 DEF Said, Heard, Units

\* The rest of a text.
LEMMA FromIs ==
  ASSUME NEW t \in Seq(Lexemes), NEW i \in 1..(Len(t) + 1)
  PROVE  /\ From(t, i) \in Seq(Lexemes) /\ Len(From(t, i)) = Len(t) - i + 1
         /\ \A k \in 1..(Len(t) - i + 1) : From(t, i)[k] = t[i + k - 1]
<1>1. Len(t) \in Nat /\ Len(t) \in (i - 1)..Len(t)
  OBVIOUS
<1> QED  BY <1>1, SubSeqProperties DEF From

\* str2 is str with the unit u at its end.
LaidOn(C, u, W, str, S, E, str2, S2, E2) ==
  /\ Laid(str2, S2, E2, Append(C, u), W + Len(Text(u)))
  /\ \A j \in 1..W : str2[j] = str[j]
  /\ \A k \in 1..Len(Text(u)) : str2[W + k] = Text(u)[k]
  /\ \A i \in 0..Len(C) : S2[i] = S[i] /\ E2[i] = E[i]
  /\ S2[Len(C) + 1] = W /\ E2[Len(C) + 1] = W + Len(Text(u))

\* One more unit is written.
LEMMA LaidMore ==
  ASSUME NEW C \in Seq(Said), NEW u \in Said, NEW W \in Nat, NEW str, NEW S, NEW E,
         Laid(str, S, E, C, W)
  PROVE  \E str2, S2, E2 : LaidOn(C, u, W, str, S, E, str2, S2, E2)
<1> DEFINE L == Len(Text(u))  N == Len(C)  D == Append(C, u)
           str2 == [j \in Nat |-> IF j <= W THEN str[j] ELSE Text(u)[j - W]]
           S2 == [i \in Nat |-> IF i <= N THEN S[i] ELSE W]
           E2 == [i \in Nat |-> IF i <= N THEN E[i] ELSE W + L]
<1>1. L \in Nat /\ N \in Nat
  BY TextTypes
<1>2. Len(D) = N + 1 /\ D[N + 1] = u /\ \A i \in 1..N : D[i] = C[i]
  OBVIOUS
<1>3. /\ \A j \in 1..W : str2[j] = str[j]
      /\ \A k \in 1..L : str2[W + k] = Text(u)[k]
  <2>1. \A k \in 1..L : W + k \in Nat /\ ~(W + k <= W) /\ (W + k) - W = k
    BY <1>1
  <2>2. \A j \in 1..W : j \in Nat /\ j <= W
    OBVIOUS
  <2> QED  BY <2>1, <2>2
<1>4. /\ \A i \in 0..N : S2[i] = S[i] /\ E2[i] = E[i]
      /\ S2[N + 1] = W /\ E2[N + 1] = W + L
  BY <1>1
<1>0. S \in [Nat -> Nat] /\ E \in [Nat -> Nat] /\ E[0] = 0
  BY Zenon DEF Laid
<1>5. S2 \in [Nat -> Nat] /\ E2 \in [Nat -> Nat]
  <2>1. W + L \in Nat
    BY <1>1
  <2>2. \A i \in Nat : S[i] \in Nat /\ E[i] \in Nat
    BY <1>0
  <2> HIDE DEF L, N, D
  <2> QED  BY <2>1, <2>2
<1> HIDE DEF str2, S2, E2, D, L
<1>6. ASSUME NEW i \in 1..(N + 1)
      PROVE  /\ E2[i - 1] <= S2[i] /\ E2[i] = S2[i] + Len(Text(D[i])) /\ E2[i] <= W + L
             /\ \A k \in 1..Len(Text(D[i])) : str2[S2[i] + k] = Text(D[i])[k]
             /\ \A j \in (E2[i - 1] + 1)..S2[i] : str2[j] = "blank"
  <2>1. CASE i \in 1..N
    <3>0. i \in 0..N /\ i - 1 \in 0..N /\ i \in Nat /\ i - 1 \in Nat
      BY <2>1, <1>1
    <3>1. /\ S2[i] = S[i] /\ E2[i] = E[i] /\ E2[i - 1] = E[i - 1] /\ D[i] = C[i]
          /\ {S[i], E[i], E[i - 1]} \subseteq Nat
      <4>1. {S[i], E[i], E[i - 1]} \subseteq Nat
        BY ONLY <3>0, <1>0
      <4>2. S2[i] = S[i] /\ E2[i] = E[i] /\ E2[i - 1] = E[i - 1]
        BY ONLY <3>0, <1>4
      <4> QED  BY ONLY <4>1, <4>2, <2>1, <1>2
    <3>2. /\ E[i - 1] <= S[i] /\ E[i] = S[i] + Len(Text(C[i])) /\ E[i] <= W
          /\ \A k \in 1..Len(Text(C[i])) : str[S[i] + k] = Text(C[i])[k]
          /\ \A j \in (E[i - 1] + 1)..S[i] : str[j] = "blank"
      BY <2>1 DEF Laid
    <3>3. Len(Text(C[i])) \in Nat
      BY <2>1, TextTypes
    <3>3a. /\ E[i - 1] <= S[i] /\ E[i] = S[i] + Len(Text(C[i])) /\ E[i] <= W
           /\ S[i] \in Nat /\ E[i] \in Nat /\ E[i - 1] \in Nat
      BY ONLY <3>1, <3>2
    <3>4. \A k \in 1..Len(Text(C[i])) : S[i] + k \in 1..W
      BY ONLY <3>3, <3>3a, W \in Nat
    <3>5. \A j \in (E[i - 1] + 1)..S[i] : j \in 1..W
      BY ONLY <3>3, <3>3a, W \in Nat
    <3>6. E[i] <= W + L
      BY ONLY <3>3a, <1>1, W \in Nat
    <3> QED  BY ONLY <3>1, <3>2, <3>4, <3>5, <3>6, <1>3
  <2>2. CASE i = N + 1
    <3>1. /\ S2[i] = W /\ E2[i] = W + L /\ E2[i - 1] = E[N] /\ D[i] = u /\ E[N] \in Nat
          /\ E[N] <= W /\ \A j \in (E[N] + 1)..W : str[j] = "blank"
      <4>1. E[N] <= W /\ \A j \in (E[N] + 1)..W : str[j] = "blank"
        BY Zenon DEF Laid
      <4>2. N \in 0..N /\ N \in Nat /\ i - 1 = N
        BY ONLY <2>2, <1>1
      <4>3. E2[i - 1] = E[N] /\ E[N] \in Nat
        BY ONLY <4>2, <1>0, <1>4
      <4>4. S2[i] = W /\ E2[i] = W + L /\ D[i] = u
        BY ONLY <2>2, <1>2, <1>4
      <4> QED  BY ONLY <4>1, <4>3, <4>4
    <3>2. \A j \in (E[N] + 1)..W : j \in 1..W
      BY <3>1
    <3> QED  BY <3>1, <3>2, <1>3, <1>1 DEF L
  <2> QED  BY <2>1, <2>2, <1>1
<1>7. Laid(str2, S2, E2, D, W + L)
  <2>1. E2[0] = 0
    <3>1. 0 \in 0..N
      BY <1>1
    <3> QED  BY ONLY <3>1, <1>4, <1>0
  <2>2. E2[Len(D)] <= W + L /\ \A j \in (E2[Len(D)] + 1)..(W + L) : str2[j] = "blank"
    BY <1>1, <1>2, <1>4
  <2>3. Len(D) = N + 1
    BY <1>2
  <2> QED  BY ONLY <2>1, <2>2, <2>3, <1>5, <1>6 DEF Laid
<1>8. LaidOn(C, u, W, str, S, E, str2, S2, E2)
  BY <1>3, <1>4, <1>7 DEF D, L, LaidOn
<1> QED  BY <1>8, Zenon

\* str2 is str with a blank at its end.
BlankOn(C, W, str, S, E, str2) ==
  /\ Laid(str2, S, E, C, W + 1)
  /\ \A j \in 1..W : str2[j] = str[j]
  /\ str2[W + 1] = "blank"

\* One more blank.
LEMMA LaidBlank ==
  ASSUME NEW C \in Seq(Said), NEW W \in Nat, NEW str, NEW S, NEW E, Laid(str, S, E, C, W)
  PROVE  \E str2 : BlankOn(C, W, str, S, E, str2)
<1> DEFINE str2 == [j \in Nat |-> IF j <= W THEN str[j] ELSE "blank"]  N == Len(C)
<1>1. (\A j \in 1..W : str2[j] = str[j]) /\ str2[W + 1] = "blank" /\ N \in Nat
  OBVIOUS
<1> HIDE DEF str2
<1>2. ASSUME NEW i \in 1..N
      PROVE  /\ E[i - 1] <= S[i] /\ E[i] = S[i] + Len(Text(C[i])) /\ E[i] <= W + 1
             /\ \A k \in 1..Len(Text(C[i])) : str2[S[i] + k] = Text(C[i])[k]
             /\ \A j \in (E[i - 1] + 1)..S[i] : str2[j] = "blank"
  <2>1. /\ E[i - 1] <= S[i] /\ E[i] = S[i] + Len(Text(C[i])) /\ E[i] <= W
        /\ \A k \in 1..Len(Text(C[i])) : str[S[i] + k] = Text(C[i])[k]
        /\ \A j \in (E[i - 1] + 1)..S[i] : str[j] = "blank"
    BY DEF Laid
  <2>2. {S[i], E[i], E[i - 1]} \subseteq Nat
    BY <1>1 DEF Laid
  <2>3. Len(Text(C[i])) \in Nat
    BY TextTypes
  <2>4. \A k \in 1..Len(Text(C[i])) : S[i] + k \in 1..W
    BY ONLY <2>1, <2>2, <2>3, W \in Nat
  <2>5. \A j \in (E[i - 1] + 1)..S[i] : j \in 1..W
    BY ONLY <2>1, <2>2, <2>3, W \in Nat
  <2>6. E[i] <= W + 1
    BY ONLY <2>1, <2>2, W \in Nat
  <2> QED  BY ONLY <2>1, <2>4, <2>5, <2>6, <1>1
<1>3. E[N] <= W + 1 /\ \A j \in (E[N] + 1)..(W + 1) : str2[j] = "blank"
  <2>1. E[N] \in Nat /\ E[N] <= W /\ \A j \in (E[N] + 1)..W : str[j] = "blank"
    BY <1>1 DEF Laid
  <2>2. \A j \in (E[N] + 1)..(W + 1) : j = W + 1 \/ (j \in 1..W /\ j \in (E[N] + 1)..W)
    BY <2>1
  <2> QED  BY <2>1, <2>2, <1>1
<1>4. Laid(str2, S, E, C, W + 1)
  BY <1>2, <1>3 DEF Laid
<1>5. BlankOn(C, W, str, S, E, str2)
  BY <1>1, <1>4 DEF BlankOn
<1> QED  BY <1>5, Zenon

\* The end of the stream comes after all that was said.
LEMMA SentIs ==
  ASSUME said \in Seq(Heard)
  PROVE  /\ Sent \in Seq(Said) /\ Len(said) <= Len(Sent) /\ Len(said) \in Nat /\ Len(Sent) \in Nat
         /\ \A i \in 1..Len(said) : Sent[i] = said[i]
         /\ \A i \in 1..Len(Sent) : Sent[i] # "close" => i <= Len(said) /\ Sent[i] \in Heard
<1>1. Heard \subseteq Said /\ "close" \in Said
  BY DEF Said
<1>2. said \in Seq(Said) /\ Len(said) \in Nat
  BY <1>1
<1>3. CASE rabbit = "left"
  <2>1. Sent = Append(said, "close")
    BY <1>3 DEF Sent
  <2>2. /\ Sent \in Seq(Said) /\ Len(Sent) = Len(said) + 1 /\ Sent[Len(said) + 1] = "close"
        /\ \A i \in 1..Len(said) : Sent[i] = said[i]
    BY <2>1, <1>1, <1>2
  <2>3. \A i \in 1..Len(Sent) : i = Len(said) + 1 \/ i \in 1..Len(said)
    BY <2>2, <1>2
  <2> QED  BY <2>2, <2>3, <1>2
<1>4. CASE rabbit # "left"
  <2>1. Sent = said
    BY <1>4 DEF Sent
  <2>2. \A i \in 1..Len(said) : i <= Len(said) /\ said[i] \in Heard
    BY <1>2
  <2> QED  BY <2>1, <2>2, <1>2
<1> QED  BY <1>3, <1>4

\* What is left once i more lexemes are taken.
LEMMA HeldFrom ==
  ASSUME NEW t, NEW str, NEW q \in Nat, Held(t, str, q), NEW i \in 0..Len(t)
  PROVE  Held(From(t, i + 1), str, q + i) /\ Len(From(t, i + 1)) = Len(t) - i
<1>1. t \in Seq(Lexemes) /\ Len(t) \in Nat /\ i + 1 \in 1..(Len(t) + 1) /\ i \in Nat
  BY DEF Held
<1> DEFINE r == From(t, i + 1)
<1>2. /\ r \in Seq(Lexemes) /\ Len(r) = Len(t) - (i + 1) + 1
      /\ \A k \in 1..(Len(t) - (i + 1) + 1) : r[k] = t[(i + 1) + k - 1]
  BY <1>1, FromIs
<1>3. Len(r) = Len(t) - i
  BY <1>1, <1>2
<1>4. \A k \in 1..Len(r) : r[k] = t[i + k] /\ i + k \in 1..Len(t)
  <2>1. \A k \in 1..(Len(t) - i) : (i + 1) + k - 1 = i + k /\ i + k \in 1..Len(t)
    BY <1>1
  <2>2. Len(t) - (i + 1) + 1 = Len(t) - i
    BY <1>1
  <2> QED  BY <2>1, <2>2, <1>2, <1>3
<1>5. r # <<>> => r[Len(r)] # "<"
  <2>1. SUFFICES ASSUME r # <<>> PROVE r[Len(r)] # "<"
    OBVIOUS
  <2>2. Len(r) # 0
    BY <2>1, <1>2
  <2>3. Len(r) \in 1..Len(r) /\ i + Len(r) = Len(t) /\ t # <<>>
    BY <2>2, <1>1, <1>3
  <2> QED  BY <2>3, <1>4 DEF Held
<1>6. \A k \in 1..Len(r) : r[k] = str[(q + i) + k]
  <2>1. \A k \in 1..Len(r) : q + (i + k) = (q + i) + k
    BY <1>1, <1>3
  <2> QED  BY <2>1, <1>4 DEF Held
<1> QED  BY <1>2, <1>3, <1>5, <1>6 DEF Held

\* Blanks are dropped: all of them,
LEMMA StripNone ==
  ASSUME NEW t, \A j \in 1..Len(t) : t[j] = "blank"
  PROVE  Strip(t) = <<>>
<1>1. {j \in 1..Len(t) : t[j] # "blank"} = {}
  OBVIOUS
<1> QED  BY <1>1, FirstNone DEF Strip

\* or those before the first lexeme that is none.
LEMMA StripFirst ==
  ASSUME NEW t, Len(t) \in Nat, NEW k \in 1..Len(t), t[k] # "blank",
         \A j \in 1..(k - 1) : t[j] = "blank"
  PROVE  Strip(t) = From(t, k)
<1> DEFINE P == {j \in 1..Len(t) : t[j] # "blank"}
<1>1. k \in P
  OBVIOUS
<1>2. P \subseteq Int /\ \A j \in P : k <= j
  <2>1. \A j \in P : j \in 1..Len(t) /\ ~(j \in 1..(k - 1))
    OBVIOUS
  <2> QED  BY <2>1
<1>3. Strip(t) = IF First(P) = 0 THEN <<>> ELSE From(t, First(P))
  BY DEF Strip
<1> HIDE DEF P
<1>4. First(P) = k
  BY <1>1, <1>2, FirstIs
<1> QED  BY <1>3, <1>4

\* The unit u lies between b and e, and the one before it ends at a.
LiesAt(u, W, str, b, a, e) ==
  /\ a \in Nat /\ b \in Nat /\ e \in Nat /\ u \in Said
  /\ Len(Text(u)) \in Nat /\ Len(Text(u)) >= 3 /\ str[b + 1] = "<"
  /\ a <= b /\ e = b + Len(Text(u)) /\ e <= W
  /\ \A k \in 1..Len(Text(u)) : str[b + k] = Text(u)[k]
  /\ \A j \in (a + 1)..b : str[j] = "blank"

\* Where the unit with number i lies, and what its text is.
LEMMA LaidAt ==
  ASSUME NEW C \in Seq(Said), NEW W \in Nat, NEW str, NEW S, NEW E, Laid(str, S, E, C, W),
         NEW i \in 1..Len(C)
  PROVE  LiesAt(C[i], W, str, S[i], E[i - 1], E[i])
<1>1. S \in [Nat -> Nat] /\ E \in [Nat -> Nat]
  BY Zenon DEF Laid
<1>2. i \in Nat /\ i - 1 \in Nat /\ C[i] \in Said
  OBVIOUS
<1>3. /\ Len(Text(C[i])) \in Nat /\ Text(C[i])[1] = "<" /\ Len(Text(C[i])) >= 3
  <2>1. C[i] # "space"
    BY <1>2 DEF Said, Heard, Units, IqKinds, MessageKinds
  <2> QED  BY <1>2, <2>1, TextTypes
<1>4. /\ E[i - 1] <= S[i] /\ E[i] = S[i] + Len(Text(C[i])) /\ E[i] <= W
      /\ \A k \in 1..Len(Text(C[i])) : str[S[i] + k] = Text(C[i])[k]
      /\ \A j \in (E[i - 1] + 1)..S[i] : str[j] = "blank"
  BY Zenon DEF Laid
<1>5. 1 \in 1..Len(Text(C[i]))
  BY <1>3
<1> QED  BY <1>1, <1>2, <1>3, <1>4, <1>5 DEF LiesAt

\* Where the buffer stands once its blanks are dropped: at the next unit, or in
\* the header, if anything is left.
LEMMA Stripped ==
  ASSUME Texted, NEW str, NEW S, NEW E, NEW p, Fed(str, S, E, p)
  PROVE  LET n == Len(handled)
             t == Strip(buf)
         IN  \E q \in p..(p + Len(buf)) :
               /\ q \in Nat /\ Held(t, str, q) /\ q + Len(t) = p + Len(buf)
               /\ Placed(S, E, Sent, p + Len(buf) + Len(wire), n, q)
               /\ t = <<>> /\ n < Len(Sent) => q < E[n + 1]
               /\ t # <<>> => /\ n < Len(Sent) 
                              /\ q = S[n + 1] \/ (Sent[n + 1] = "open" /\ q = S[n + 1] + 3)
<1> DEFINE n == Len(handled)  t == Strip(buf)  B == Len(buf)  W == p + Len(buf) + Len(wire)
           C == Sent
           Goal(q) == /\ q \in Nat /\ Held(t, str, q) /\ q + Len(t) = p + B
                      /\ Placed(S, E, C, W, n, q)
                      /\ t = <<>> /\ n < Len(C) => q < E[n + 1]
                      /\ t # <<>> => /\ n < Len(C)
                                     /\ q = S[n + 1] \/ (C[n + 1] = "open" /\ q = S[n + 1] + 3)
<1> SUFFICES \E q \in p..(p + B) : Goal(q)
  OBVIOUS
<1>1. /\ C \in Seq(Said) /\ Len(C) \in Nat /\ n \in Nat /\ n <= Len(C)
  <2>1. C \in Seq(Said) /\ Len(C) \in Nat /\ n \in Nat /\ n <= Len(said) /\ Len(said) <= Len(C)
        /\ Len(said) \in Nat
    BY SentIs DEF Texted
  <2> QED  BY ONLY <2>1
<1>2. /\ B \in Nat /\ Len(wire) \in Nat /\ p \in Nat /\ W \in Nat
  BY DEF Fed, Reads, Held
<1>3. /\ Laid(str, S, E, C, W) /\ Placed(S, E, C, W, n, p) /\ Held(buf, str, p)
  BY DEF Fed, Reads
<1>4. \A k \in 1..B : buf[k] = str[p + k]
  BY <1>3 DEF Held
<1>5. ASSUME \A k \in 1..B : buf[k] = "blank",
             Placed(S, E, C, W, n, p + B), n < Len(C) => p + B < E[n + 1]
      PROVE  \E q \in p..(p + B) : Goal(q)
  <2>1. t = <<>>
    BY <1>5, StripNone
  <2>2. Held(t, str, p + B) /\ Len(t) = 0
    BY <2>1 DEF Held
  <2>3. Goal(p + B) /\ p + B \in p..(p + B)
    BY <1>2, <1>5, <2>1, <2>2
  <2> QED  BY <2>3, Zenon
<1>6. ASSUME NEW q \in p..(p + B), q - p < B, t = From(buf, (q - p) + 1), Placed(S, E, C, W, n, q),
             n < Len(C), q = S[n + 1] \/ (C[n + 1] = "open" /\ q = S[n + 1] + 3)
      PROVE  \E r \in p..(p + B) : Goal(r)
  <2>1. q - p \in 0..B /\ p + (q - p) = q /\ q \in Nat
    BY <1>2, <1>6
  <2>2. Held(t, str, q) /\ Len(t) = B - (q - p)
    BY <1>2, <1>3, <1>6, <2>1, HeldFrom
  <2>3. q + Len(t) = p + B /\ Len(t) # 0
    BY <1>2, <1>6, <2>1, <2>2
  <2>4. t # <<>>
    BY <2>3
  <2> HIDE DEF t, B, W, C, n
  <2>5. Goal(q)
    BY <2>1, <2>2, <2>3, <2>4, <1>6, Zenon
  <2> QED  BY <2>5, Zenon
<1> HIDE DEF Goal, t, B, W, C, n
<1>7. CASE n = Len(C)
  <2>1. p \in E[n]..W /\ E[n] \in Nat /\ \A j \in (E[n] + 1)..W : str[j] = "blank"
    <3>1. E \in [Nat -> Nat] /\ \A j \in (E[n] + 1)..W : str[j] = "blank"
      BY <1>3, <1>7, Zenon DEF Laid
    <3>2. p \in E[n]..W
      BY <1>3, <1>7, Zenon DEF Placed
    <3> QED  BY <3>1, <3>2, <1>1
  <2>2. W = p + B + Len(wire)
    BY DEF W, B
  <2>3. \A k \in 1..B : p + k \in (E[n] + 1)..W
    BY <2>1, <2>2, <1>2
  <2>4. p + B \in E[n]..W
    BY <2>1, <2>2, <1>2
  <2>5. Placed(S, E, C, W, n, p + B)
    BY <2>4, <1>1, <1>7 DEF Placed
  <2>6. \A k \in 1..B : buf[k] = "blank"
    BY <2>1, <2>3, <1>4
  <2>7. ~(n < Len(C))
    BY <1>7, <1>1
  <2> QED  BY <1>5, <2>5, <2>6, <2>7
<1>8. CASE n < Len(C)
  <2> DEFINE s == S[n + 1]
  <2>1. n + 1 \in 1..Len(C) /\ (n + 1) - 1 = n
    BY <1>1, <1>8
  <2>2. /\ s \in Nat /\ E[n + 1] \in Nat /\ E[n] \in Nat /\ E[n] <= s
        /\ Len(Text(C[n + 1])) \in Nat /\ Len(Text(C[n + 1])) >= 3
        /\ E[n + 1] = s + Len(Text(C[n + 1])) /\ E[n + 1] <= W /\ str[s + 1] = "<"
        /\ \A j \in (E[n] + 1)..s : str[j] = "blank"
        /\ \A k \in 1..Len(Text(C[n + 1])) : str[s + k] = Text(C[n + 1])[k]
    <3>1. LiesAt(C[n + 1], W, str, S[n + 1], E[(n + 1) - 1], E[n + 1])
      BY <2>1, <1>1, <1>2, <1>3, LaidAt, Zenon
    <3> QED  BY ONLY <2>1, <3>1 DEF LiesAt, s
  <2>3. p \in E[n]..s \/ (C[n + 1] = "open" /\ p = s + 3)
    BY <1>3, <1>8, Zenon DEF Placed
  <2>4. n <= Len(C) /\ n # Len(C)
    BY <1>1, <1>8
  <2> HIDE DEF s
  <2>5. s < E[n + 1]
    BY ONLY <2>2
  <2>6. CASE p \in E[n]..s /\ p + B <= s
    <3>1. /\ \A k \in 1..B : p + k \in (E[n] + 1)..s
          /\ p + B \in E[n]..s /\ p + B < E[n + 1]
      BY ONLY <2>6, <2>2, <2>5, <1>2
    <3>2. \A k \in 1..B : buf[k] = "blank"
      BY <3>1, <2>2, <1>4
    <3>3. Placed(S, E, C, W, n, p + B)
      BY <3>1, <2>4, Zenon DEF Placed, s
    <3> QED  BY <3>1, <3>2, <3>3, <1>5
  <2>7. CASE p \in E[n]..s /\ ~(p + B <= s)
    <3> DEFINE k == (s - p) + 1
    <3>1. /\ k \in 1..B /\ p + k = s + 1 /\ s \in p..(p + B) /\ s - p < B /\ s \in E[n]..s
          /\ \A j \in 1..(k - 1) : j \in 1..B /\ p + j \in (E[n] + 1)..s
      BY ONLY <2>7, <2>2, <1>2
    <3> HIDE DEF k
    <3>2. buf[k] # "blank" /\ \A j \in 1..(k - 1) : buf[j] = "blank"
      BY <3>1, <2>2, <1>4
    <3>3. t = From(buf, k)
      BY <3>1, <3>2, <1>2, StripFirst DEF t, B
    <3>4. Placed(S, E, C, W, n, s)
      BY <3>1, <2>4, Zenon DEF Placed, s
    <3> QED  BY <3>1, <3>3, <3>4, <1>6, <1>8 DEF k, s
  <2>8. CASE C[n + 1] = "open" /\ p = s + 3
    <3>1. Placed(S, E, C, W, n, p)
      BY <2>8, <2>4, Zenon DEF Placed, s
    <3>2. Text(C[n + 1])[4] = "<" /\ Len(Text(C[n + 1])) = 6
      BY <2>8, StreamTexts
    <3>3. CASE B = 0
      <4>1. p + B = p /\ p < E[n + 1]
        BY <3>3, <3>2, <2>2, <2>8
      <4>2. \A k \in 1..B : buf[k] = "blank"
        BY <3>3
      <4> QED  BY <4>1, <4>2, <3>1, <1>5
    <3>4. CASE B # 0
      <4>1. 1 \in 1..B /\ p + 1 = s + 4 /\ 4 \in 1..Len(Text(C[n + 1])) /\ p - p = 0 /\ 0 < B
            /\ p \in p..(p + B) /\ (p - p) + 1 = 1
        BY <3>4, <3>2, <2>2, <2>8, <1>2
      <4>2. buf[1] = "<"
        BY <4>1, <3>2, <2>2, <1>4
      <4>3. t = From(buf, 1)
        <5>1. \A j \in 1..(1 - 1) : buf[j] = "blank"
          OBVIOUS
        <5> QED  BY <4>1, <4>2, <5>1, <1>2, StripFirst DEF t, B
      <4> QED  BY <4>1, <4>3, <3>1, <1>6, <1>8, <2>8 DEF s
    <3> QED  BY <3>3, <3>4
  <2> QED  BY <2>3, <2>6, <2>7, <2>8
<1>9. n < Len(C) \/ n = Len(C)
  BY <1>1, LessOrSame, Zenon
<1> QED  BY <1>7, <1>8, <1>9

\* What the parser does with t when it stands at q and n units are behind.
Outcome(t, C, n, S, E, q) ==
  \/ Scan(t) = Wait(t) /\ (n < Len(C) => q + Len(t) < E[n + 1])
  \/ /\ n < Len(C) /\ C[n + 1] = "open" /\ q = S[n + 1] /\ Len(t) >= 3
     /\ Scan(t) = Turn("junk", <<>>, From(t, 4))
  \/ /\ n < Len(C) /\ C[n + 1] = "open" /\ q = S[n + 1] + 3 /\ Len(t) >= 3
     /\ Scan(t) = Turn("open", <<>>, From(t, 4))
  \/ /\ n < Len(C) /\ C[n + 1] = "close" /\ Scan(t) = Turn("close", <<>>, t)
  \/ /\ n < Len(C) /\ C[n + 1] \in Units /\ q = S[n + 1] /\ Len(t) >= Len(Text(C[n + 1]))
     /\ Scan(t) = Turn("stanza", Text(C[n + 1]), From(t, Len(Text(C[n + 1])) + 1))

\* What lies d lexemes after the beginning of u follows its text.
LEMMA FollowsThere ==
  ASSUME NEW u, NEW W, NEW str, NEW a, NEW b, NEW e, LiesAt(u, W, str, b, a, e),
         NEW d \in Nat, NEW t, Held(t, str, b + d), t # <<>>, d < Len(Text(u)), Text(u)[d + 1] = "<"
  PROVE  Follows(t, Text(u), d) /\ Len(t) \in Nat /\ Len(t) >= 2 /\ t \in Seq(Lexemes)
<1>1. /\ t \in Seq(Lexemes) /\ Len(t) \in Nat /\ Len(t) # 0 /\ t[Len(t)] # "<"
      /\ \A k \in 1..Len(t) : t[k] = str[(b + d) + k]
  BY DEF Held
<1>2. b \in Nat /\ Len(Text(u)) \in Nat /\ \A k \in 1..Len(Text(u)) : str[b + k] = Text(u)[k]
  BY DEF LiesAt
<1>3. ASSUME NEW k \in 1..Len(t), d + k <= Len(Text(u))
      PROVE  t[k] = Text(u)[d + k]
  <2>1. d + k \in 1..Len(Text(u)) /\ (b + d) + k = b + (d + k)
    BY <1>1, <1>2, <1>3
  <2> QED  BY <2>1, <1>1, <1>2
<1>4. Len(t) # 1
  <2>1. 1 \in 1..Len(t) /\ d + 1 <= Len(Text(u))
    BY <1>1, <1>2
  <2>2. t[1] = "<"
    BY <2>1, <1>3
  <2> QED  BY <2>2, <1>1
<1>5. Len(t) >= 2
  BY <1>1, <1>4, NotOne, Zenon
<1> QED  BY <1>1, <1>3, <1>5 DEF Follows

\* The beginning of a text that follows another is that text.
LEMMA FrontIs ==
  ASSUME NEW t \in Seq(Lexemes), NEW T \in Seq(Lexemes), Follows(t, T, 0), Len(t) >= Len(T)
  PROVE  SubSeq(t, 1, Len(T)) = T
<1>1. Len(t) \in Nat /\ Len(T) \in Nat
  OBVIOUS
<1>2. \A k \in 1..Len(T) : k \in 1..Len(t) /\ t[k] = T[k]
  BY <1>1 DEF Follows
<1>3. /\ SubSeq(t, 1, Len(T)) \in Seq(Lexemes) /\ Len(SubSeq(t, 1, Len(T))) = Len(T)
      /\ \A k \in 1..Len(T) : SubSeq(t, 1, Len(T))[k] = t[k]
  BY <1>1, <1>2
<1>4. \A k \in 1..Len(T) : SubSeq(t, 1, Len(T))[k] = T[k]
  BY <1>2, <1>3
<1> HIDE DEF Follows
<1> QED  BY ONLY <1>3, <1>4, T \in Seq(Lexemes), SeqEqual

\* The parser's turn, whatever has come.
LEMMA Parsed ==
  ASSUME Texted, NEW str, NEW S, NEW E, NEW p, Fed(str, S, E, p)
  PROVE  LET n == Len(handled)
             t == Strip(buf)
         IN  \E q \in p..(p + Len(buf)) :
               /\ q \in Nat /\ Held(t, str, q) /\ q + Len(t) = p + Len(buf)
               /\ Placed(S, E, Sent, p + Len(buf) + Len(wire), n, q)
               /\ Outcome(t, Sent, n, S, E, q)
<1> DEFINE n == Len(handled)  t == Strip(buf)  W == p + Len(buf) + Len(wire)  C == Sent
<1>1. PICK q \in p..(p + Len(buf)) :
         /\ q \in Nat /\ Held(t, str, q) /\ q + Len(t) = p + Len(buf)
         /\ Placed(S, E, C, W, n, q)
         /\ t = <<>> /\ n < Len(C) => q < E[n + 1]
         /\ t # <<>> => /\ n < Len(C)
                        /\ q = S[n + 1] \/ (C[n + 1] = "open" /\ q = S[n + 1] + 3)
  BY Stripped, Zenon
<1>2. C \in Seq(Said) /\ Len(C) \in Nat /\ n \in Nat
  BY SentIs DEF Texted
<1>3. W \in Nat /\ Laid(str, S, E, C, W)
  BY DEF Fed, Reads, Held
<1> SUFFICES Outcome(t, C, n, S, E, q)
  BY <1>1, Zenon
<1> HIDE DEF n, t, W, C
<1>4. CASE t = <<>>
  <2>0. Len(t) = 0 /\ ~(Len(t) >= 2)
    BY <1>4
  <2>1. Scan(t) = Wait(t)
    <3>1. /\ ~StartsWith(t, "?xml") /\ ~StartsWith(t, "/stream:stream")
          /\ ~StartsWith(t, "stream:stream")
      BY <2>0 DEF StartsWith
    <3> QED  BY <1>4, <2>0, <3>1, Zenon DEF Scan
  <2>2. q \in Nat /\ q + Len(t) = q
    BY <2>0, <1>1
  <2> QED  BY <1>1, <1>4, <2>1, <2>2 DEF Outcome
<1>5. CASE t # <<>>
  <2> DEFINE i == n + 1  u == C[i]
  <2>1. i \in 1..Len(C) /\ n < Len(C)
    BY <1>1, <1>2, <1>5
  <2>2. LiesAt(u, W, str, S[i], E[i - 1], E[i])
    <3> HIDE DEF i
    <3> QED  BY <2>1, <1>2, <1>3, LaidAt, Zenon
  <2>3. q = S[i] \/ (u = "open" /\ q = S[i] + 3)
    BY <1>1, <1>5, Zenon
  <2>4. Held(t, str, q) /\ q \in Nat
    BY <1>1
  <2>5. n < Len(C) /\ i = n + 1
    BY <2>1
  <2>6. S[i] \in Nat /\ Len(Text(u)) \in Nat /\ E[i] = S[i] + Len(Text(u)) /\ u \in Said
        /\ Len(Text(u)) >= 3
    BY <2>2 DEF LiesAt
  <2> HIDE DEF i, u
  <2>7. CASE q = S[i]
    <3>1. Text(u)[0 + 1] = "<" /\ S[i] + 0 = q /\ 0 < Len(Text(u)) /\ 0 \in Nat
      <4>1. u # "space"
        BY <2>6 DEF Said, Heard, Units, IqKinds, MessageKinds
      <4> QED  BY <2>6, <2>7, <4>1, TextTypes
    <3>2. Follows(t, Text(u), 0) /\ Len(t) \in Nat /\ Len(t) >= 2 /\ t \in Seq(Lexemes)
      BY <3>1, <2>2, <2>4, <1>5, FollowsThere
    <3>3. CASE u = "open"
      <4>1. CASE Len(t) = 2
        <5>1. Scan(t) = Wait(t)
          BY <4>1, <3>2, <3>3, ScanHeader, Zenon
        <5>2. Len(Text(u)) = 6
          BY <3>3, StreamTexts
        <5>3. q + Len(t) < E[n + 1]
          BY <4>1, <5>2, <2>6, <2>7, <2>5
        <5> QED  BY <5>1, <5>3 DEF Outcome
      <4>2. CASE Len(t) # 2
        <5>1. Len(t) >= 3
          BY <4>2, <3>2, TwoOrMore, Zenon
        <5>2. Scan(t) = Turn("junk", <<>>, From(t, 4))
          BY <4>2, <3>2, <3>3, ScanHeader, Zenon
        <5> QED  BY <5>1, <5>2, <2>5, <2>7, <3>3 DEF Outcome, u
      <4> QED  BY <4>1, <4>2
    <3>4. CASE u = "close"
      <4>1. Scan(t) = Turn("close", <<>>, t)
        BY <3>2, <3>4, ScanClose
      <4> QED  BY <4>1, <2>5, <3>4 DEF Outcome, u
    <3>5. CASE u \in Units
      <4>1. StanzaText(Text(u)) /\ Text(u) \in Seq(Lexemes)
        BY <3>5, <2>6, UnitShapes, TextTypes
      <4>2. CASE Len(t) >= Len(Text(u))
        <5>1. Scan(t) = Turn("stanza", Text(u), From(t, Len(Text(u)) + 1))
          BY <4>1, <4>2, <3>2, ScanFull, FrontIs
        <5> QED  BY <5>1, <4>2, <2>5, <2>7, <3>5 DEF Outcome, u
      <4>3. CASE ~(Len(t) >= Len(Text(u)))
        <5>1. Len(t) < Len(Text(u))
          BY <4>3, <3>2, <2>6
        <5>2. Scan(t) = Wait(t)
          BY <5>1, <4>1, <3>2, ScanPart
        <5>3. q + Len(t) < E[n + 1]
          BY <5>1, <3>2, <2>5, <2>6, <2>7
        <5> QED  BY <5>2, <5>3 DEF Outcome
      <4> QED  BY <4>2, <4>3
    <3> QED  BY <3>3, <3>4, <3>5, <2>6 DEF Said, Heard
  <2>8. CASE u = "open" /\ q = S[i] + 3
    <3>1. Text(u)[3 + 1] = "<" /\ 3 < Len(Text(u)) /\ 3 \in Nat /\ Len(Text(u)) = 6
      BY <2>8, StreamTexts
    <3>2. Follows(t, Text(u), 3) /\ Len(t) \in Nat /\ Len(t) >= 2 /\ t \in Seq(Lexemes)
      BY <3>1, <2>2, <2>4, <2>8, <1>5, FollowsThere
    <3>3. CASE Len(t) = 2
      <4>1. Scan(t) = Wait(t)
        BY <3>2, <3>3, <2>8, ScanOpen, Zenon
      <4>2. q + Len(t) < E[n + 1]
        BY <3>1, <3>3, <2>6, <2>8, <2>5
      <4> QED  BY <4>1, <4>2 DEF Outcome
    <3>4. CASE Len(t) # 2
      <4>1. Len(t) >= 3
        BY <3>4, <3>2, TwoOrMore, Zenon
      <4>2. Scan(t) = Turn("open", <<>>, From(t, 4))
        BY <3>4, <3>2, <2>8, ScanOpen, Zenon
      <4> QED  BY <4>1, <4>2, <2>5, <2>8 DEF Outcome, u
    <3> QED  BY <3>3, <3>4
  <2> QED  BY <2>3, <2>7, <2>8
<1> QED  BY <1>4, <1>5
-----------------------------------------------------------------------------
(* Every step keeps the buffer and the wire where they are in the stream.  *)

\* The fields of a turn.
LEMMA TurnIs ==
  /\ \A a, b, c : Turn(a, b, c).take = a /\ Turn(a, b, c).what = b /\ Turn(a, b, c).rest = c
  /\ \A c : Wait(c).take = "wait" /\ Wait(c).rest = c
BY DEF Turn, Wait

\* A turn's take says how the parser stands.
LEMMA OutcomeIs ==
  ASSUME NEW t, NEW C, NEW n, NEW S, NEW E, NEW q, Outcome(t, C, n, S, E, q)
  PROVE  /\ Scan(t).take = "wait" => /\ Scan(t).rest = t
                                     /\ n < Len(C) => q + Len(t) < E[n + 1]
         /\ Scan(t).take = "junk" => /\ n < Len(C) /\ C[n + 1] = "open" /\ q = S[n + 1]
                                     /\ Len(t) >= 3 /\ Scan(t).rest = From(t, 4)
         /\ Scan(t).take = "open" => /\ n < Len(C) /\ C[n + 1] = "open" /\ q = S[n + 1] + 3
                                     /\ Len(t) >= 3 /\ Scan(t).rest = From(t, 4)
         /\ Scan(t).take = "stanza" => /\ n < Len(C) /\ C[n + 1] \in Units /\ q = S[n + 1]
                                       /\ Len(t) >= Len(Text(C[n + 1]))
                                       /\ Scan(t).what = Text(C[n + 1])
                                       /\ Scan(t).rest = From(t, Len(Text(C[n + 1])) + 1)
BY TurnIs DEF Outcome

\* The turn of Turns is the one that Scan takes.
LEMMA TurnsAre == \A turn \in Turns : turn = Scan(Strip(buf))
BY DEF Turns

\* The parser has moved to q.
LEMMA Moves ==
  ASSUME NEW str, NEW S, NEW E, NEW p, Fed(str, S, E, p), NEW q \in Nat, Held(buf', str, q),
         q + Len(buf') = p + Len(buf), wire' = wire, Sent' = Sent,
         Placed(S, E, Sent, p + Len(buf) + Len(wire), Len(handled'), q),
         (pc' = "recv" /\ alive' /\ Len(handled') < Len(Sent)) => q + Len(buf') < E[Len(handled') + 1]
  PROVE  Fed(str, S, E, q)'
<1>1. /\ Laid(str, S, E, Sent, p + Len(buf) + Len(wire))
      /\ wire \in Seq(Lexemes) /\ \A j \in 1..Len(wire) : wire[j] = str[p + Len(buf) + j]
  BY DEF Fed, Reads
<1>2. Reads(str, q)'
  BY <1>1 DEF Reads
<1> QED  BY <1>1, <1>2 DEF Fed

\* The unit after the first n has been taken whole.
LEMMA PlacedNext ==
  ASSUME NEW C \in Seq(Said), NEW W \in Nat, NEW str, NEW S, NEW E, Laid(str, S, E, C, W),
         NEW n \in Nat, n < Len(C)
  PROVE  Placed(S, E, C, W, n + 1, E[n + 1])
<1>1. Len(C) \in Nat /\ n + 1 \in 1..Len(C)
  OBVIOUS
<1>2. LiesAt(C[n + 1], W, str, S[n + 1], E[(n + 1) - 1], E[n + 1])
  <2> DEFINE i == n + 1
  <2>1. i \in 1..Len(C)
    BY <1>1
  <2> HIDE DEF i
  <2>2. LiesAt(C[i], W, str, S[i], E[i - 1], E[i])
    BY <2>1, LaidAt, Zenon
  <2> QED  BY <2>2 DEF i
<1>3. E[n + 1] \in Nat /\ E[n + 1] <= W
  BY <1>2 DEF LiesAt
<1>4. E[n + 1] \in E[n + 1]..W /\ n + 1 <= Len(C)
  BY <1>1, <1>3
<1>5. n + 1 < Len(C) => E[n + 1] \in E[n + 1]..S[(n + 1) + 1]
  <2>1. SUFFICES ASSUME n + 1 < Len(C) PROVE E[n + 1] \in E[n + 1]..S[(n + 1) + 1]
    OBVIOUS
  <2> DEFINE i == (n + 1) + 1
  <2>2. i \in 1..Len(C) /\ i - 1 = n + 1
    BY <2>1, <1>1
  <2> HIDE DEF i
  <2>3. LiesAt(C[i], W, str, S[i], E[i - 1], E[i])
    BY <2>2, LaidAt, Zenon
  <2>4. E[n + 1] <= S[i] /\ S[i] \in Nat
    BY <2>2, <2>3 DEF LiesAt
  <2> QED  BY <2>4, <1>3 DEF i
<1> QED  BY <1>4, <1>5 DEF Placed

\* The parser waits for more.
LEMMA WaitsKeeps == ASSUME StreamInv, Waits PROVE StreamInv'
<1> DEFINE n == Len(handled)  t == Strip(buf)
<1>1. PICK str, S, E, p : Texted /\ Fed(str, S, E, p)
  BY DEF StreamInv
<1>2. PICK q \in p..(p + Len(buf)) :
         /\ q \in Nat /\ Held(t, str, q) /\ q + Len(t) = p + Len(buf)
         /\ Placed(S, E, Sent, p + Len(buf) + Len(wire), n, q)
         /\ Outcome(t, Sent, n, S, E, q)
  BY <1>1, Parsed, Zenon
<1> HIDE DEF n, t
<1>3. Scan(t).take = "wait" /\ buf' = Scan(t).rest
  BY TurnsAre DEF Waits, t
<1>4. buf' = t /\ (n < Len(Sent) => q + Len(t) < E[n + 1])
  BY <1>2, <1>3, OutcomeIs, Zenon
<1>5. handled' = handled /\ wire' = wire /\ said' = said /\ rabbit' = rabbit
  BY DEF Waits, peer
<1>6. Sent' = Sent /\ Texted'
  BY <1>1, <1>5 DEF Sent, Texted
<1>7. Len(handled') = n
  BY <1>5 DEF n
<1>8. Fed(str, S, E, q)'
  BY <1>1, <1>2, <1>4, <1>5, <1>6, <1>7, Moves
<1> QED  BY <1>6, <1>8 DEF StreamInv

\* It takes the declaration of a header off.
LEMMA SkipsKeeps == ASSUME StreamInv, Skips PROVE StreamInv'
<1> DEFINE n == Len(handled)  t == Strip(buf)
<1>1. PICK str, S, E, p : Texted /\ Fed(str, S, E, p)
  BY DEF StreamInv
<1>2. PICK q \in p..(p + Len(buf)) :
         /\ q \in Nat /\ Held(t, str, q) /\ q + Len(t) = p + Len(buf)
         /\ Placed(S, E, Sent, p + Len(buf) + Len(wire), n, q)
         /\ Outcome(t, Sent, n, S, E, q)
  BY <1>1, Parsed, Zenon
<1> HIDE DEF n, t
<1>3. Scan(t).take = "junk" /\ buf' = Scan(t).rest
  BY TurnsAre DEF Skips, t
<1>4. /\ n < Len(Sent) /\ Sent[n + 1] = "open" /\ q = S[n + 1] /\ Len(t) >= 3
      /\ buf' = From(t, 4)
  <2>1. Outcome(t, Sent, n, S, E, q)
    BY <1>2
  <2>2. /\ n < Len(Sent) /\ Sent[n + 1] = "open" /\ q = S[n + 1] /\ Len(t) >= 3
        /\ Scan(t).rest = From(t, 4)
    BY ONLY <2>1, <1>3, OutcomeIs
  <2> QED  BY <2>2, <1>3, Zenon
<1>5. handled' = handled /\ wire' = wire /\ said' = said /\ rabbit' = rabbit /\ pc' = "parse"
  BY DEF Skips, peer
<1>6. Sent' = Sent /\ Texted'
  BY <1>1, <1>5 DEF Sent, Texted
<1>7. Len(handled') = n
  BY <1>5 DEF n
<1>8. Held(buf', str, q + 3) /\ Len(buf') = Len(t) - 3 /\ Len(t) \in Nat
  <2>1. 3 \in 0..Len(t) /\ 3 + 1 = 4 /\ Len(t) \in Nat
    BY <1>2, <1>4 DEF Held
  <2> QED  BY <2>1, <1>2, <1>4, HeldFrom
<1>9. n <= Len(Sent) /\ n # Len(Sent)
  <2>1. n \in Nat /\ Len(Sent) \in Nat
    BY <1>1, SentIs DEF Texted, n
  <2> QED  BY <2>1, <1>4
<1>10. Placed(S, E, Sent, p + Len(buf) + Len(wire), n, q + 3)
  BY <1>4, <1>9 DEF Placed
<1>11. q + 3 \in Nat /\ (q + 3) + Len(buf') = p + Len(buf)
  BY <1>2, <1>8
<1>12. Fed(str, S, E, q + 3)'
  BY <1>1, <1>5, <1>6, <1>7, <1>8, <1>10, <1>11, Moves
<1> QED  BY <1>6, <1>12 DEF StreamInv

\* After the end of the stream nothing is taken.
LEMMA ClosesKeeps == ASSUME StreamInv, StreamCloses PROVE StreamInv'
<1>1. PICK str, S, E, p : Texted /\ Fed(str, S, E, p)
  BY DEF StreamInv
<1>2. /\ handled' = handled /\ wire' = wire /\ said' = said /\ rabbit' = rabbit /\ buf' = buf
      /\ alive' = FALSE
  BY DEF StreamCloses, peer
<1>3. Sent' = Sent /\ Texted'
  BY <1>1, <1>2 DEF Sent, Texted
<1>4. Fed(str, S, E, p)'
  BY <1>1, <1>2, <1>3 DEF Fed, Reads
<1> QED  BY <1>3, <1>4 DEF StreamInv

\* A unit is passed, and it is the next one that was said.
LEMMA Passes ==
  ASSUME Texted, NEW str, NEW S, NEW E, NEW p, Fed(str, S, E, p),
         NEW q \in Nat, NEW t, Held(t, str, q), q + Len(t) = p + Len(buf),
         Len(handled) < Len(Sent), Sent[Len(handled) + 1] # "close",
         NEW d \in 0..Len(t), q + d = E[Len(handled) + 1], buf' = From(t, d + 1),
         handled' = Append(handled, Sent[Len(handled) + 1]),
         pc' = "parse", wire' = wire, said' = said, rabbit' = rabbit
  PROVE  StreamInv' /\ Len(handled) < Len(said) /\ said[Len(handled) + 1] = Sent[Len(handled) + 1]
<1> DEFINE n == Len(handled)  u == Sent[n + 1]
<1>1. /\ n \in Nat /\ Sent \in Seq(Said) /\ Len(Sent) \in Nat /\ Len(said) \in Nat
      /\ \A i \in 1..Len(said) : Sent[i] = said[i]
      /\ \A i \in 1..Len(Sent) : Sent[i] # "close" => i <= Len(said) /\ Sent[i] \in Heard
  BY SentIs DEF Texted
<1>2. n + 1 \in 1..Len(Sent)
  BY <1>1
<1>3. n + 1 <= Len(said) /\ u \in Heard
  BY <1>1, <1>2
<1>4. n + 1 \in 1..Len(said) /\ n < Len(said) /\ u = said[n + 1]
  BY <1>1, <1>3
<1>5. /\ handled' \in Seq(Heard) /\ Len(handled') = n + 1 /\ handled'[n + 1] = u
      /\ \A i \in 1..n : handled'[i] = handled[i]
  BY <1>3 DEF Texted
<1>6. Texted'
  <2>1. \A i \in 1..(n + 1) : i \in 1..n \/ i = n + 1
    BY <1>1
  <2>2. \A i \in 1..Len(handled') : handled'[i] = said[i]
    BY <2>1, <1>4, <1>5 DEF Texted
  <2> QED  BY <2>2, <1>3, <1>5 DEF Texted
<1>7. Sent' = Sent
  BY DEF Sent
<1>8. Held(buf', str, q + d) /\ Len(buf') = Len(t) - d /\ Len(t) \in Nat /\ d \in Nat
  <2>1. Len(t) \in Nat
    BY DEF Held
  <2> QED  BY <2>1, HeldFrom
<1>9. q + d \in Nat /\ (q + d) + Len(buf') = p + Len(buf)
  <2>1. q \in Nat /\ q + Len(t) = p + Len(buf)
    OBVIOUS
  <2>2. (q + d) + Len(buf') = q + Len(t)
    BY ONLY <2>1, <1>8
  <2> QED  BY ONLY <2>1, <2>2, <1>8
<1>10. Placed(S, E, Sent, p + Len(buf) + Len(wire), n + 1, q + d)
  <2>1. p + Len(buf) + Len(wire) \in Nat /\ Laid(str, S, E, Sent, p + Len(buf) + Len(wire))
    BY DEF Fed, Reads, Held
  <2>2. Placed(S, E, Sent, p + Len(buf) + Len(wire), n + 1, E[n + 1])
    BY <2>1, <1>1, PlacedNext
  <2> QED  BY <2>2
<1>11. Fed(str, S, E, q + d)'
  <2> HIDE DEF n
  <2>1. Len(handled') = n + 1 /\ pc' # "recv"
    BY <1>5
  <2> QED  BY <2>1, <1>7, <1>8, <1>9, <1>10, Moves
<1> QED  BY <1>4, <1>6, <1>11 DEF StreamInv

Binds == {"bind_boot", "bind_idle"}
Replies == {"features_sasl", "features_bind", "form", "registered", "challenge", "success",
            "jid_boot", "jid_idle", "result_session", "init_packet", "result_unbind",
            "result_ping", "presence"}

\* What a stanza does to the session and to the rabbit's mail.
Hearing ==
  LET n == Len(handled)
      u == said[n + 1]
  IN  /\ n < Len(said) /\ handled' = Append(handled, u)
      /\ toRabbit' = IF u \in Answered THEN Append(toRabbit, Reply(u, authed)) ELSE toRabbit
      /\ authed' = (authed \/ u = "response")
      /\ resource' = IF u \in Binds THEN Resources[u] ELSE resource

\* The header of a stream is heard,
LEMMA OpensHears ==
  ASSUME StreamInv, StreamOpens, authed \in BOOLEAN
  PROVE  StreamInv' /\ Hearing
<1> DEFINE n == Len(handled)  t == Strip(buf)
<1>1. PICK str, S, E, p : Texted /\ Fed(str, S, E, p)
  BY DEF StreamInv
<1>2. PICK q \in p..(p + Len(buf)) :
         /\ q \in Nat /\ Held(t, str, q) /\ q + Len(t) = p + Len(buf)
         /\ Placed(S, E, Sent, p + Len(buf) + Len(wire), n, q)
         /\ Outcome(t, Sent, n, S, E, q)
  BY <1>1, Parsed, Zenon
<1> HIDE DEF n, t
<1>3. Scan(t).take = "open" /\ buf' = Scan(t).rest
  BY TurnsAre DEF StreamOpens, t
<1>4. /\ n < Len(Sent) /\ Sent[n + 1] = "open" /\ q = S[n + 1] + 3 /\ Len(t) >= 3
      /\ buf' = From(t, 4)
  <2>1. Outcome(t, Sent, n, S, E, q)
    BY <1>2
  <2>2. /\ n < Len(Sent) /\ Sent[n + 1] = "open" /\ q = S[n + 1] + 3 /\ Len(t) >= 3
        /\ Scan(t).rest = From(t, 4)
    BY ONLY <2>1, <1>3, OutcomeIs
  <2> QED  BY <2>2, <1>3, Zenon
<1>5. /\ handled' = Append(handled, "open") /\ wire' = wire /\ said' = said /\ rabbit' = rabbit
      /\ pc' = "parse" /\ authed' = authed /\ resource' = resource
      /\ toRabbit' = Append(toRabbit, IF authed THEN "features_bind" ELSE "features_sasl")
  BY DEF StreamOpens, peer
<1>6. 3 \in 0..Len(t) /\ 3 + 1 = 4 /\ q + 3 = E[n + 1]
  <2>1. n \in Nat /\ Sent \in Seq(Said) /\ Len(Sent) \in Nat
    BY <1>1, SentIs DEF Texted, n
  <2>2. p + Len(buf) + Len(wire) \in Nat /\ Laid(str, S, E, Sent, p + Len(buf) + Len(wire))
    BY <1>1 DEF Fed, Reads, Held
  <2> DEFINE i == n + 1
  <2>3. i \in 1..Len(Sent)
    BY <2>1, <1>4
  <2> HIDE DEF i
  <2>4. LiesAt(Sent[i], p + Len(buf) + Len(wire), str, S[i], E[i - 1], E[i])
    BY <2>1, <2>2, <2>3, LaidAt
  <2>5. E[i] = S[i] + 6 /\ S[i] \in Nat
    BY <2>4, <1>4, StreamTexts DEF LiesAt, i
  <2>6. Len(t) \in Nat
    BY <1>2 DEF Held
  <2> QED  BY <2>5, <2>6, <1>4 DEF i
<1>7. /\ StreamInv' /\ n < Len(said) /\ said[n + 1] = "open"
  <2>1. Sent[n + 1] # "close" /\ handled' = Append(handled, Sent[n + 1]) /\ buf' = From(t, 3 + 1)
    BY <1>4, <1>5, <1>6
  <2>2. StreamInv' /\ n < Len(said) /\ said[n + 1] = Sent[n + 1]
    BY <1>1, <1>2, <1>4, <1>5, <1>6, <2>1, Passes DEF n
  <2> QED  BY <2>2, <1>4
<1>8. "open" \in Answered /\ "open" \notin Binds
  BY DEF Answered, Heard, MessageKinds, Binds
<1>9. Hearing
  <2>1. authed' = (authed \/ "open" = "response")
    BY <1>5
  <2>2. Reply("open", authed) = IF authed THEN "features_bind" ELSE "features_sasl"
    BY DEF Reply
  <2> QED  BY <1>5, <1>7, <1>8, <2>1, <2>2, Zenon DEF Hearing, n
<1> QED  BY <1>7, <1>9

\* and so is a stanza.
LEMMA HandleHears ==
  ASSUME StreamInv, Handle, toRabbit \in Seq(Replies)
  PROVE  StreamInv' /\ Hearing
<1> DEFINE n == Len(handled)  t == Strip(buf)  u == Sent[n + 1]
<1>1. PICK str, S, E, p : Texted /\ Fed(str, S, E, p)
  BY DEF StreamInv
<1>2. PICK q \in p..(p + Len(buf)) :
         /\ q \in Nat /\ Held(t, str, q) /\ q + Len(t) = p + Len(buf)
         /\ Placed(S, E, Sent, p + Len(buf) + Len(wire), n, q)
         /\ Outcome(t, Sent, n, S, E, q)
  BY <1>1, Parsed, Zenon
<1> DEFINE st == Scan(t).what
<1>3. /\ Scan(t).take = "stanza" /\ buf' = Scan(t).rest
      /\ handled' = Append(handled, KindOf(st)) /\ toRabbit' = toRabbit \o Answer(st)
      /\ authed' = (authed \/ Branch(st) = "response")
      /\ resource' = IF Branch(st) = "bind" THEN BoundResource(st) ELSE resource
  BY TurnsAre, Zenon DEF Handle
<1> HIDE DEF n, t
<1>4. /\ n < Len(Sent) /\ u \in Units /\ q = S[n + 1] /\ Len(t) >= Len(Text(u))
      /\ st = Text(u) /\ buf' = From(t, Len(Text(u)) + 1)
  <2>1. Outcome(t, Sent, n, S, E, q)
    BY <1>2
  <2>2. /\ n < Len(Sent) /\ u \in Units /\ q = S[n + 1] /\ Len(t) >= Len(Text(u))
        /\ st = Text(u) /\ Scan(t).rest = From(t, Len(Text(u)) + 1)
    BY ONLY <2>1, <1>3, OutcomeIs
  <2> QED  BY <2>2, <1>3, Zenon
<1> HIDE DEF st
<1>5. /\ wire' = wire /\ said' = said /\ rabbit' = rabbit /\ pc' = "parse"
  BY DEF Handle, peer
<1>6. Len(Text(u)) \in 0..Len(t) /\ q + Len(Text(u)) = E[n + 1]
  <2>1. n \in Nat /\ Sent \in Seq(Said) /\ Len(Sent) \in Nat
    BY <1>1, SentIs DEF Texted, n
  <2>2. p + Len(buf) + Len(wire) \in Nat /\ Laid(str, S, E, Sent, p + Len(buf) + Len(wire))
    BY <1>1 DEF Fed, Reads, Held
  <2> DEFINE i == n + 1
  <2>3. i \in 1..Len(Sent)
    BY <2>1, <1>4
  <2> HIDE DEF i
  <2>4. LiesAt(Sent[i], p + Len(buf) + Len(wire), str, S[i], E[i - 1], E[i])
    BY <2>1, <2>2, <2>3, LaidAt
  <2>5. E[i] = S[i] + Len(Text(u)) /\ S[i] \in Nat /\ Len(Text(u)) \in Nat
    BY <2>4 DEF LiesAt, i
  <2>6. Len(t) \in Nat
    BY <1>2 DEF Held
  <2> QED  BY <2>5, <2>6, <1>4 DEF i
<1>7. /\ KindOf(st) = u /\ Answer(st) = IF u \in Answered THEN <<ReplyOf(u)>> ELSE <<>>
      /\ Branch(st) = "response" <=> u = "response"
      /\ Branch(st) = "bind" <=> u \in Binds
      /\ u \in Binds => BoundResource(st) = Resources[u]
  BY <1>4, HandleIs DEF Binds
<1>8. StreamInv' /\ n < Len(said) /\ said[n + 1] = u
  <2>1. u # "close"
    BY <1>4 DEF Units, IqKinds, MessageKinds
  <2>2. handled' = Append(handled, u)
    BY <1>3, <1>7
  <2> HIDE DEF u
  <2>3. StreamInv' /\ n < Len(said) /\ said[n + 1] = Sent[n + 1]
    BY <1>1, <1>2, <1>4, <1>5, <1>6, <2>1, <2>2, Passes DEF n, u
  <2> QED  BY <2>3 DEF u
<1>9. toRabbit' = IF u \in Answered THEN Append(toRabbit, Reply(u, authed)) ELSE toRabbit
  <2>1. u # "open"
    BY <1>4 DEF Units, IqKinds, MessageKinds
  <2>2. Reply(u, authed) = ReplyOf(u)
    BY <2>1 DEF Reply
  <2> HIDE DEF u
  <2>3. CASE u \in Answered
    <3>1. toRabbit' = toRabbit \o <<ReplyOf(u)>>
      BY <2>3, <1>3, <1>7
    <3> QED  BY ONLY <3>1, <2>2, <2>3, toRabbit \in Seq(Replies)
  <2>4. CASE u \notin Answered
    <3>1. toRabbit' = toRabbit \o <<>>
      BY <2>4, <1>3, <1>7
    <3> QED  BY ONLY <3>1, <2>4, toRabbit \in Seq(Replies)
  <2> QED  BY <2>3, <2>4
<1> HIDE DEF u
<1>10. Hearing
  BY <1>3, <1>7, <1>8, <1>9 DEF Hearing, n
<1> QED  BY <1>8, <1>10

\* One text after another.
LEMMA Joined ==
  ASSUME NEW a \in Seq(Lexemes), NEW b \in Seq(Lexemes)
  PROVE  /\ a \o b \in Seq(Lexemes) /\ Len(a \o b) = Len(a) + Len(b)
         /\ \A k \in 1..Len(a) : (a \o b)[k] = a[k]
         /\ \A k \in 1..Len(b) : (a \o b)[Len(a) + k] = b[k]
<1> DEFINE c == a \o b
<1>1. Len(a) \in Nat /\ Len(b) \in Nat
  OBVIOUS
<1>2. c \in Seq(Lexemes) /\ Len(c) = Len(a) + Len(b)
  BY ConcatProperties
<1>3. \A k \in 1..(Len(a) + Len(b)) : c[k] = IF k <= Len(a) THEN a[k] ELSE b[k - Len(a)]
  BY ConcatProperties
<1> HIDE DEF c
<1>4. \A k \in 1..Len(b) : /\ Len(a) + k \in 1..(Len(a) + Len(b)) /\ ~(Len(a) + k <= Len(a))
                           /\ (Len(a) + k) - Len(a) = k
  BY <1>1
<1>5. \A k \in 1..Len(a) : k \in 1..(Len(a) + Len(b)) /\ k <= Len(a)
  BY <1>1
<1> QED  BY <1>2, <1>3, <1>4, <1>5 DEF c

\* TCP hands over what is first on the wire, and no segment ends after a "<".
LEMMA RecvKeeps ==
  ASSUME StreamInv, ~CutsAnywhere, NEW m \in 1..Len(wire), Recv(m)
  PROVE  StreamInv'
<1>1. PICK str, S, E, p : Texted /\ Fed(str, S, E, p)
  BY DEF StreamInv
<1>2. /\ wire[m] # "<" /\ buf' = buf \o SubSeq(wire, 1, m) /\ wire' = From(wire, m + 1)
      /\ pc' = "parse" /\ handled' = handled /\ said' = said /\ rabbit' = rabbit
  BY DEF Recv, peer
<1>3. Sent' = Sent /\ Texted'
  BY <1>1, <1>2 DEF Sent, Texted
<1>4. /\ buf \in Seq(Lexemes) /\ wire \in Seq(Lexemes) /\ Len(buf) \in Nat /\ Len(wire) \in Nat
      /\ p \in Nat /\ \A k \in 1..Len(buf) : buf[k] = str[p + k]
      /\ \A j \in 1..Len(wire) : wire[j] = str[p + Len(buf) + j]
  BY <1>1 DEF Fed, Reads, Held
<1>5. m \in Nat /\ m >= 1 /\ m <= Len(wire) /\ m + 1 \in 1..(Len(wire) + 1)
  BY <1>4
<1> DEFINE x == SubSeq(wire, 1, m)
<1>6. x \in Seq(Lexemes) /\ Len(x) = m /\ \A k \in 1..m : x[k] = wire[k]
  BY <1>4, <1>5
<1> HIDE DEF x
<1>7. /\ buf' \in Seq(Lexemes) /\ Len(buf') = Len(buf) + m
      /\ \A k \in 1..Len(buf) : buf'[k] = buf[k]
      /\ \A k \in 1..m : buf'[Len(buf) + k] = wire[k]
  <2>1. buf' = buf \o x
    BY <1>2 DEF x
  <2> QED  BY <2>1, <1>4, <1>6, Joined
<1>8. Held(buf', str, p)
  <2>1. \A k \in 1..Len(buf') : buf'[k] = str[p + k]
    <3>1. SUFFICES ASSUME NEW k \in 1..Len(buf') PROVE buf'[k] = str[p + k]
      OBVIOUS
    <3>2. CASE k <= Len(buf)
      <4>1. k \in 1..Len(buf)
        BY <3>2, <1>4
      <4> QED  BY <4>1, <1>4, <1>7
    <3>3. CASE ~(k <= Len(buf))
      <4>1. /\ k - Len(buf) \in 1..m /\ Len(buf) + (k - Len(buf)) = k
            /\ p + Len(buf) + (k - Len(buf)) = p + k /\ k - Len(buf) \in 1..Len(wire)
        BY <3>3, <1>4, <1>5, <1>7
      <4>2. buf'[k] = wire[k - Len(buf)]
        BY <4>1, <1>7
      <4> QED  BY <4>1, <4>2, <1>4
    <3> QED  BY <3>2, <3>3
  <2>2. buf'[Len(buf')] # "<"
    <3>1. m \in 1..m
      BY <1>5
    <3> QED  BY <3>1, <1>2, <1>7
  <2> QED  BY <2>1, <2>2, <1>7 DEF Held
<1>9. /\ wire' \in Seq(Lexemes) /\ Len(wire') = Len(wire) - m
      /\ \A j \in 1..(Len(wire) - m) : wire'[j] = wire[m + j]
  <2>1. /\ wire' \in Seq(Lexemes) /\ Len(wire') = Len(wire) - (m + 1) + 1
        /\ \A j \in 1..(Len(wire) - (m + 1) + 1) : wire'[j] = wire[(m + 1) + j - 1]
    BY <1>2, <1>4, <1>5, FromIs
  <2>2. Len(wire) - (m + 1) + 1 = Len(wire) - m /\ \A j \in Int : (m + 1) + j - 1 = m + j
    BY <1>4, <1>5
  <2>3. \A j \in 1..(Len(wire) - m) : j \in Int
    BY <1>4, <1>5
  <2> QED  BY <2>1, <2>2, <2>3
<1>10. \A j \in 1..Len(wire') : wire'[j] = str[p + Len(buf') + j]
  <2>1. SUFFICES ASSUME NEW j \in 1..(Len(wire) - m) PROVE wire'[j] = str[p + (Len(buf) + m) + j]
    BY <1>7, <1>9
  <2>2. m + j \in 1..Len(wire) /\ p + Len(buf) + (m + j) = p + (Len(buf) + m) + j
    BY <1>4, <1>5
  <2> QED  BY <2>2, <1>4, <1>9
<1>11. p + Len(buf') + Len(wire') = p + Len(buf) + Len(wire)
  BY <1>4, <1>5, <1>7, <1>9
<1>12. Reads(str, p)'
  BY <1>8, <1>9, <1>10 DEF Reads
<1>13. Fed(str, S, E, p)'
  BY <1>1, <1>2, <1>3, <1>11, <1>12 DEF Fed
<1> QED  BY <1>3, <1>13 DEF StreamInv

\* The rabbit writes one more unit,
LEMMA Writes ==
  ASSUME StreamInv, NEW u \in Said, wire' = wire \o Text(u), Sent' = Append(Sent, u), server' = server,
         said' = said \/ (u \in Heard /\ said' = Append(said, u))
  PROVE  StreamInv'
<1> DEFINE n == Len(handled)  L == Len(Text(u))
<1>1. PICK str, S, E, p : Texted /\ Fed(str, S, E, p)
  BY DEF StreamInv
<1> DEFINE V == p + Len(buf) + Len(wire)  N == Len(Sent)
<1>2. buf' = buf /\ pc' = pc /\ alive' = alive /\ handled' = handled
  BY DEF server
<1>3. /\ Sent \in Seq(Said) /\ N \in Nat /\ n \in Nat /\ n <= N
  <2>1. /\ Sent \in Seq(Said) /\ N \in Nat /\ n \in Nat /\ n <= Len(said) /\ Len(said) <= N
        /\ Len(said) \in Nat
    BY <1>1, SentIs DEF Texted
  <2> QED  BY ONLY <2>1
<1>4. /\ Laid(str, S, E, Sent, V) /\ Placed(S, E, Sent, V, n, p) /\ Held(buf, str, p)
      /\ wire \in Seq(Lexemes) /\ Len(wire) \in Nat /\ Len(buf) \in Nat /\ p \in Nat /\ V \in Nat
      /\ \A k \in 1..Len(buf) : buf[k] = str[p + k]
      /\ \A j \in 1..Len(wire) : wire[j] = str[p + Len(buf) + j]
  BY <1>1 DEF Fed, Reads, Held
<1>5. Text(u) \in Seq(Lexemes) /\ L \in Nat /\ L # 0
  BY TextTypes
<1>6. Texted'
  <2>1. CASE said' = said
    BY <2>1, <1>1, <1>2 DEF Texted
  <2>2. CASE u \in Heard /\ said' = Append(said, u)
    <3>1. /\ said' \in Seq(Heard) /\ Len(said') = Len(said) + 1 /\ Len(said) \in Nat
          /\ \A i \in 1..Len(said) : said'[i] = said[i]
      BY <2>2, <1>1 DEF Texted
    <3>2. \A i \in 1..n : i \in 1..Len(said)
      BY <1>1, <1>3, <3>1 DEF Texted
    <3>3. n <= Len(said')
      BY <1>1, <1>3, <3>1 DEF Texted
    <3> QED  BY <3>1, <3>2, <3>3, <1>1, <1>2 DEF Texted
  <2> QED  BY <2>1, <2>2
<1>6a. PICK str2, S2, E2 : LaidOn(Sent, u, V, str, S, E, str2, S2, E2)
  BY <1>3, <1>4, LaidMore, Zenon
<1>7. /\ Laid(str2, S2, E2, Append(Sent, u), V + L)
      /\ \A j \in 1..V : str2[j] = str[j]
      /\ \A k \in 1..L : str2[V + k] = Text(u)[k]
      /\ \A i \in 0..N : S2[i] = S[i] /\ E2[i] = E[i]
      /\ S2[N + 1] = V /\ E2[N + 1] = V + L
  BY <1>6a, Zenon DEF LaidOn
<1>8. /\ wire' \in Seq(Lexemes) /\ Len(wire') = Len(wire) + L
      /\ \A j \in 1..Len(wire) : wire'[j] = wire[j]
      /\ \A j \in 1..L : wire'[Len(wire) + j] = Text(u)[j]
  BY <1>4, <1>5, Joined
<1> DEFINE D == Append(Sent, u)
<1>9. Len(D) = N + 1 /\ D[N + 1] = u /\ \A i \in 1..N : D[i] = Sent[i]
  BY <1>3
<1>10. V = p + Len(buf) + Len(wire) /\ p + Len(buf') + Len(wire') = V + L
  BY <1>2, <1>4, <1>5, <1>8
<1> HIDE DEF n, N, L, V, D
<1>11. Placed(S2, E2, D, V + L, n, p)
  <2>1. CASE n = N
    <3>1. p \in E[n]..V
      BY <2>1, <1>4, Zenon DEF Placed, N
    <3>2. E2[n] = E[n]
      BY <2>1, <1>3, <1>7
    <3>3. n < Len(D) /\ n <= Len(D) /\ n # Len(D) /\ S2[n + 1] = V
      BY <2>1, <1>3, <1>7, <1>9
    <3> QED  BY <3>1, <3>2, <3>3 DEF Placed
  <2>2. CASE n < N
    <3>1. p \in E[n]..S[n + 1] \/ (Sent[n + 1] = "open" /\ p = S[n + 1] + 3)
      BY <2>2, <1>4, Zenon DEF Placed, N
    <3>2. /\ n \in 0..N /\ n + 1 \in 0..N /\ n + 1 \in 1..N /\ n <= Len(D) /\ n # Len(D)
      BY <2>2, <1>3, <1>9
    <3>3. S2[n + 1] = S[n + 1] /\ E2[n] = E[n] /\ D[n + 1] = Sent[n + 1]
      BY <3>2, <1>7, <1>9
    <3> QED  BY <3>1, <3>2, <3>3 DEF Placed
  <2>3. n < N \/ n = N
    BY <1>3, LessOrSame, Zenon
  <2> QED  BY <2>1, <2>2, <2>3
<1>12. Held(buf', str2, p)
  <2>1. \A k \in 1..Len(buf) : p + k \in 1..V
    BY <1>4, <1>10
  <2>2. \A k \in 1..Len(buf) : buf[k] = str2[p + k]
    BY <2>1, <1>4, <1>7
  <2> QED  BY <2>2, <1>2, <1>4 DEF Held
<1>13. \A j \in 1..Len(wire') : wire'[j] = str2[p + Len(buf') + j]
  <2>1. SUFFICES ASSUME NEW j \in 1..(Len(wire) + L) PROVE wire'[j] = str2[p + Len(buf) + j]
    BY <1>2, <1>8
  <2>2. CASE j <= Len(wire)
    <3>0. /\ V = p + Len(buf) + Len(wire) /\ p \in Nat /\ Len(buf) \in Nat /\ Len(wire) \in Nat
          /\ L \in Nat
      BY <1>4, <1>5, <1>10 DEF L
    <3>1. j \in 1..Len(wire) /\ p + Len(buf) + j \in 1..V
      BY ONLY <2>2, <3>0, j \in 1..(Len(wire) + L)
    <3> QED  BY <3>1, <1>4, <1>7, <1>8
  <2>3. CASE ~(j <= Len(wire))
    <3>1. /\ j - Len(wire) \in 1..L /\ Len(wire) + (j - Len(wire)) = j
          /\ p + Len(buf) + j = V + (j - Len(wire))
      BY <2>3, <1>4, <1>5, <1>10
    <3> DEFINE k == j - Len(wire)
    <3>2. k \in 1..L /\ wire'[Len(wire) + k] = Text(u)[k] /\ str2[V + k] = Text(u)[k]
      BY <3>1, <1>7, <1>8
    <3> QED  BY <3>1, <3>2
  <2> QED  BY <2>2, <2>3
<1>14. (pc = "recv" /\ alive /\ n < Len(D)) => p + Len(buf) < E2[n + 1]
  <2>1. SUFFICES ASSUME pc = "recv", alive PROVE p + Len(buf) < E2[n + 1]
    OBVIOUS
  <2>2. CASE n = N
    <3>1. E2[n + 1] = V + L
      BY <2>2, <1>7
    <3> QED  BY <3>1, <1>4, <1>5, <1>10 DEF L
  <2>3. CASE n < N
    <3>1. n + 1 \in 0..N
      BY <2>3, <1>3
    <3>2. p + Len(buf) < E[n + 1]
      BY <2>1, <2>3, <1>1 DEF Fed, n, N
    <3> QED  BY <3>1, <3>2, <1>7
  <2>4. n < N \/ n = N
    BY <1>3, LessOrSame, Zenon
  <2> QED  BY <2>2, <2>3, <2>4
<1>15. Fed(str2, S2, E2, p)'
  <2>1. Reads(str2, p)'
    BY <1>8, <1>12, <1>13 DEF Reads
  <2>2. Sent' = D /\ Len(handled') = n /\ pc' = pc /\ alive' = alive /\ Len(buf') = Len(buf)
    BY <1>2 DEF D, n
  <2>3. Laid(str2, S2, E2, D, V + L)
    BY <1>7 DEF D
  <2> QED  BY <2>1, <2>2, <2>3, <1>4, <1>10, <1>11, <1>14 DEF Fed
<1> QED  BY <1>6, <1>15 DEF StreamInv

\* or a blank between two.
LEMMA WritesBlank ==
  ASSUME StreamInv, wire' = wire \o Text("space"), Sent' = Sent, said' = said, server' = server
  PROVE  StreamInv'
<1> DEFINE n == Len(handled)  C == Sent
<1>1. PICK str, S, E, p : Texted /\ Fed(str, S, E, p)
  BY DEF StreamInv
<1> DEFINE V == p + Len(buf) + Len(wire)
<1>2. buf' = buf /\ pc' = pc /\ alive' = alive /\ handled' = handled
  BY DEF server
<1>3. C \in Seq(Said) /\ Len(C) \in Nat /\ n \in Nat
  BY <1>1, SentIs DEF Texted
<1>4. /\ Laid(str, S, E, C, V) /\ Placed(S, E, C, V, n, p) /\ Held(buf, str, p)
      /\ wire \in Seq(Lexemes) /\ Len(wire) \in Nat /\ Len(buf) \in Nat /\ p \in Nat /\ V \in Nat
      /\ \A k \in 1..Len(buf) : buf[k] = str[p + k]
      /\ \A j \in 1..Len(wire) : wire[j] = str[p + Len(buf) + j]
  BY <1>1 DEF Fed, Reads, Held
<1>5. Texted'
  BY <1>1, <1>2 DEF Texted
<1>5a. PICK str2 : BlankOn(C, V, str, S, E, str2)
  BY <1>3, <1>4, LaidBlank, Zenon
<1>6. /\ Laid(str2, S, E, C, V + 1)
      /\ \A j \in 1..V : str2[j] = str[j]
      /\ str2[V + 1] = "blank"
  BY <1>5a, Zenon DEF BlankOn
<1>7. /\ wire' \in Seq(Lexemes) /\ Len(wire') = Len(wire) + 1
      /\ \A j \in 1..Len(wire) : wire'[j] = wire[j]
      /\ wire'[Len(wire) + 1] = "blank"
  <2> DEFINE x == Text("space")
  <2>1. x \in Seq(Lexemes) /\ Len(x) = 1 /\ x[1] = "blank" /\ wire' = wire \o x
    BY TextTypes, StreamTexts
  <2> HIDE DEF x
  <2>2. 1 \in 1..Len(x)
    BY <2>1
  <2>3. wire \in Seq(Lexemes)
    BY <1>4
  <2>4. /\ wire' \in Seq(Lexemes) /\ Len(wire') = Len(wire) + Len(x)
        /\ \A j \in 1..Len(wire) : wire'[j] = wire[j]
        /\ \A j \in 1..Len(x) : wire'[Len(wire) + j] = x[j]
    BY ONLY <2>1, <2>3, Joined
  <2>5. wire'[Len(wire) + 1] = x[1]
    BY ONLY <2>2, <2>4
  <2> QED  BY ONLY <2>1, <2>4, <2>5
<1>8. V = p + Len(buf) + Len(wire) /\ p + Len(buf') + Len(wire') = V + 1
  BY <1>2, <1>4, <1>7
<1> HIDE DEF n, C, V
<1>9. Placed(S, E, C, V + 1, n, p)
  <2>1. \A e : p \in e..V => p \in e..(V + 1)
    BY <1>4
  <2> QED  BY <2>1, <1>4 DEF Placed
<1>10. Held(buf', str2, p)
  <2>1. \A k \in 1..Len(buf) : p + k \in 1..V
    BY <1>4, <1>8
  <2>2. \A k \in 1..Len(buf) : buf[k] = str2[p + k]
    BY <2>1, <1>4, <1>6
  <2> QED  BY <2>2, <1>2, <1>4 DEF Held
<1>11. \A j \in 1..Len(wire') : wire'[j] = str2[p + Len(buf') + j]
  <2>1. SUFFICES ASSUME NEW j \in 1..(Len(wire) + 1) PROVE wire'[j] = str2[p + Len(buf) + j]
    BY <1>2, <1>7
  <2>2. CASE j <= Len(wire)
    <3>0. /\ V = p + Len(buf) + Len(wire) /\ p \in Nat /\ Len(buf) \in Nat /\ Len(wire) \in Nat
      BY <1>4, <1>8
    <3>1. j \in 1..Len(wire) /\ p + Len(buf) + j \in 1..V
      BY ONLY <2>2, <3>0, j \in 1..(Len(wire) + 1)
    <3> QED  BY <3>1, <1>4, <1>6, <1>7
  <2>3. CASE ~(j <= Len(wire))
    <3>1. j = Len(wire) + 1
      BY <2>3, <1>4, TheLast, Zenon
    <3>2. p + Len(buf) + j = V + 1
      BY ONLY <3>1, <1>4, <1>8
    <3> QED  BY <3>1, <3>2, <1>6, <1>7
  <2> QED  BY <2>2, <2>3
<1>12. Fed(str2, S, E, p)'
  <2>1. Reads(str2, p)'
    BY <1>7, <1>10, <1>11 DEF Reads
  <2>2. Sent' = C /\ Len(handled') = n /\ pc' = pc /\ alive' = alive /\ Len(buf') = Len(buf)
    BY <1>2 DEF C, n
  <2>3. (pc = "recv" /\ alive /\ n < Len(C)) => p + Len(buf) < E[n + 1]
    BY <1>1 DEF Fed, C, n
  <2> QED  BY <2>1, <2>2, <2>3, <1>4, <1>6, <1>8, <1>9 DEF Fed
<1> QED  BY <1>5, <1>12 DEF StreamInv

\* At first nothing has been said.
LEMMA StreamInit == Init => StreamInv
<1> SUFFICES ASSUME Init PROVE StreamInv
  OBVIOUS
<1> DEFINE Z == [i \in Nat |-> 0]
<1>1. /\ buf = <<>> /\ wire = <<>> /\ said = <<>> /\ handled = <<>> /\ Sent = <<>>
  BY DEF Init, Sent
<1>2. Texted
  BY <1>1 DEF Texted
<1>3. Z \in [Nat -> Nat] /\ Z[0] = 0 /\ Len(Sent) = 0
  BY <1>1
<1> HIDE DEF Z
<1>4. Laid(<<>>, Z, Z, Sent, 0)
  BY <1>3 DEF Laid
<1>5. Placed(Z, Z, Sent, 0, 0, 0)
  BY <1>3 DEF Placed
<1>6. Reads(<<>>, 0)
  BY <1>1 DEF Reads, Held
<1>7. Fed(<<>>, Z, Z, 0)
  <2>1. 0 + Len(buf) + Len(wire) = 0 /\ Len(handled) = 0
    BY <1>1
  <2> QED  BY <2>1, <1>3, <1>4, <1>5, <1>6 DEF Fed
<1> QED  BY <1>2, <1>7 DEF StreamInv

\* What the parser hands over is what was said, so far and once all has come.
LEMMA Extracted == ASSUME StreamInv PROVE StanzasExtracted
<1>1. PICK str, S, E, p : Texted /\ Fed(str, S, E, p)
  BY DEF StreamInv
<1>2. /\ handled \in Seq(Heard) /\ said \in Seq(Heard) /\ Len(handled) \in Nat /\ Len(said) \in Nat
      /\ Len(handled) <= Len(said) /\ \A i \in 1..Len(handled) : handled[i] = said[i]
  BY <1>1 DEF Texted
<1>3. IsPrefix(handled, said)
  <2> DEFINE n == Len(handled)
  <2>1. \A i \in 1..n : i \in 1..Len(said)
    BY <1>2
  <2>2. /\ SubSeq(said, 1, n) \in Seq(Heard) /\ Len(SubSeq(said, 1, n)) = n
        /\ \A i \in 1..n : SubSeq(said, 1, n)[i] = said[i]
    BY <1>2, <2>1
  <2>3. handled = SubSeq(said, 1, n)
    <3> DEFINE x == SubSeq(said, 1, n)
    <3>1. x \in Seq(Heard) /\ Len(x) = Len(handled) /\ \A i \in 1..Len(handled) : handled[i] = x[i]
      BY <2>2, <1>2
    <3> HIDE DEF x
    <3>2. handled = x
      BY ONLY <3>1, <1>2, SeqEqual
    <3> QED  BY <3>2 DEF x
  <2>4. SubSeq(handled, 1, Len(handled)) = handled
    BY <1>2
  <2> QED  BY <2>3, <2>4, <1>2 DEF IsPrefix
<1>4. ASSUME alive, pc = "recv", wire = <<>>
      PROVE  handled = said
  <2>1. Len(handled) = Len(said)
    <3> DEFINE n == Len(handled)  V == p + Len(buf) + Len(wire)
    <3>1. SUFFICES ASSUME n < Len(said) PROVE FALSE
      BY <1>2
    <3>2. /\ Sent \in Seq(Said) /\ Len(Sent) \in Nat /\ Len(said) <= Len(Sent)
      BY <1>2, SentIs
    <3>3. n < Len(Sent) /\ n + 1 \in 1..Len(Sent)
      BY <3>1, <3>2, <1>2
    <3>4. Laid(str, S, E, Sent, V) /\ p + Len(buf) < E[n + 1] /\ V \in Nat /\ p \in Nat /\ Len(buf) \in Nat
      BY <1>1, <1>4, <3>3 DEF Fed, Reads, Held
    <3>5. V = p + Len(buf)
      BY <3>4, <1>4
    <3> HIDE DEF V
    <3> DEFINE i == n + 1
    <3>6. i \in 1..Len(Sent)
      BY <3>3
    <3> HIDE DEF i
    <3>7. LiesAt(Sent[i], V, str, S[i], E[i - 1], E[i])
      BY <3>2, <3>4, <3>6, LaidAt
    <3>8. E[i] \in Nat /\ E[i] <= V
      BY <3>7 DEF LiesAt
    <3> QED  BY <3>4, <3>5, <3>8 DEF i
  <2> QED  BY ONLY <2>1, <1>2, SeqEqual
<1> QED  BY <1>3, <1>4 DEF StanzasExtracted
-----------------------------------------------------------------------------
(* The handshake.  The rabbit's script is one query at a time, which is    *)
(* why the answer to one is never taken for another's; its pings come      *)
(* after that, and are all answered alike.                                 *)
Scripted == Answered \ {"ping"}
Early == {"dials", "greeted", "asks", "fills", "auths", "responds"}
Pending == (Len(handled) + 1)..Len(said)
Owing == {i \in Pending : said[i] \in Answered}

Typed ==
  /\ pc \in {"recv", "parse"} /\ {alive, authed, bound, knowsMac, needs} \subseteq BOOLEAN
  /\ {resource, rabbitRes} \subseteq {"Boot", "boot", "idle"}
  /\ rabbit \in DOMAIN Script \cup {"greeted", "free", "left"}
  /\ asides \in 0..MaxAsides
  /\ toRabbit \in Seq(Replies) /\ waiting \in Seq(Replies) /\ Len(waiting) <= 1 + asides

\* The rabbit waits for the answers under way, then for one per query the server
\* has not handled; from the second on they are answers to pings.
InStep ==
  /\ Len(toRabbit) <= Len(waiting) /\ \A j \in 1..Len(toRabbit) : toRabbit[j] = waiting[j]
  /\ Cardinality(Owing) = Len(waiting) - Len(toRabbit)
  /\ \A j \in 2..Len(waiting) : waiting[j] = "result_ping"

\* A query of the script is the next thing the server handles, and nothing else
\* is under way.
ScriptFirst ==
  /\ \A i \in Pending : said[i] \in Scripted =>
        /\ i = Len(handled) + 1 /\ toRabbit = <<>>
        /\ waiting # <<>> /\ waiting[1] = Reply(said[i], authed)
  /\ (toRabbit = <<>> /\ waiting # <<>> /\ \A i \in Pending : said[i] \notin Scripted)
        => waiting[1] = "result_ping"
  /\ rabbit \notin {"free", "left"} => \A i \in 1..Len(said) : said[i] \in Scripted

\* The session is authenticated once the rabbit's response has been handled.
Authentic ==
  IF rabbit \in Early THEN ~authed /\ \A i \in Pending : said[i] # "response"
  ELSE authed \/ (Len(handled) < Len(said) /\ said[Len(handled) + 1] = "response")

\* The session has the rabbit's resource, but for a bind it has not handled.
BindsAgree ==
  IF Len(handled) < Len(said) /\ said[Len(handled) + 1] \in Binds
  THEN rabbitRes = Resources[said[Len(handled) + 1]] ELSE resource = rabbitRes

HandshakeInv == InStep /\ ScriptFirst /\ Authentic /\ BindsAgree

\* The kinds of units.
LEMMA Kinds ==
  /\ Answered = Scripted \cup {"ping"} /\ "ping" \notin Scripted /\ Heard = Answered \cup MessageKinds
  /\ Scripted \cap MessageKinds = {} /\ "ping" \notin MessageKinds /\ Binds \subseteq Scripted
  /\ "response" \in Scripted /\ "response" \notin Binds /\ Scripted \subseteq Heard
  /\ Scripted = {"open", "register?", "register!", "auth", "response", "bind_boot", "session",
                 "sources", "bind_idle", "unbind_boot", "presence"}
BY DEF Scripted, Answered, Heard, Units, IqKinds, MessageKinds, Binds

\* Every answer is one of the replies, and a ping has its own.
LEMMA ReplyTypes ==
  /\ \A u \in Answered, a \in BOOLEAN : Reply(u, a) \in Replies
  /\ \A a : Reply("ping", a) = "result_ping"
<1>1. ASSUME NEW u \in Answered, NEW a \in BOOLEAN PROVE Reply(u, a) \in Replies
  BY DEF Reply, ReplyOf, Replies, Answered, Heard, Units, IqKinds, MessageKinds
<1>2. \A a : Reply("ping", a) = "result_ping"
  BY DEF Reply, ReplyOf
<1> QED  BY <1>1, <1>2

\* How much has been said and handled.
LEMMA HeardIs ==
  ASSUME Texted
  PROVE  /\ said \in Seq(Heard) /\ Len(said) \in Nat /\ Len(handled) \in Nat /\ Len(handled) <= Len(said)
         /\ Pending \subseteq 1..Len(said)
         /\ IsFiniteSet(Owing) /\ Cardinality(Owing) \in Nat
         /\ \A i \in Pending : said[i] \in Heard
<1>1. said \in Seq(Heard) /\ Len(said) \in Nat /\ Len(handled) \in Nat /\ Len(handled) <= Len(said)
  BY DEF Texted
<1>2. Pending \subseteq 1..Len(said)
  BY <1>1 DEF Pending
<1>3. IsFiniteSet(1..Len(said))
  BY <1>1, FS_Interval
<1>4. Owing \subseteq 1..Len(said)
  BY <1>2 DEF Owing
<1>5. IsFiniteSet(Owing)
  BY <1>3, <1>4, FS_Subset
<1> QED  BY <1>1, <1>2, <1>5, FS_CardinalityType

\* What the server owes when it has handled one more.
LEMMA OwingLess ==
  ASSUME Texted, Len(handled) < Len(said), said' = said, Len(handled') = Len(handled) + 1
  PROVE  /\ Pending' = Pending \ {Len(handled) + 1} /\ Len(handled) + 1 \in Pending
         /\ Cardinality(Owing') = IF said[Len(handled) + 1] \in Answered
                                  THEN Cardinality(Owing) - 1 ELSE Cardinality(Owing)
<1> DEFINE n == Len(handled)
<1>1. Len(said) \in Nat /\ n \in Nat /\ IsFiniteSet(Owing)
  BY HeardIs
<1>2. Pending' = Pending \ {n + 1} /\ n + 1 \in Pending
  <2> HIDE DEF n
  <2>1. Pending' = ((n + 1) + 1)..Len(said) /\ Pending = (n + 1)..Len(said)
    BY DEF Pending, n
  <2> QED  BY <2>1, <1>1 DEF n
<1>3. Owing' = Owing \ {n + 1}
  BY <1>2 DEF Owing
<1>4. n + 1 \in Owing <=> said[n + 1] \in Answered
  BY <1>2 DEF Owing
<1>5. Cardinality(Owing \ {n + 1}) = IF n + 1 \in Owing THEN Cardinality(Owing) - 1 ELSE Cardinality(Owing)
  BY <1>1, FS_RemoveElement
<1> QED  BY <1>2, <1>3, <1>4, <1>5

\* What it owes when the rabbit has said one more.
LEMMA OwingMore ==
  ASSUME Texted, NEW u \in Heard, said' = Append(said, u), handled' = handled
  PROVE  /\ Len(said') = Len(said) + 1 /\ said'[Len(said) + 1] = u
         /\ \A i \in 1..Len(said) : said'[i] = said[i]
         /\ Pending' = Pending \cup {Len(said) + 1} /\ Len(said) + 1 \notin Pending
         /\ Cardinality(Owing') = IF u \in Answered
                                  THEN Cardinality(Owing) + 1 ELSE Cardinality(Owing)
<1> DEFINE n == Len(handled)  m == Len(said)
<1>1. /\ said \in Seq(Heard) /\ m \in Nat /\ n \in Nat /\ n <= m /\ IsFiniteSet(Owing)
      /\ Pending \subseteq 1..m
  BY HeardIs
<1>2. /\ Len(said') = m + 1 /\ said'[m + 1] = u /\ \A i \in 1..m : said'[i] = said[i]
  BY <1>1
<1> HIDE DEF n, m
<1>3. Pending' = Pending \cup {m + 1} /\ m + 1 \notin Pending
  <2>1. Pending' = (n + 1)..(m + 1) /\ Pending = (n + 1)..m
    BY <1>2 DEF Pending, n, m
  <2> QED  BY <2>1, <1>1
<1>4. Owing' = IF u \in Answered THEN Owing \cup {m + 1} ELSE Owing
  <2>1. \A i \in Pending : said'[i] = said[i]
    BY <1>1, <1>2
  <2>2. Owing' = {i \in Pending' : said'[i] \in Answered}
    BY DEF Owing
  <2> QED  BY <2>1, <2>2, <1>2, <1>3 DEF Owing
<1>5. m + 1 \notin Owing
  BY <1>3 DEF Owing
<1>6. Cardinality(Owing \cup {m + 1}) = Cardinality(Owing) + 1
  BY <1>1, <1>5, FS_AddElement
<1> QED  BY <1>2, <1>3, <1>4, <1>6 DEF m

\* The answer to what is handled is the next one the rabbit waits for.
LEMMA NextAnswer ==
  ASSUME Typed, Texted, HandshakeInv, Len(handled) < Len(said),
         said[Len(handled) + 1] \in Answered
  PROVE  /\ Len(toRabbit) + 1 \in 1..Len(waiting)
         /\ waiting[Len(toRabbit) + 1] = Reply(said[Len(handled) + 1], authed)
<1> DEFINE n == Len(handled)  u == said[n + 1]  k == Len(toRabbit)
<1>1. /\ k \in Nat /\ Len(waiting) \in Nat /\ n \in Nat /\ Len(said) \in Nat
      /\ Cardinality(Owing) \in Nat /\ IsFiniteSet(Owing)
  BY HeardIs DEF Typed
<1>2. n + 1 \in Pending
  BY <1>1 DEF Pending
<1>3. n + 1 \in Owing
  BY <1>2 DEF Owing
<1>4. Cardinality(Owing) # 0
  BY <1>1, <1>3, FS_EmptySet
<1>5. k + 1 \in 1..Len(waiting)
  <2>1. Cardinality(Owing) = Len(waiting) - k
    BY DEF HandshakeInv, InStep
  <2> QED  BY ONLY <2>1, <1>1, <1>4
<1>6. CASE u \in Scripted
  <2>1. toRabbit = <<>> /\ waiting[1] = Reply(u, authed)
    BY <1>2, <1>6 DEF HandshakeInv, ScriptFirst
  <2>2. k + 1 = 1
    BY <2>1
  <2> QED  BY <2>1, <2>2, <1>5
<1>7. CASE u = "ping"
  <2>1. waiting[k + 1] = "result_ping"
    <3>1. CASE k = 0
      <4>1. toRabbit = <<>> /\ waiting # <<>>
        BY <3>1, <1>5 DEF Typed
      <4>2. \A i \in Pending : said[i] \notin Scripted
        <5>1. \A i \in Pending : said[i] \in Scripted => i = n + 1
          BY DEF HandshakeInv, ScriptFirst
        <5> QED  BY <5>1, <1>7, Kinds
      <4>3. waiting[1] = "result_ping"
        BY <4>1, <4>2 DEF HandshakeInv, ScriptFirst
      <4> QED  BY <4>3, <3>1
    <3>2. CASE k # 0
      <4>1. k + 1 \in 2..Len(waiting)
        BY ONLY <3>2, <1>1, <1>5
      <4> QED  BY <4>1 DEF HandshakeInv, InStep
    <3> QED  BY <3>1, <3>2
  <2> QED  BY <2>1, <1>5, <1>7, ReplyTypes
<1> QED  BY <1>6, <1>7, Kinds

\* What the server hears keeps the handshake in step.
LEMMA HearingKeeps ==
  ASSUME Typed, Texted, HandshakeInv, Hearing,
         UNCHANGED <<said, waiting, rabbit, rabbitRes>>
  PROVE  /\ HandshakeInv'
         /\ authed' \in BOOLEAN /\ resource' \in {"Boot", "boot", "idle"} /\ toRabbit' \in Seq(Replies)
<1> DEFINE n == Len(handled)  u == said[n + 1]  k == Len(toRabbit)
<1>1. /\ n \in Nat /\ Len(said) \in Nat /\ n < Len(said) /\ k \in Nat /\ Len(waiting) \in Nat
      /\ toRabbit \in Seq(Replies) /\ waiting \in Seq(Replies) /\ authed \in BOOLEAN
  BY HeardIs DEF Hearing, Typed
<1>2. /\ handled' = Append(handled, u) /\ said' = said /\ waiting' = waiting /\ rabbit' = rabbit
      /\ rabbitRes' = rabbitRes
      /\ toRabbit' = IF u \in Answered THEN Append(toRabbit, Reply(u, authed)) ELSE toRabbit
      /\ authed' = (authed \/ u = "response")
      /\ resource' = IF u \in Binds THEN Resources[u] ELSE resource
  BY DEF Hearing
<1>3. Len(handled') = n + 1
  <2>1. handled \in Seq(Heard)
    BY DEF Texted
  <2> QED  BY <2>1, <1>2
<1>4. /\ Pending' = Pending \ {n + 1} /\ n + 1 \in Pending
      /\ Cardinality(Owing') = IF u \in Answered THEN Cardinality(Owing) - 1 ELSE Cardinality(Owing)
  BY <1>1, <1>2, <1>3, OwingLess
<1>5. u \in Heard
  BY <1>4, HeardIs
<1>6. \A i \in Pending' : said'[i] \notin Scripted
  <2>1. \A i \in Pending : said[i] \in Scripted => i = n + 1
    BY DEF HandshakeInv, ScriptFirst
  <2> QED  BY <2>1, <1>2, <1>4
<1>7. u \in Answered => k + 1 \in 1..Len(waiting) /\ waiting[k + 1] = Reply(u, authed)
  BY <1>1, NextAnswer
<1> HIDE DEF u, n, k
<1>8. InStep'
  <2>1. CASE u \in Answered
    <3>1. toRabbit' = Append(toRabbit, waiting[k + 1]) /\ k + 1 <= Len(waiting) /\ waiting[k + 1] \in Replies
      BY <2>1, <1>1, <1>2, <1>7
    <3>2. /\ Len(toRabbit') = k + 1 /\ toRabbit'[k + 1] = waiting[k + 1]
          /\ \A j \in 1..k : toRabbit'[j] = toRabbit[j]
      BY ONLY <3>1, <1>1 DEF k
    <3>3. \A j \in 1..(k + 1) : j \in 1..k \/ j = k + 1
      BY <1>1
    <3>4. \A j \in 1..Len(toRabbit') : toRabbit'[j] = waiting'[j]
      BY <3>2, <3>3, <1>2 DEF HandshakeInv, InStep, k
    <3>5. Cardinality(Owing') = Len(waiting') - Len(toRabbit')
      <4>1. Cardinality(Owing) = Len(waiting) - k
        BY DEF HandshakeInv, InStep, k
      <4>2. Len(waiting) - k - 1 = Len(waiting) - (k + 1)
        BY <1>1
      <4> QED  BY <4>1, <4>2, <3>2, <2>1, <1>2, <1>4
    <3>6. \A j \in 2..Len(waiting') : waiting'[j] = "result_ping"
      BY <1>2 DEF HandshakeInv, InStep
    <3> QED  BY <3>1, <3>2, <3>4, <3>5, <3>6, <1>2 DEF InStep
  <2>2. CASE u \notin Answered
    BY <2>2, <1>2, <1>4 DEF HandshakeInv, InStep
  <2> QED  BY <2>1, <2>2
<1>9. ScriptFirst'
  <2>1. ASSUME toRabbit' = <<>>, waiting' # <<>>
        PROVE  waiting'[1] = "result_ping"
    <3>1. u \notin Answered /\ toRabbit = <<>>
      <4>1. u \in Answered => toRabbit' # <<>>
        BY <1>1, <1>2, ReplyTypes
      <4> QED  BY <4>1, <2>1, <1>2
    <3>2. \A i \in Pending : said[i] \notin Scripted
      <4>1. u \notin Scripted
        BY <3>1, Kinds
      <4> QED  BY <4>1, <1>2, <1>4, <1>6 DEF u
    <3> QED  BY <2>1, <3>1, <3>2, <1>2 DEF HandshakeInv, ScriptFirst
  <2>2. rabbit' \notin {"free", "left"} => \A i \in 1..Len(said') : said'[i] \in Scripted
    BY <1>2 DEF HandshakeInv, ScriptFirst
  <2> QED  BY <2>1, <2>2, <1>6 DEF ScriptFirst
<1>10. Authentic'
  <2>1. CASE rabbit \in Early
    <3>1. ~authed /\ \A i \in Pending : said[i] # "response"
      BY <2>1 DEF HandshakeInv, Authentic
    <3>2. u # "response"
      BY <3>1, <1>4 DEF u
    <3> QED  BY <3>1, <3>2, <2>1, <1>2, <1>4 DEF Authentic
  <2>2. CASE rabbit \notin Early
    <3>1. authed \/ u = "response"
      BY <2>2 DEF HandshakeInv, Authentic, u, n
    <3>2. authed'
      BY <3>1, <1>2
    <3> QED  BY <3>2, <2>2, <1>2 DEF Authentic
  <2> QED  BY <2>1, <2>2
<1>11. BindsAgree'
  <2>1. resource' = rabbitRes'
    <3>1. IF u \in Binds THEN rabbitRes = Resources[u] ELSE resource = rabbitRes
      BY <1>1 DEF HandshakeInv, BindsAgree, u, n
    <3> QED  BY <3>1, <1>2
  <2>2. ~(Len(handled') < Len(said') /\ said'[Len(handled') + 1] \in Binds)
    <3>1. SUFFICES ASSUME n + 1 < Len(said) PROVE said[(n + 1) + 1] \notin Binds
      BY <1>2, <1>3
    <3>2. (n + 1) + 1 \in Pending'
      <4>1. Pending' = ((n + 1) + 1)..Len(said)
        BY <1>2, <1>3 DEF Pending
      <4> QED  BY <3>1, <4>1, <1>1
    <3> QED  BY <3>2, <1>2, <1>6, Kinds
  <2> QED  BY <2>1, <2>2 DEF BindsAgree
<1>12. authed' \in BOOLEAN /\ resource' \in {"Boot", "boot", "idle"} /\ toRabbit' \in Seq(Replies)
  <2>1. authed' \in BOOLEAN
    BY <1>1, <1>2
  <2>2. resource' \in {"Boot", "boot", "idle"}
    <3>1. \A b \in Binds : Resources[b] \in {"boot", "idle"}
      BY DEF Binds, Resources
    <3> QED  BY <3>1, <1>2 DEF Typed
  <2>3. toRabbit' \in Seq(Replies)
    BY <1>1, <1>2, ReplyTypes
  <2> QED  BY <2>1, <2>2, <2>3
<1> QED  BY <1>8, <1>9, <1>10, <1>11, <1>12 DEF HandshakeInv

\* One step of the script: what is said, and which answer is awaited.
ScriptStep(r) ==
  LET s == Script[r]
  IN  /\ s.says \in {"open", "register?", "register!", "auth", "response", "bind_boot", "session",
                     "sources", "bind_idle", "unbind_boot", "presence"}
      /\ s.then \in DOMAIN Script \cup {"greeted", "free"}
      /\ s.awaits = Reply(s.says, r \notin Early)
      /\ r \in Early => (s.then \in Early <=> s.says # "response")
      /\ r \notin Early => s.then \notin Early
      /\ r \notin {"free", "left", "greeted"}

\* Every step of the script is one.
LEMMA ScriptIs == ASSUME NEW r \in DOMAIN Script PROVE ScriptStep(r)
<1>1. DOMAIN Script = {"dials", "asks", "fills", "auths", "responds", "restarts", "binds",
                       "sessions", "sources", "rebinds", "resumes", "unbinds", "appears"}
  BY DEF Script
<1>3. CASE r = "dials"
  BY <1>3 DEF Script, ScriptStep, Early, Reply, ReplyOf
<1>4. CASE r = "asks"
  BY <1>4 DEF Script, ScriptStep, Early, Reply, ReplyOf
<1>5. CASE r = "fills"
  BY <1>5 DEF Script, ScriptStep, Early, Reply, ReplyOf
<1>6. CASE r = "auths"
  BY <1>6 DEF Script, ScriptStep, Early, Reply, ReplyOf
<1>7. CASE r = "responds"
  BY <1>7 DEF Script, ScriptStep, Early, Reply, ReplyOf
<1>8. CASE r = "restarts"
  BY <1>8 DEF Script, ScriptStep, Early, Reply, ReplyOf
<1>9. CASE r = "binds"
  BY <1>9 DEF Script, ScriptStep, Early, Reply, ReplyOf
<1>10. CASE r = "sessions"
  BY <1>10 DEF Script, ScriptStep, Early, Reply, ReplyOf
<1>11. CASE r = "sources"
  BY <1>11 DEF Script, ScriptStep, Early, Reply, ReplyOf
<1>12. CASE r = "rebinds"
  BY <1>12 DEF Script, ScriptStep, Early, Reply, ReplyOf
<1>13. CASE r = "resumes"
  BY <1>13 DEF Script, ScriptStep, Early, Reply, ReplyOf
<1>14. CASE r = "unbinds"
  BY <1>14 DEF Script, ScriptStep, Early, Reply, ReplyOf
<1>15. CASE r = "appears"
  BY <1>15 DEF Script, ScriptStep, Early, Reply, ReplyOf
<1> QED  BY <1>1, <1>3, <1>4, <1>5, <1>6, <1>7, <1>8, <1>9, <1>10, <1>11, <1>12, <1>13, <1>14, <1>15

\* While the rabbit waits for nothing and has not finished its script, all it
\* said has been handled and answered.
LEMMA Quiet ==
  ASSUME Typed, Texted, HandshakeInv, waiting = <<>>, rabbit \notin {"free", "left"}
  PROVE  toRabbit = <<>> /\ Len(handled) = Len(said) /\ Pending = {}
<1>1. /\ Len(toRabbit) \in Nat /\ Len(said) \in Nat /\ Len(handled) \in Nat /\ Len(handled) <= Len(said)
      /\ IsFiniteSet(Owing) /\ Pending \subseteq 1..Len(said) /\ toRabbit \in Seq(Replies)
  BY HeardIs DEF Typed
<1>2. Len(waiting) = 0
  OBVIOUS
<1>3. Len(toRabbit) = 0 /\ Cardinality(Owing) = 0
  <2>1. Len(toRabbit) <= Len(waiting) /\ Cardinality(Owing) = Len(waiting) - Len(toRabbit)
    BY DEF HandshakeInv, InStep
  <2>2. Len(toRabbit) = 0
    BY ONLY <2>1, <1>1, <1>2
  <2> QED  BY ONLY <2>1, <2>2, <1>2
<1>4. Owing = {}
  BY <1>1, <1>3, FS_EmptySet
<1>5. Pending = {}
  <2>1. \A i \in Pending : said[i] \in Answered
    BY <1>1, Kinds DEF HandshakeInv, ScriptFirst
  <2> QED  BY <2>1, <1>4 DEF Owing
<1>6. Len(handled) = Len(said)
  <2> DEFINE n == Len(handled)  m == Len(said)
  <2>1. n \in Nat /\ m \in Nat /\ n <= m /\ (n + 1)..m = {}
    BY <1>1, <1>5 DEF Pending
  <2> HIDE DEF n, m
  <2>2. n = m
    BY <2>1
  <2> QED  BY <2>2 DEF n, m
<1> QED  BY <1>1, <1>3, <1>5, <1>6

\* A query of the script is asked when all is quiet.
LEMMA SaysKeeps ==
  ASSUME Typed, StreamInv, HandshakeInv, RabbitSays
  PROVE  Typed' /\ StreamInv' /\ HandshakeInv'
<1> DEFINE r == rabbit  u == Script[r].says  m == Len(said)
<1>0. Texted
  BY DEF StreamInv
<1>1. /\ r \in DOMAIN Script /\ waiting = <<>> /\ wire' = wire \o Text(u) /\ said' = Append(said, u)
      /\ waiting' = <<Script[r].awaits>> /\ rabbit' = Script[r].then
      /\ rabbitRes' = IF u \in Binds THEN Resources[u] ELSE rabbitRes
      /\ server' = server /\ toRabbit' = toRabbit /\ needs' = needs /\ asides' = asides
  BY Zenon DEF RabbitSays, Binds
<1>2. /\ u \in Scripted /\ rabbit' \in DOMAIN Script \cup {"greeted", "free"}
      /\ Script[r].awaits = Reply(u, r \notin Early)
      /\ r \in Early => (rabbit' \in Early <=> u # "response")
      /\ r \notin Early => rabbit' \notin Early
      /\ r \notin {"free", "left", "greeted"}
  BY <1>1, ScriptIs, Kinds DEF ScriptStep
<1>3. /\ buf' = buf /\ pc' = pc /\ alive' = alive /\ authed' = authed /\ bound' = bound
      /\ resource' = resource /\ knowsMac' = knowsMac /\ handled' = handled
  BY <1>1 DEF server
<1> HIDE DEF u, r
<1>4. /\ toRabbit = <<>> /\ Len(handled) = m /\ Pending = {}
  BY <1>0, <1>1, <1>2, Quiet DEF r
<1>5. u \in Heard /\ u \in Answered /\ said \in Seq(Heard) /\ m \in Nat
  BY <1>0, <1>2, Kinds, HeardIs
<1>6. /\ Len(said') = m + 1 /\ said'[m + 1] = u
      /\ \A i \in 1..m : said'[i] = said[i]
      /\ Pending' = {m + 1} /\ Cardinality(Owing') = 1
  <2>1. Cardinality(Owing) = 0
    <3>1. Owing = {}
      BY <1>4 DEF Owing
    <3> QED  BY <3>1, FS_EmptySet
  <2>2. /\ Len(said') = m + 1 /\ said'[m + 1] = u
        /\ \A i \in 1..m : said'[i] = said[i]
        /\ Pending' = Pending \cup {m + 1}
        /\ Cardinality(Owing') = IF u \in Answered THEN Cardinality(Owing) + 1 ELSE Cardinality(Owing)
    BY <1>0, <1>1, <1>3, <1>5, OwingMore, Zenon
  <2> QED  BY <2>1, <2>2, <1>4, <1>5
<1>7. authed = (r \notin Early)
  <2>1. CASE r \in Early
    BY <2>1 DEF HandshakeInv, Authentic, Typed, r
  <2>2. CASE r \notin Early
    <3>1. authed
      BY <2>2, <1>4, <1>5 DEF HandshakeInv, Authentic, r
    <3> QED  BY <3>1, <2>2 DEF Typed
  <2> QED  BY <2>1, <2>2
<1>8. waiting' = <<Reply(u, authed)>> /\ Len(waiting') = 1 /\ waiting'[1] = Reply(u, authed)
  BY <1>1, <1>2, <1>7
<1>9. StreamInv'
  <2>1. u \in Said
    BY <1>5 DEF Said
  <2>2. Sent = said /\ Sent' = said'
    <3>1. rabbit # "left" /\ rabbit' # "left"
      <4>1. "left" \notin DOMAIN Script
        BY DEF Script
      <4> QED  BY <4>1, <1>1, <1>2 DEF r
    <3> QED  BY <3>1 DEF Sent
  <2>3. Sent' = Append(Sent, u)
    BY <2>2, <1>1
  <2> QED  BY <2>1, <2>3, <1>1, <1>5, Writes
<1>10. InStep'
  <2>1. Len(toRabbit') = 0
    BY <1>1, <1>4
  <2>2. \A j \in 2..Len(waiting') : waiting'[j] = "result_ping"
    BY <1>8
  <2>3. \A j \in 1..Len(toRabbit') : toRabbit'[j] = waiting'[j]
    BY <2>1
  <2>4. 1 = 1 - 0 /\ 0 <= 1
    OBVIOUS
  <2> QED  BY <2>1, <2>2, <2>3, <2>4, <1>6, <1>8 DEF InStep
<1>11. ScriptFirst'
  <2>1. \A i \in 1..(m + 1) : i \in 1..m \/ i = m + 1
    BY <1>5
  <2>2. \A i \in 1..Len(said') : said'[i] \in Scripted
    <3>1. \A i \in 1..m : said[i] \in Scripted
      BY <1>2 DEF HandshakeInv, ScriptFirst, r
    <3> QED  BY <3>1, <2>1, <1>2, <1>6
  <2>3. waiting' # <<>>
    BY <1>8
  <2>4. \A i \in Pending' : said'[i] \in Scripted /\ i = Len(handled') + 1 /\ said'[i] = u
    BY <1>2, <1>3, <1>4, <1>6
  <2>5. m + 1 \in Pending' /\ toRabbit' = <<>> /\ authed' = authed
    BY <1>1, <1>3, <1>4, <1>6
  <2> QED  BY <2>2, <2>3, <2>4, <2>5, <1>8 DEF ScriptFirst
<1>12. Authentic'
  <2>1. Len(handled') = m /\ m < Len(said') /\ said'[Len(handled') + 1] = u
    BY <1>3, <1>4, <1>5, <1>6
  <2>2. CASE rabbit' \in Early
    <3>1. ~authed' /\ u # "response"
      BY <2>2, <1>2, <1>3, <1>7
    <3>2. \A i \in Pending' : said'[i] # "response"
      BY <3>1, <1>6
    <3> QED  BY <2>2, <3>1, <3>2 DEF Authentic
  <2>3. CASE rabbit' \notin Early
    <3>1. authed' \/ u = "response"
      BY <2>3, <1>2, <1>3, <1>7
    <3> QED  BY <2>1, <2>3, <3>1 DEF Authentic
  <2> QED  BY <2>2, <2>3
<1>13. BindsAgree'
  <2>1. Len(handled') = m /\ m < Len(said') /\ said'[Len(handled') + 1] = u
    BY <1>3, <1>4, <1>5, <1>6
  <2>2. resource = rabbitRes
    BY <1>4, <1>5 DEF HandshakeInv, BindsAgree
  <2> QED  BY <2>1, <2>2, <1>1, <1>3 DEF BindsAgree
<1>14. Typed'
  <2>1. Reply(u, authed) \in Replies
    BY <1>5, ReplyTypes DEF Typed
  <2>2. waiting' \in Seq(Replies)
    BY <2>1, <1>8
  <2>3. Len(waiting') <= 1 + asides'
    BY <1>1, <1>8 DEF Typed
  <2>4. rabbitRes' \in {"Boot", "boot", "idle"}
    <3>1. \A b \in Binds : Resources[b] \in {"boot", "idle"}
      BY DEF Binds, Resources
    <3> QED  BY <3>1, <1>1 DEF Typed
  <2> QED  BY <2>2, <2>3, <2>4, <1>1, <1>2, <1>3 DEF Typed
<1> QED  BY <1>9, <1>10, <1>11, <1>12, <1>13, <1>14 DEF HandshakeInv

\* The rabbit reads the answer it waits for.
LEMMA ReadsKeeps ==
  ASSUME Typed, StreamInv, HandshakeInv, RabbitReads
  PROVE  Typed' /\ StreamInv' /\ HandshakeInv'
<1> DEFINE x == Tail(toRabbit)  y == Tail(waiting)
<1>1. /\ toRabbit # <<>> /\ waiting # <<>> /\ toRabbit' = x /\ waiting' = y
      /\ server' = server /\ peer' = peer /\ wire' = wire
  BY DEF RabbitReads
<1>2. /\ x \in Seq(Replies) /\ y \in Seq(Replies) /\ Len(x) = Len(toRabbit) - 1
      /\ Len(y) = Len(waiting) - 1 /\ Len(toRabbit) \in Nat /\ Len(waiting) \in Nat
      /\ \A j \in 1..Len(x) : x[j] = toRabbit[j + 1]
      /\ \A j \in 1..Len(y) : y[j] = waiting[j + 1]
  BY <1>1, HeadTailProperties DEF Typed
<1> HIDE DEF x, y
<1>3. /\ buf' = buf /\ pc' = pc /\ alive' = alive /\ authed' = authed /\ bound' = bound
      /\ resource' = resource /\ knowsMac' = knowsMac /\ handled' = handled
      /\ rabbit' = rabbit /\ needs' = needs /\ rabbitRes' = rabbitRes /\ said' = said /\ asides' = asides
  BY <1>1 DEF server, peer
<1>4. StreamInv'
  BY <1>1, <1>3 DEF StreamInv, Texted, Fed, Reads, Sent
<1>5. Pending' = Pending /\ Owing' = Owing
  BY <1>3 DEF Pending, Owing
<1>6. InStep'
  <2>1. Len(x) <= Len(y) /\ Cardinality(Owing) = Len(y) - Len(x)
    <3>1. Len(toRabbit) <= Len(waiting) /\ Cardinality(Owing) = Len(waiting) - Len(toRabbit)
      BY DEF HandshakeInv, InStep
    <3> QED  BY ONLY <3>1, <1>2
  <2>2. \A j \in 1..Len(x) : x[j] = y[j]
    <3>1. \A j \in 1..Len(x) : j + 1 \in 1..Len(toRabbit) /\ j \in 1..Len(y)
      BY <1>2, <2>1
    <3> QED  BY <3>1, <1>2 DEF HandshakeInv, InStep
  <2>3. \A j \in 2..Len(y) : y[j] = "result_ping"
    <3>1. \A j \in 2..Len(y) : j + 1 \in 2..Len(waiting) /\ j \in 1..Len(y)
      BY <1>2
    <3> QED  BY <3>1, <1>2 DEF HandshakeInv, InStep
  <2> QED  BY <2>1, <2>2, <2>3, <1>1, <1>5 DEF InStep
<1>7. ScriptFirst'
  <2>1. \A i \in Pending : said[i] \notin Scripted
    BY <1>1 DEF HandshakeInv, ScriptFirst
  <2>2. y # <<>> => y[1] = "result_ping"
    <3>1. SUFFICES ASSUME y # <<>> PROVE y[1] = "result_ping"
      OBVIOUS
    <3>2. 1 \in 1..Len(y) /\ 1 + 1 \in 2..Len(waiting)
      BY <3>1, <1>2
    <3> QED  BY <3>2, <1>2 DEF HandshakeInv, InStep
  <2>3. rabbit \notin {"free", "left"} => \A i \in 1..Len(said) : said[i] \in Scripted
    BY DEF HandshakeInv, ScriptFirst
  <2> QED  BY <2>1, <2>2, <2>3, <1>1, <1>3, <1>5 DEF ScriptFirst
<1>8. Authentic' /\ BindsAgree'
  BY <1>3, <1>5 DEF HandshakeInv, Authentic, BindsAgree
<1>9. Typed'
  <2>1. Len(y) <= 1 + asides
    <3>1. Len(waiting) <= 1 + asides /\ asides \in Int
      BY DEF Typed
    <3> QED  BY ONLY <3>1, <1>2
  <2> QED  BY <2>1, <1>1, <1>2, <1>3 DEF Typed
<1> QED  BY <1>4, <1>6, <1>7, <1>8, <1>9 DEF HandshakeInv

\* Greeted, it goes on with its script.
LEMMA ChoosesKeeps ==
  ASSUME Typed, StreamInv, HandshakeInv, RabbitChooses
  PROVE  Typed' /\ StreamInv' /\ HandshakeInv'
<1>1. /\ rabbit = "greeted" /\ rabbit' \in {"asks", "auths"}
      /\ server' = server /\ wire' = wire /\ toRabbit' = toRabbit /\ waiting' = waiting
      /\ needs' = needs /\ rabbitRes' = rabbitRes /\ said' = said /\ asides' = asides
  BY DEF RabbitChooses
<1>2. /\ buf' = buf /\ pc' = pc /\ alive' = alive /\ authed' = authed /\ bound' = bound
      /\ resource' = resource /\ knowsMac' = knowsMac /\ handled' = handled
  BY <1>1 DEF server
<1>3. Sent' = Sent
  BY <1>1 DEF Sent
<1>4. StreamInv'
  BY <1>1, <1>2, <1>3 DEF StreamInv, Texted, Fed, Reads
<1>5. Pending' = Pending /\ Owing' = Owing
  BY <1>1, <1>2 DEF Pending, Owing
<1>6. InStep'
  BY <1>1, <1>5 DEF HandshakeInv, InStep
<1>7. ScriptFirst'
  <2>1. rabbit \notin {"free", "left"}
    BY <1>1
  <2> QED  BY <2>1, <1>1, <1>2, <1>5 DEF HandshakeInv, ScriptFirst
<1>8. Authentic'
  <2>1. rabbit \in Early /\ rabbit' \in Early
    BY <1>1 DEF Early
  <2> QED  BY <2>1, <1>1, <1>2, <1>5 DEF HandshakeInv, Authentic
<1>9. BindsAgree'
  BY <1>1, <1>2 DEF HandshakeInv, BindsAgree
<1>10. Typed'
  <2>1. {"asks", "auths"} \subseteq DOMAIN Script
    BY DEF Script
  <2> QED  BY <2>1, <1>1, <1>2 DEF Typed
<1> QED  BY <1>4, <1>6, <1>7, <1>8, <1>9, <1>10 DEF HandshakeInv

\* A ping or a message is said by a rabbit whose script is over.
LEMMA UnitAside ==
  ASSUME Typed, StreamInv, HandshakeInv, NEW u \in {"ping", "button", "ears"}, Aside(u)
  PROVE  Typed' /\ StreamInv' /\ HandshakeInv'
<1> DEFINE m == Len(said)  n == Len(handled)  w == Len(waiting)
<1>0. Texted
  BY DEF StreamInv
<1>1. /\ asides < MaxAsides /\ rabbit = "free" /\ wire' = wire \o Text(u) /\ said' = Append(said, u)
      /\ waiting' = IF u = "ping" THEN Append(waiting, "result_ping") ELSE waiting
      /\ rabbit' = rabbit /\ asides' = asides + 1 /\ server' = server /\ toRabbit' = toRabbit
      /\ needs' = needs /\ rabbitRes' = rabbitRes
  BY DEF Aside
<1>2. /\ buf' = buf /\ pc' = pc /\ alive' = alive /\ authed' = authed /\ bound' = bound
      /\ resource' = resource /\ knowsMac' = knowsMac /\ handled' = handled
  BY <1>1 DEF server
<1>3. /\ u \in Heard /\ u \notin Scripted /\ u \notin Binds /\ (u \in Answered <=> u = "ping")
  BY Kinds DEF MessageKinds
<1>4. /\ said \in Seq(Heard) /\ m \in Nat /\ n \in Nat /\ n <= m /\ Pending \subseteq 1..m
      /\ w \in Nat /\ Len(toRabbit) \in Nat /\ waiting \in Seq(Replies)
  BY <1>0, HeardIs DEF Typed
<1>5. /\ Len(said') = m + 1 /\ said'[m + 1] = u
      /\ \A i \in 1..m : said'[i] = said[i]
      /\ Pending' = Pending \cup {m + 1} /\ m + 1 \notin Pending
      /\ Cardinality(Owing') = IF u \in Answered THEN Cardinality(Owing) + 1 ELSE Cardinality(Owing)
  BY <1>0, <1>1, <1>2, <1>3, OwingMore, Zenon
<1>6. /\ u = "ping" => /\ waiting' \in Seq(Replies) /\ Len(waiting') = w + 1
                       /\ waiting'[w + 1] = "result_ping"
                       /\ \A j \in 1..w : waiting'[j] = waiting[j]
      /\ u # "ping" => waiting' = waiting
  <2>1. "result_ping" \in Replies
    BY DEF Replies
  <2> QED  BY <2>1, <1>1, <1>4
<1> HIDE DEF m, n, w
<1>7. StreamInv'
  <2>1. u \in Said
    BY <1>3 DEF Said
  <2>2. Sent = said /\ Sent' = said'
    BY <1>1 DEF Sent
  <2> QED  BY <2>1, <2>2, <1>1, <1>3, Writes
<1>8. InStep'
  <2>1. /\ Len(toRabbit) <= w /\ \A j \in 1..Len(toRabbit) : toRabbit[j] = waiting[j]
        /\ Cardinality(Owing) = w - Len(toRabbit)
        /\ \A j \in 2..w : waiting[j] = "result_ping"
    BY DEF HandshakeInv, InStep, w
  <2>2. CASE u = "ping"
    <3>1. Len(toRabbit) <= w + 1 /\ (w - Len(toRabbit)) + 1 = (w + 1) - Len(toRabbit)
      BY ONLY <2>1, <1>4 DEF w
    <3>2. \A j \in 1..Len(toRabbit) : j \in 1..w
      BY ONLY <2>1, <1>4 DEF w
    <3>3. \A j \in 2..(w + 1) : j \in 2..w \/ j = w + 1
      BY ONLY <1>4 DEF w
    <3>4. \A j \in 2..w : j \in 1..w
      BY ONLY <1>4 DEF w
    <3>5. \A j \in 2..(w + 1) : waiting'[j] = "result_ping"
      BY <3>3, <3>4, <2>1, <2>2, <1>6
    <3>6. \A j \in 1..Len(toRabbit) : toRabbit[j] = waiting'[j]
      BY <3>2, <2>1, <2>2, <1>6
    <3>7. Cardinality(Owing') = (w + 1) - Len(toRabbit)
      BY <3>1, <2>1, <2>2, <1>3, <1>5
    <3> QED  BY <3>1, <3>5, <3>6, <3>7, <2>2, <1>1, <1>6 DEF InStep
  <2>3. CASE u # "ping"
    BY <2>1, <2>3, <1>1, <1>3, <1>5, <1>6 DEF InStep, w
  <2> QED  BY <2>2, <2>3
<1>9. ScriptFirst'
  <2>1. \A i \in Pending' : said'[i] \in Scripted => i \in Pending /\ said'[i] = said[i]
    BY <1>3, <1>4, <1>5
  <2>2. waiting # <<>> => waiting' # <<>> /\ waiting'[1] = waiting[1]
    <3>1. SUFFICES ASSUME waiting # <<>>, u = "ping" PROVE waiting' # <<>> /\ waiting'[1] = waiting[1]
      BY <1>6
    <3>2. 1 \in 1..w /\ w + 1 # 0
      BY <3>1, <1>4 DEF w
    <3> QED  BY <3>1, <3>2, <1>6
  <2>3. ASSUME NEW i \in Pending', said'[i] \in Scripted
        PROVE  /\ i = Len(handled') + 1 /\ toRabbit' = <<>>
               /\ waiting' # <<>> /\ waiting'[1] = Reply(said'[i], authed')
    <3>1. i \in Pending /\ said'[i] = said[i]
      BY <2>1, <2>3
    <3>2. i = Len(handled) + 1 /\ toRabbit = <<>> /\ waiting # <<>> /\ waiting[1] = Reply(said[i], authed)
      BY <3>1, <2>3 DEF HandshakeInv, ScriptFirst
    <3> QED  BY <3>1, <3>2, <2>2, <1>1, <1>2
  <2>4. ASSUME toRabbit' = <<>>, waiting' # <<>>, \A i \in Pending' : said'[i] \notin Scripted
        PROVE  waiting'[1] = "result_ping"
    <3>1. \A i \in Pending : said[i] \notin Scripted
      BY <2>4, <1>4, <1>5
    <3>2. CASE waiting # <<>>
      <4>1. waiting[1] = "result_ping"
        BY <3>1, <3>2, <2>4, <1>1 DEF HandshakeInv, ScriptFirst
      <4> QED  BY <4>1, <3>2, <2>2
    <3>3. CASE waiting = <<>>
      <4>1. u = "ping" /\ w = 0
        BY <3>3, <2>4, <1>6 DEF w
      <4> QED  BY <4>1, <1>6
    <3> QED  BY <3>2, <3>3
  <2>5. ~(rabbit' \notin {"free", "left"})
    BY <1>1
  <2> QED  BY <2>3, <2>4, <2>5 DEF ScriptFirst
<1>10. n < m => n + 1 \in 1..m /\ n < m + 1
  BY <1>4 DEF n, m
<1>11. n < m \/ n = m
  BY <1>4, LessOrSame, Zenon DEF n, m
<1>12. Authentic'
  <2>1. rabbit \notin Early /\ rabbit' \notin Early
    BY <1>1 DEF Early
  <2>2. authed \/ (n < m /\ said[n + 1] = "response")
    BY <2>1 DEF HandshakeInv, Authentic, n, m
  <2> QED  BY <2>1, <2>2, <1>2, <1>5, <1>10 DEF Authentic, n
<1>13. BindsAgree'
  <2>1. IF n < m /\ said[n + 1] \in Binds THEN rabbitRes = Resources[said[n + 1]]
        ELSE resource = rabbitRes
    BY DEF HandshakeInv, BindsAgree, n, m
  <2>2. CASE n < m
    <3>1. said'[n + 1] = said[n + 1] /\ n < Len(said')
      BY <2>2, <1>5, <1>10
    <3> QED  BY <3>1, <2>1, <2>2, <1>1, <1>2 DEF BindsAgree, n
  <2>3. CASE n = m
    <3>1. said'[n + 1] \notin Binds /\ ~(n < m)
      BY <2>3, <1>3, <1>4, <1>5 DEF n, m
    <3> QED  BY <3>1, <2>1, <1>1, <1>2 DEF BindsAgree, n
  <2> QED  BY <2>2, <2>3, <1>11
<1>14. Typed'
  <2>1. /\ asides' \in 0..MaxAsides
    BY <1>1, XmppStreamAssumption DEF Typed
  <2>2. waiting' \in Seq(Replies) /\ Len(waiting') <= 1 + asides'
    <3>1. w <= 1 + asides /\ asides \in Int
      BY DEF Typed, w
    <3>2. Len(waiting') <= w + 1 /\ Len(waiting') \in Nat
      BY <1>4, <1>6 DEF w
    <3>3. Len(waiting') <= 1 + (asides + 1)
      BY ONLY <3>1, <3>2, <1>4 DEF w
    <3> QED  BY <3>3, <1>1, <1>4, <1>6
  <2> QED  BY <2>1, <2>2, <1>1, <1>2 DEF Typed
<1> QED  BY <1>7, <1>8, <1>9, <1>12, <1>13, <1>14 DEF HandshakeInv

\* A keepalive, or the end of the stream, is no stanza.
LEMMA TextAside ==
  ASSUME Typed, StreamInv, HandshakeInv, NEW u \in {"space", "close"}, Aside(u)
  PROVE  Typed' /\ StreamInv' /\ HandshakeInv'
<1>1. /\ asides < MaxAsides
      /\ rabbit = "free" \/ (u = "space" /\ rabbit \notin {"dials", "left"})
      /\ wire' = wire \o Text(u) /\ said' = said /\ waiting' = waiting
      /\ rabbit' = (IF u = "close" THEN "left" ELSE rabbit) /\ asides' = asides + 1
      /\ server' = server /\ toRabbit' = toRabbit /\ needs' = needs /\ rabbitRes' = rabbitRes
  BY DEF Aside
<1>2. /\ buf' = buf /\ pc' = pc /\ alive' = alive /\ authed' = authed /\ bound' = bound
      /\ resource' = resource /\ knowsMac' = knowsMac /\ handled' = handled
  BY <1>1 DEF server
<1>3. rabbit' = rabbit \/ (rabbit = "free" /\ rabbit' = "left")
  BY <1>1
<1>4. StreamInv'
  <2>1. CASE u = "space"
    <3>1. Sent' = Sent
      BY <2>1, <1>1 DEF Sent
    <3> QED  BY <2>1, <3>1, <1>1, WritesBlank
  <2>2. CASE u = "close"
    <3>1. Sent' = Append(Sent, u) /\ u \in Said
      BY <2>2, <1>1 DEF Sent, Said
    <3> QED  BY <3>1, <1>1, Writes
  <2> QED  BY <2>1, <2>2
<1>5. Pending' = Pending /\ Owing' = Owing
  BY <1>1, <1>2 DEF Pending, Owing
<1>6. InStep' /\ BindsAgree'
  BY <1>1, <1>2, <1>5 DEF HandshakeInv, InStep, BindsAgree
<1>7. ScriptFirst'
  BY <1>1, <1>2, <1>3, <1>5 DEF HandshakeInv, ScriptFirst
<1>8. Authentic'
  <2>1. rabbit' \in Early <=> rabbit \in Early
    BY <1>3 DEF Early
  <2> QED  BY <2>1, <1>1, <1>2, <1>5 DEF HandshakeInv, Authentic
<1>9. Typed'
  <2>1. asides' \in 0..MaxAsides /\ Len(waiting') <= 1 + asides'
    <3>1. asides \in 0..MaxAsides /\ Len(waiting) <= 1 + asides /\ Len(waiting) \in Nat
      BY DEF Typed
    <3>2. asides < MaxAsides /\ asides' = asides + 1 /\ waiting' = waiting /\ MaxAsides \in Nat
      BY <1>1, XmppStreamAssumption
    <3>3. asides' \in 0..MaxAsides
      BY ONLY <3>1, <3>2
    <3>4. Len(waiting') <= 1 + asides'
      BY ONLY <3>1, <3>2
    <3> QED  BY <3>3, <3>4
  <2> QED  BY <2>1, <1>1, <1>2, <1>3 DEF Typed
<1> QED  BY <1>4, <1>6, <1>7, <1>8, <1>9 DEF HandshakeInv

\* Receiving and parsing alone leave the handshake where it is.
LEMMA FrameKeeps ==
  ASSUME Typed, HandshakeInv, pc' \in {"recv", "parse"}, alive' \in BOOLEAN,
         UNCHANGED <<authed, bound, resource, knowsMac, handled, toRabbit, peer, waiting>>
  PROVE  Typed' /\ HandshakeInv'
<1>1. /\ authed' = authed /\ bound' = bound /\ resource' = resource /\ knowsMac' = knowsMac
      /\ handled' = handled /\ toRabbit' = toRabbit /\ waiting' = waiting
      /\ rabbit' = rabbit /\ needs' = needs /\ rabbitRes' = rabbitRes /\ said' = said /\ asides' = asides
  BY DEF peer
<1>2. Pending' = Pending /\ Owing' = Owing
  BY <1>1 DEF Pending, Owing
<1>3. HandshakeInv'
  BY <1>1, <1>2 DEF HandshakeInv, InStep, ScriptFirst, Authentic, BindsAgree
<1>4. Typed'
  BY <1>1 DEF Typed
<1> QED  BY <1>3, <1>4

IInv == Typed /\ StreamInv /\ HandshakeInv

\* The parser's steps that hear something.
LEMMA HeardKeeps ==
  ASSUME IInv, StreamOpens \/ Handle
  PROVE  IInv'
<1>1. Typed /\ StreamInv /\ HandshakeInv /\ Texted /\ authed \in BOOLEAN /\ toRabbit \in Seq(Replies)
  BY DEF IInv, StreamInv, Typed
<1>2. StreamInv' /\ Hearing
  BY <1>1, OpensHears, HandleHears
<1>3. /\ pc' = pc /\ alive' = alive /\ wire' = wire /\ peer' = peer /\ waiting' = waiting
      /\ bound' \in BOOLEAN /\ knowsMac' \in BOOLEAN
  <2>1. CASE StreamOpens
    BY <2>1 DEF StreamOpens, IInv, Typed
  <2>2. CASE Handle
    BY <2>2 DEF Handle, IInv, Typed
  <2> QED  BY <2>1, <2>2
<1>4. /\ rabbit' = rabbit /\ needs' = needs /\ rabbitRes' = rabbitRes /\ said' = said /\ asides' = asides
  BY <1>3 DEF peer
<1>5. /\ HandshakeInv' /\ authed' \in BOOLEAN /\ resource' \in {"Boot", "boot", "idle"}
      /\ toRabbit' \in Seq(Replies)
  BY <1>1, <1>2, <1>3, <1>4, HearingKeeps
<1>6. Typed'
  BY <1>1, <1>3, <1>4, <1>5 DEF Typed
<1> QED  BY <1>2, <1>5, <1>6 DEF IInv

\* It holds at first,
LEMMA InitHolds == Init => IInv
<1> SUFFICES ASSUME Init PROVE IInv
  OBVIOUS
<1>1. StreamInv
  BY StreamInit
<1>2. /\ toRabbit = <<>> /\ waiting = <<>> /\ said = <<>> /\ handled = <<>> /\ rabbit = "dials"
      /\ authed = FALSE /\ resource = "Boot" /\ rabbitRes = "Boot"
  BY DEF Init
<1>3. Len(said) = 0 /\ Len(handled) = 0 /\ Len(waiting) = 0 /\ Len(toRabbit) = 0
  BY <1>2
<1>4. Pending = {} /\ Cardinality(Owing) = 0
  <2>1. Pending = {}
    BY <1>3 DEF Pending
  <2>2. Owing = {}
    BY <2>1 DEF Owing
  <2> QED  BY <2>1, <2>2, FS_EmptySet
<1>5. InStep
  BY <1>3, <1>4 DEF InStep
<1>6. ScriptFirst
  BY <1>2, <1>3, <1>4 DEF ScriptFirst
<1>7. Authentic /\ BindsAgree
  <2>1. rabbit \in Early
    BY <1>2 DEF Early
  <2> QED  BY <2>1, <1>2, <1>3, <1>4 DEF Authentic, BindsAgree
<1>8. Typed
  <2>1. rabbit \in DOMAIN Script
    BY <1>2 DEF Script
  <2>2. needs \in BOOLEAN
    BY XmppStreamAssumption DEF Init
  <2>3. asides \in 0..MaxAsides /\ Len(waiting) <= 1 + asides
    BY <1>3, XmppStreamAssumption DEF Init
  <2>4. <<>> \in Seq(Replies)
    OBVIOUS
  <2> QED  BY <2>1, <2>2, <2>3, <2>4, <1>2 DEF Init, Typed
<1> QED  BY <1>1, <1>5, <1>6, <1>7, <1>8 DEF IInv, HandshakeInv

\* and every step keeps it.
LEMMA NextKeeps ==
  ASSUME ~CutsAnywhere, IInv, [Next]_vars
  PROVE  IInv'
<1>0. Typed /\ StreamInv /\ HandshakeInv
  BY DEF IInv
<1>1. CASE Receive
  <2>1. PICK m \in 1..Len(wire) : Recv(m)
    BY <1>1 DEF Receive
  <2>2. StreamInv'
    BY <2>1, <1>0, RecvKeeps
  <2>3. /\ pc' = "parse" /\ alive' = alive
        /\ UNCHANGED <<authed, bound, resource, knowsMac, handled, toRabbit, peer, waiting>>
    BY <2>1 DEF Recv
  <2>4. Typed' /\ HandshakeInv'
    BY <2>3, <1>0, FrameKeeps DEF Typed
  <2> QED  BY <2>2, <2>4 DEF IInv
<1>2. CASE Waits \/ Skips \/ StreamCloses
  <2>1. StreamInv'
    BY <1>0, <1>2, WaitsKeeps, SkipsKeeps, ClosesKeeps
  <2>2. /\ pc' \in {"recv", "parse"} /\ alive' \in BOOLEAN
        /\ UNCHANGED <<authed, bound, resource, knowsMac, handled, toRabbit, peer, waiting>>
    <3>1. pc \in {"recv", "parse"} /\ alive \in BOOLEAN
      BY <1>0 DEF Typed
    <3>2. CASE Waits
      BY <3>1, <3>2 DEF Waits
    <3>3. CASE Skips
      BY <3>1, <3>3 DEF Skips
    <3>4. CASE StreamCloses
      BY <3>1, <3>4 DEF StreamCloses
    <3> QED  BY <1>2, <3>2, <3>3, <3>4
  <2>3. Typed' /\ HandshakeInv'
    BY <2>2, <1>0, FrameKeeps
  <2> QED  BY <2>1, <2>3 DEF IInv
<1>3. CASE StreamOpens \/ Handle
  BY <1>3, HeardKeeps
<1>4. CASE RabbitSays
  BY <1>0, <1>4, SaysKeeps DEF IInv
<1>5. CASE RabbitReads
  BY <1>0, <1>5, ReadsKeeps DEF IInv
<1>6. CASE RabbitChooses
  BY <1>0, <1>6, ChoosesKeeps DEF IInv
<1>7. CASE \E u \in Asides : Aside(u)
  <2>1. PICK u \in Asides : Aside(u)
    BY <1>7
  <2>2. u \in {"ping", "button", "ears"} \/ u \in {"space", "close"}
    BY DEF Asides
  <2> QED  BY <2>1, <2>2, <1>0, UnitAside, TextAside DEF IInv
<1>8. CASE UNCHANGED vars
  <2>1. /\ server' = server /\ peer' = peer /\ wire' = wire /\ toRabbit' = toRabbit /\ waiting' = waiting
    BY <1>8 DEF vars
  <2>2. /\ buf' = buf /\ pc' = pc /\ alive' = alive
        /\ UNCHANGED <<authed, bound, resource, knowsMac, handled, toRabbit, peer, waiting>>
    BY <2>1 DEF server
  <2>3. Typed' /\ HandshakeInv'
    BY <2>2, <1>0, FrameKeeps DEF Typed
  <2>4. said' = said /\ rabbit' = rabbit
    BY <2>1 DEF peer
  <2>5. StreamInv'
    BY <1>0, <2>1, <2>2, <2>4 DEF StreamInv, Texted, Fed, Reads, Sent
  <2> QED  BY <2>3, <2>5 DEF IInv
<1> QED  BY <1>1, <1>2, <1>3, <1>4, <1>5, <1>6, <1>7, <1>8 DEF Next, Parse

\* So it always holds of a session whose segments do not end right after a "<".
THEOREM HandshakeInvariant == ~CutsAnywhere /\ Spec => []IInv
<1> SUFFICES ASSUME ~CutsAnywhere PROVE Spec => []IInv
  OBVIOUS
<1>1. IInv /\ [Next]_vars => IInv'
  BY NextKeeps
<1> QED  BY <1>1, InitHolds, PTL DEF Spec
-----------------------------------------------------------------------------
(* Types are kept whatever the segments cut: what is lost is not answered, *)
(* and no other resource is ever taken from what is left of a stanza.      *)
WellTyped ==
  /\ pc \in {"recv", "parse"} /\ {alive, authed, bound, knowsMac, needs} \subseteq BOOLEAN
  /\ {resource, rabbitRes} \subseteq {"Boot", "boot", "idle"}
  /\ rabbit \in DOMAIN Script \cup {"greeted", "free", "left"}
  /\ asides \in 0..MaxAsides
  /\ waiting \in Seq(Replies) /\ Len(waiting) <= 1 + asides

\* What is taken for a bind names one of the two resources.
LEMMA ResourceTypes == \A st : IsBind(st) => BoundResource(st) \in {"boot", "idle"}
<1> SUFFICES ASSUME NEW st, IsBind(st) PROVE BoundResource(st) \in {"boot", "idle"}
  OBVIOUS
<1> DEFINE x == CHOOSE x \in BindNamespace(st) : TRUE
<1>1. BindNamespace(st) # {}
  BY DEF IsBind
<1>2. x \in BindNamespace(st)
  BY <1>1
<1>3. x \in {"bind_boot", "bind_idle", "unbind_boot"}
  BY <1>2 DEF BindNamespace, Resources
<1>4. BoundResource(st) = Resources[x]
  BY DEF BoundResource
<1> HIDE DEF x
<1> QED  BY <1>3, <1>4 DEF Resources

\* Only the branch for a bind is named "bind".
LEMMA BindBranch == \A st : Branch(st) = "bind" => IsBind(st)
<1> SUFFICES ASSUME NEW st, ~IsBind(st) PROVE Branch(st) # "bind"
  OBVIOUS
<1> QED  BY DEF Branch

\* The session's thread keeps the types of its attributes.
LEMMA ServerTypes ==
  ASSUME WellTyped, Receive \/ Parse
  PROVE  WellTyped'
<1>1. /\ pc \in {"recv", "parse"} /\ {alive, authed, bound, knowsMac} \subseteq BOOLEAN
      /\ resource \in {"Boot", "boot", "idle"}
  BY DEF WellTyped
<1>2. /\ pc' \in {"recv", "parse"} /\ {alive', authed', bound', knowsMac'} \subseteq BOOLEAN
      /\ resource' \in {"Boot", "boot", "idle"} /\ waiting' = waiting /\ peer' = peer
  <2>1. CASE Receive
    BY <1>1, <2>1 DEF Receive, Recv
  <2>2. CASE Waits
    BY <1>1, <2>2 DEF Waits
  <2>3. CASE Skips
    BY <1>1, <2>3 DEF Skips
  <2>4. CASE StreamCloses
    BY <1>1, <2>4 DEF StreamCloses
  <2>5. CASE StreamOpens
    BY <1>1, <2>5 DEF StreamOpens
  <2>6. CASE Handle
    <3>1. /\ pc' = pc /\ alive' = alive /\ waiting' = waiting /\ peer' = peer
      BY <2>6 DEF Handle
    <3>2. PICK st :
            /\ authed' = (authed \/ Branch(st) = "response")
            /\ bound' = (bound \/ Branch(st) \in {"session", "unbind"})
            /\ knowsMac' = (knowsMac \/ Branch(st) \in {"credentials", "bind"})
            /\ resource' = IF Branch(st) = "bind" THEN BoundResource(st) ELSE resource
      BY <2>6, Zenon DEF Handle
    <3>3. {authed', bound', knowsMac'} \subseteq BOOLEAN
      BY <3>2
    <3>4. resource' \in {"Boot", "boot", "idle"}
      BY <3>2, <1>1, ResourceTypes, BindBranch
    <3> QED  BY <1>1, <3>1, <3>3, <3>4
  <2> QED  BY <2>1, <2>2, <2>3, <2>4, <2>5, <2>6 DEF Parse
<1>3. /\ rabbit' = rabbit /\ needs' = needs /\ rabbitRes' = rabbitRes /\ asides' = asides
  BY <1>2 DEF peer
<1> QED  BY <1>2, <1>3 DEF WellTyped

\* So does the rabbit: it adds an answer to wait for only when it waits for none,
\* or with an aside.
LEMMA RabbitTypes ==
  ASSUME WellTyped, RabbitSays \/ RabbitReads \/ RabbitChooses \/ \E u \in Asides : Aside(u)
  PROVE  WellTyped'
<1>1. /\ waiting \in Seq(Replies) /\ Len(waiting) \in Nat /\ Len(waiting) <= 1 + asides
      /\ asides \in 0..MaxAsides /\ asides \in Nat /\ MaxAsides \in Nat
  BY XmppStreamAssumption DEF WellTyped
<1>2. /\ server' = server /\ needs' = needs
  BY DEF RabbitSays, RabbitReads, RabbitChooses, Aside, peer
<1>3. /\ rabbit' \in DOMAIN Script \cup {"greeted", "free", "left"}
      /\ rabbitRes' \in {"Boot", "boot", "idle"} /\ asides' \in 0..MaxAsides
      /\ waiting' \in Seq(Replies) /\ Len(waiting') <= 1 + asides'
  <2>1. CASE RabbitSays
    <3> DEFINE r == rabbit  u == Script[r].says
    <3>1. /\ r \in DOMAIN Script /\ waiting' = <<Script[r].awaits>> /\ rabbit' = Script[r].then
          /\ rabbitRes' = IF u \in Binds THEN Resources[u] ELSE rabbitRes
          /\ asides' = asides
      BY <2>1, Zenon DEF RabbitSays, Binds
    <3>2. /\ u \in Heard \ MessageKinds /\ rabbit' \in DOMAIN Script \cup {"greeted", "free"}
          /\ Script[r].awaits = Reply(u, r \notin Early)
      BY <3>1, ScriptIs, Kinds DEF ScriptStep, Scripted, Answered
    <3>3. Script[r].awaits \in Replies
      <4>1. (r \notin Early) \in BOOLEAN
        OBVIOUS
      <4> QED  BY <3>2, <4>1, ReplyTypes DEF Answered
    <3> HIDE DEF r, u
    <3>4. waiting' \in Seq(Replies) /\ Len(waiting') = 1
      BY <3>1, <3>3
    <3>5. rabbitRes' \in {"Boot", "boot", "idle"}
      BY <3>1 DEF WellTyped, Binds, Resources
    <3> QED  BY <1>1, <3>1, <3>2, <3>4, <3>5
  <2>2. CASE RabbitReads
    <3>1. waiting # <<>> /\ waiting' = Tail(waiting) /\ peer' = peer
      BY <2>2 DEF RabbitReads
    <3>2. waiting' \in Seq(Replies) /\ Len(waiting') = Len(waiting) - 1
      BY <1>1, <3>1, HeadTailProperties
    <3> QED  BY <1>1, <3>1, <3>2 DEF peer, WellTyped
  <2>3. CASE RabbitChooses
    <3>1. {"asks", "auths"} \subseteq DOMAIN Script
      BY DEF Script
    <3> QED  BY <1>1, <2>3, <3>1 DEF RabbitChooses, WellTyped
  <2>4. CASE \E u \in Asides : Aside(u)
    <3>1. PICK u \in Asides : Aside(u)
      BY <2>4
    <3>2. /\ asides < MaxAsides /\ asides' = asides + 1 /\ rabbitRes' = rabbitRes
          /\ rabbit' = rabbit \/ rabbit' = "left"
          /\ waiting' = Append(waiting, "result_ping") \/ waiting' = waiting
      BY <3>1 DEF Aside
    <3>3. "result_ping" \in Replies
      BY DEF Replies
    <3>4. waiting' \in Seq(Replies) /\ Len(waiting') <= Len(waiting) + 1
      BY <1>1, <3>2, <3>3
    <3> QED  BY <1>1, <3>2, <3>4 DEF WellTyped
  <2> QED  BY <2>1, <2>2, <2>3, <2>4
<1> QED  BY <1>2, <1>3 DEF server, WellTyped

-----------------------------------------------------------------------------
(* The theorems.  All but the first are about segments that do not end     *)
(* right after a "<": of those that do, the parser loses stanzas.          *)

\* The session, the rabbit and what is under way between them are well formed,
\* and the rabbit waits for at most one answer more than it made asides,
\* wherever its segments end.
THEOREM TypeCorrect == Spec => []TypeOK
<1>1. Init => WellTyped
  BY InitHolds DEF IInv, Typed, WellTyped
<1>2. WellTyped /\ [Next]_vars => WellTyped'
  <2> SUFFICES ASSUME WellTyped, [Next]_vars PROVE WellTyped'
    OBVIOUS
  <2>1. CASE UNCHANGED vars
    BY <2>1 DEF vars, server, peer, WellTyped
  <2> QED  BY <2>1, ServerTypes, RabbitTypes DEF Next
<1>3. WellTyped => TypeOK
  <2> SUFFICES ASSUME WellTyped PROVE TypeOK
    OBVIOUS
  <2>1. WellTyped /\ Len(waiting) \in Nat
    BY DEF WellTyped
  <2>2. Len(waiting) <= 1 + MaxAsides
    <3>1. Len(waiting) <= 1 + asides /\ asides \in 0..MaxAsides
      BY <2>1 DEF WellTyped
    <3> QED  BY ONLY <2>1, <3>1, XmppStreamAssumption
  <2> QED  BY <2>1, <2>2 DEF WellTyped, TypeOK
<1> QED  BY <1>1, <1>2, <1>3, PTL DEF Spec

\* _feed hands over what the rabbit says, whole, once and in order, wherever TCP
\* cuts it, and leaves nothing behind.
THEOREM StreamExtracted == ~CutsAnywhere /\ Spec => []StanzasExtracted
<1>1. IInv => StanzasExtracted
  BY Extracted DEF IInv
<1> QED  BY <1>1, HandshakeInvariant, PTL

\* Every answer is the one the rabbit waits for: the handshake stays in step, with
\* credentials or without, whatever else the rabbit says.
THEOREM HandshakeInOrder == ~CutsAnywhere /\ Spec => []AnswersInOrder
<1>1. IInv => AnswersInOrder
  <2> SUFFICES ASSUME IInv PROVE AnswersInOrder
    OBVIOUS
  <2> DEFINE k == Len(toRabbit)  x == SubSeq(waiting, 1, k)
  <2>1. /\ toRabbit \in Seq(Replies) /\ waiting \in Seq(Replies) /\ k \in Nat /\ Len(waiting) \in Nat
        /\ k <= Len(waiting) /\ \A j \in 1..k : toRabbit[j] = waiting[j]
    BY DEF IInv, Typed, HandshakeInv, InStep
  <2>2. x \in Seq(Replies) /\ Len(x) = k /\ \A j \in 1..k : x[j] = waiting[j]
    <3>1. \A j \in 1..k : j \in 1..Len(waiting)
      BY <2>1
    <3> QED  BY <2>1, <3>1
  <2>3. SubSeq(toRabbit, 1, k) = toRabbit
    BY <2>1
  <2>4. toRabbit = x
    <3>1. Len(toRabbit) = Len(x) /\ \A j \in 1..Len(toRabbit) : toRabbit[j] = x[j]
      BY <2>1, <2>2
    <3> HIDE DEF x, k
    <3> QED  BY ONLY <2>1, <2>2, <3>1, SeqEqual
  <2> QED  BY <2>1, <2>3, <2>4 DEF AnswersInOrder, IsPrefix
<1> QED  BY <1>1, HandshakeInvariant, PTL

\* With nothing under way to the server, it knows the resource the rabbit has bound
\* last: releasing `boot` does not take it back there.
THEOREM ResourceFollows == ~CutsAnywhere /\ Spec => []ResourceAgrees
<1>1. IInv => ResourceAgrees
  <2> SUFFICES ASSUME IInv, alive, wire = <<>>, buf = <<>>, pc = "recv"
               PROVE  resource = rabbitRes
    BY DEF ResourceAgrees
  <2>1. handled = said
    BY Extracted DEF IInv, StanzasExtracted
  <2>2. ~(Len(handled) < Len(said))
    <3>1. Len(said) \in Nat
      BY HeardIs DEF IInv, StreamInv
    <3> QED  BY <2>1, <3>1
  <2> QED  BY <2>2 DEF IInv, HandshakeInv, BindsAgree
<1> QED  BY <1>1, HandshakeInvariant, PTL
=============================================================================
