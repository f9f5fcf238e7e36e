--------------------------- MODULE XmppStreamProps ---------------------------
(***************************************************************************)
(* What the stream and its handshake promise.                              *)
(***************************************************************************)
EXTENDS XmppStream

TypeOK ==
  /\ pc \in {"recv", "parse"}
  /\ {alive, authed, bound, knowsMac, needs} \subseteq BOOLEAN
  /\ resource \in {"Boot", "boot", "idle"} /\ rabbitRes \in {"Boot", "boot", "idle"}
  /\ rabbit \in DOMAIN Script \cup {"greeted", "free", "left"}
  /\ asides \in 0..MaxAsides
  /\ Len(waiting) <= 1 + MaxAsides

\* _feed hands over the stanzas of the stream, whole, once and in order, however
\* TCP cut it; and once everything has arrived none stays in the buffer.
StanzasExtracted ==
  /\ IsPrefix(handled, said)
  /\ (alive /\ pc = "recv" /\ wire = <<>>) => handled = said

\* Every answer on its way is the one the rabbit waits for at that point: no
\* query is answered twice, in the wrong order or with another one's answer.
AnswersInOrder == IsPrefix(toRabbit, waiting)

\* With nothing in flight the server pushes to the resource the rabbit has bound:
\* releasing `boot` must not take the server back to it.
ResourceAgrees ==
  (alive /\ wire = <<>> /\ buf = <<>> /\ pc = "recv") => resource = rabbitRes

\* The handshake ends: the rabbit gets to the state in which it executes what it
\* is pushed, with or without credentials.
RabbitGetsFree == <>(rabbit \in {"free", "left"} /\ waiting = <<>>)

=============================================================================
