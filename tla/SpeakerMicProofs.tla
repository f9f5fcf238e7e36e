-------------------------- MODULE SpeakerMicProofs --------------------------
(***************************************************************************)
(* What holds of the book-keeping of the codec in every scenario, for any  *)
(* requests, wake words, connections and settings: the types, and that the *)
(* hold is counted rightly wherever threads switch only where they send or *)
(* sleep.                                                                  *)
(***************************************************************************)
EXTENDS SpeakerMicProps, SequenceTheorems, FiniteSetTheorems, TLAPS

\* The steps a thread may have still to take, and those that touch the hold.
Ops == {"free", "ack", "RT", "RS", "ST", "readHold", "incHold", "decHold", "released", "rearm",
        "settle", "listen", "save", "unstream", "owe", "stream", "capture", "collected", "chill",
        "off", "sleep", "think", "wait", "init"}
Counts == {"incHold", "decHold"}
Others == Ops \ {"readHold", "incHold", "decHold", "init"}

\* What is left of an operation that takes or releases the hold, once at most each
\* and in that order: each time it reads the count, then writes it.
Good(q) ==
  /\ q \in Seq(Ops)
  /\ \A i, j \in 1..Len(q) : q[i] = q[j] /\ q[i] \in Counts => i = j
  /\ \A i, j \in 1..Len(q) : q[i] = "incHold" /\ q[j] = "decHold" => i < j
  /\ \A i \in 1..Len(q) : q[i] \in Counts => i = 1 \/ q[i - 1] = "readHold"
  /\ \A i \in 1..Len(q) : q[i] = "readHold" => i < Len(q) /\ q[i + 1] \in Counts
  /\ \A i \in 1..Len(q) : q[i] = "init" => i = Len(q)

Session == T("session")
Jingle == <<"jingle", ref[Session]>>

\* A thread that is about to write the count has the turn, and read it last.
Reading(t) ==
  (ctl[t] # <<>> /\ ctl[t][1] \in Counts /\ ~scenario.preempt) => turn = t /\ copy[t] = WAKE.hold

\* Who may take the hold, and who releases it: the jingle's timer for the session
\* thread, which has taken it before a timer can fire.
Paired ==
  /\ \A t \in Workers : t # Session /\ Contains(ctl[t], "incHold") => Contains(ctl[t], "decHold")
  /\ \A t \in Timers : ~Contains(ctl[t], "incHold")
  /\ Contains(ctl[Session], "incHold") =>
       /\ Head(ctl[Session]) \in {"readHold", "incHold"}
       /\ Jingle \in Timers /\ ctl[Jingle] # <<>> /\ Head(ctl[Jingle]) = "wait"
       /\ Contains(ctl[Jingle], "decHold")

\* The timers are armed once in a session, by its thread.
Armed ==
  /\ ctl[Session] # <<>> => ref[Session] \in Sess
  /\ Contains(ctl[Session], "init") => ~session[ref[Session]].inited
  /\ \A t \in Threads : t # Session => ~Contains(ctl[t], "init")
  /\ \A t \in Timers : ctl[t] # <<>> => session[t[2]].inited
Connected ==
  (link \/ toRabbit # <<>> \/ toServer # <<>> \/ rabbit.play # "none") => sess > 0

Types ==
  /\ TypeOK
  /\ ctl \in [Threads -> Seq(Ops)]
  /\ toServer \in Seq({"idle", "streaming", "session"}) /\ toRabbit \in Seq({"RT", "RS", "ST"})

HoldInv ==
  /\ Types /\ Armed /\ Connected /\ Paired
  /\ \A t \in Threads : Good(ctl[t]) /\ Reading(t)
  /\ HoldIsCounted
-----------------------------------------------------------------------------
\* The threads are finitely many, the session's is no timer, and nobody is none.
LEMMA ThreadFacts ==
  /\ IsFiniteSet(Threads)
  /\ Session \in Workers /\ Session \notin Timers /\ Nobody \notin Threads
  /\ Workers \cap Timers = {} /\ Threads = Workers \cup Timers
  /\ \A t \in Timers : t[2] \in Sess
  /\ \A k \in {"clear", "jingle", "listen"}, s \in Sess :
       <<k, s>> \in Timers /\ <<k, s>>[1] = k /\ <<k, s>>[2] = s
<1>1. IsFiniteSet(Sess)
  BY SpeakerMicAssumption, FS_Interval DEF Sess
<1>2. IsFiniteSet({"clear", "jingle", "listen"}) /\ IsFiniteSet({"session", "api", "voice", "wake"})
      /\ IsFiniteSet({0})
  <2>1. ASSUME NEW a, NEW b, NEW c, NEW d PROVE IsFiniteSet({a, b, c, d})
    <3>1. IsFiniteSet({a})
      BY FS_Singleton
    <3>2. IsFiniteSet({a, b})
      <4>1. {a, b} = {a} \cup {b}
        OBVIOUS
      <4> QED
        BY <3>1, <4>1, FS_AddElement
    <3>3. IsFiniteSet({a, b, c})
      <4>1. {a, b, c} = {a, b} \cup {c}
        OBVIOUS
      <4> QED
        BY <3>2, <4>1, FS_AddElement
    <3> QED
      <4>1. {a, b, c, d} = {a, b, c} \cup {d}
        OBVIOUS
      <4> QED
        BY <3>3, <4>1, FS_AddElement
  <2>2. {"clear", "jingle", "listen"} = {"clear", "clear", "jingle", "listen"} /\ {0} = {0, 0, 0, 0}
    OBVIOUS
  <2> QED
    BY <2>1, <2>2
<1>3. IsFiniteSet(Timers) /\ IsFiniteSet(Workers)
  BY <1>1, <1>2, FS_Product DEF Timers, Workers
<1>4. IsFiniteSet(Threads)
  BY <1>3, FS_Union DEF Threads
<1>5. /\ Session \in Workers /\ Session \notin Timers /\ Nobody \notin Threads
      /\ Workers \cap Timers = {}
  BY DEF Session, T, Workers, Timers, Nobody, Threads
<1>6. /\ \A t \in Timers : t[2] \in Sess
      /\ \A k \in {"clear", "jingle", "listen"}, s \in Sess :
           <<k, s>> \in Timers /\ <<k, s>>[1] = k /\ <<k, s>>[2] = s
  BY DEF Timers
<1> QED
  BY <1>4, <1>5, <1>6 DEF Threads

\* A step is taken off what is left of an operation.
LEMMA TailGood ==
  ASSUME NEW q, Good(q), q # <<>>
  PROVE  /\ Good(Tail(q)) /\ Head(q) \in Ops
         /\ Tail(q) # <<>> /\ Tail(q)[1] \in Counts <=> Head(q) = "readHold"
         /\ \A x : x # Head(q) => (Contains(Tail(q), x) <=> Contains(q, x))
         /\ Head(q) \in Counts => ~Contains(Tail(q), Head(q)) /\ Contains(q, Head(q))
         /\ Head(q) = "decHold" => ~Contains(q, "incHold")
<1> DEFINE r == Tail(q)
<1>1. /\ q \in Seq(Ops) /\ Len(q) \in Nat /\ Len(q) >= 1 /\ Head(q) = q[1] /\ q[1] \in Ops
      /\ r \in Seq(Ops) /\ Len(r) = Len(q) - 1 /\ (r # <<>> => Len(r) >= 1)
      /\ \A i \in 1..Len(r) : r[i] = q[i + 1]
  BY DEF Good
<1> HIDE DEF r
<1>2. \A i \in 1..Len(r) : i \in Nat /\ i + 1 \in 1..Len(q) /\ i + 1 # 1
  BY <1>1
<1>3. Good(r)
  <2>1. \A i, j \in 1..Len(r) : r[i] = r[j] /\ r[i] \in Counts => i = j
    <3> SUFFICES ASSUME NEW i \in 1..Len(r), NEW j \in 1..Len(r), r[i] = r[j], r[i] \in Counts
                 PROVE  i = j
      OBVIOUS
    <3>1. i + 1 = j + 1
      BY <1>1, <1>2 DEF Good
    <3> QED
      BY <1>2, <3>1
  <2>2. \A i, j \in 1..Len(r) : r[i] = "incHold" /\ r[j] = "decHold" => i < j
    <3> SUFFICES ASSUME NEW i \in 1..Len(r), NEW j \in 1..Len(r), r[i] = "incHold", r[j] = "decHold"
                 PROVE  i < j
      OBVIOUS
    <3>1. i + 1 < j + 1
      BY <1>1, <1>2 DEF Good
    <3> QED
      BY <1>2, <3>1
  <2>3. \A i \in 1..Len(r) : r[i] \in Counts => i = 1 \/ r[i - 1] = "readHold"
    <3> SUFFICES ASSUME NEW i \in 1..Len(r), r[i] \in Counts, i # 1 PROVE r[i - 1] = "readHold"
      OBVIOUS
    <3>1. q[(i + 1) - 1] = "readHold"
      BY <1>1, <1>2 DEF Good
    <3>2. i - 1 \in 1..Len(r) /\ (i - 1) + 1 = (i + 1) - 1
      BY <1>1
    <3> QED
      BY <1>1, <3>1, <3>2
  <2>4. \A i \in 1..Len(r) : r[i] = "readHold" => i < Len(r) /\ r[i + 1] \in Counts
    <3> SUFFICES ASSUME NEW i \in 1..Len(r), r[i] = "readHold" PROVE i < Len(r) /\ r[i + 1] \in Counts
      OBVIOUS
    <3>1. i + 1 < Len(q) /\ q[(i + 1) + 1] \in Counts
      BY <1>1, <1>2 DEF Good
    <3>2. i + 1 \in 1..Len(r)
      BY <1>1, <3>1
    <3> QED
      BY <1>1, <3>1, <3>2
  <2>5. \A i \in 1..Len(r) : r[i] = "init" => i = Len(r)
    <3> SUFFICES ASSUME NEW i \in 1..Len(r), r[i] = "init" PROVE i = Len(r)
      OBVIOUS
    <3>1. i + 1 = Len(q)
      BY <1>1, <1>2 DEF Good
    <3> QED
      BY <1>1, <3>1
  <2> QED
    BY <1>1, <2>1, <2>2, <2>3, <2>4, <2>5 DEF Good
<1>4. r # <<>> /\ r[1] \in Counts <=> Head(q) = "readHold"
  <2>1. ASSUME q[1] = "readHold" PROVE r # <<>> /\ r[1] \in Counts
    <3>1. 1 < Len(q) /\ q[1 + 1] \in Counts
      BY <1>1, <2>1 DEF Good
    <3>2. 1 \in 1..Len(r)
      BY <1>1, <3>1
    <3>3. r # <<>>
      BY <3>2
    <3> QED
      BY <1>1, <3>1, <3>2, <3>3
  <2>2. ASSUME r # <<>>, r[1] \in Counts PROVE q[1] = "readHold"
    <3>1. 1 \in 1..Len(r) /\ 2 \in 1..Len(q)
      BY <1>1, <2>2
    <3>2. q[2] \in Counts
      BY <1>1, <2>2, <3>1
    <3>3. q[2 - 1] = "readHold"
      BY <3>1, <3>2 DEF Good
    <3> QED
      BY <3>3
  <2> QED
    BY <1>1, <2>1, <2>2
<1>5. \A x : x # Head(q) => (Contains(r, x) <=> Contains(q, x))
  <2> SUFFICES ASSUME NEW x, x # q[1] PROVE Contains(r, x) <=> Contains(q, x)
    BY <1>1
  <2>1. Contains(r, x) => Contains(q, x)
    BY <1>1, <1>2 DEF Contains
  <2>2. ASSUME NEW i \in 1..Len(q), q[i] = x PROVE Contains(r, x)
    <3>1. i # 1
      BY <2>2
    <3>2. i - 1 \in 1..Len(r) /\ (i - 1) + 1 = i
      BY <1>1, <3>1
    <3>3. r[i - 1] = x
      BY <1>1, <2>2, <3>2
    <3> QED
      BY <3>2, <3>3 DEF Contains
  <2> QED
    BY <2>1, <2>2 DEF Contains
<1>6. 1 \in 1..Len(q)
  BY <1>1
<1>7. Head(q) \in Counts => ~Contains(r, Head(q)) /\ Contains(q, Head(q))
  <2> SUFFICES ASSUME q[1] \in Counts PROVE ~Contains(r, q[1]) /\ Contains(q, q[1])
    BY <1>1
  <2>1. Contains(q, q[1])
    BY <1>6 DEF Contains
  <2>2. ASSUME NEW i \in 1..Len(r), r[i] = q[1] PROVE FALSE
    <3>1. i + 1 = 1
      BY <1>1, <1>2, <1>6, <2>2 DEF Good
    <3> QED
      BY <1>2, <3>1
  <2> QED
    BY <2>1, <2>2 DEF Contains
<1>8. Head(q) = "decHold" => ~Contains(q, "incHold")
  <2> SUFFICES ASSUME q[1] = "decHold", NEW i \in 1..Len(q), q[i] = "incHold" PROVE FALSE
    BY <1>1 DEF Contains
  <2>1. i < 1
    BY <1>6 DEF Good
  <2> QED
    BY <1>1, <2>1
<1> QED
  BY <1>1, <1>3, <1>4, <1>5, <1>7, <1>8 DEF r

\* Steps that have nothing to do with the hold are put before the rest.
LEMMA MoreGood ==
  ASSUME NEW more \in Seq(Others), NEW r, Good(r), r # <<>> => r[1] \notin Counts
  PROVE  /\ Good(more \o r)
         /\ (more \o r) # <<>> => (more \o r)[1] \notin Counts
         /\ \A x : x \notin Others => (Contains(more \o r, x) <=> Contains(r, x))
<1> DEFINE q == more \o r
           m == Len(more)
<1>1. /\ more \in Seq(Ops) /\ r \in Seq(Ops) /\ m \in Nat /\ Len(r) \in Nat
      /\ q \in Seq(Ops) /\ Len(q) = m + Len(r)
      /\ \A i \in 1..m : q[i] = more[i] /\ q[i] \in Others
      /\ \A i \in 1..Len(r) : q[m + i] = r[i]
  BY DEF Good, Others
<1>2. \A i \in 1..Len(q) : \/ i \in 1..m /\ q[i] \in Others
                           \/ i - m \in 1..Len(r) /\ q[i] = r[i - m]
  <2> SUFFICES ASSUME NEW i \in 1..Len(q), i \notin 1..m PROVE i - m \in 1..Len(r) /\ q[i] = r[i - m]
    BY <1>1
  <2>1. i - m \in 1..Len(r) /\ m + (i - m) = i
    BY <1>1
  <2> QED
    BY <1>1, <2>1
<1>3. r # <<>> => Len(r) >= 1
  BY <1>1
<1>4. \A x \in Others : x \notin Counts /\ x # "readHold" /\ x # "init" /\ x # "incHold" /\ x # "decHold"
  BY DEF Others, Counts
<1> HIDE DEF q, m
<1>5. \A i, j \in 1..Len(q) : q[i] = q[j] /\ q[i] \in Counts => i = j
  <2> SUFFICES ASSUME NEW i \in 1..Len(q), NEW j \in 1..Len(q), q[i] = q[j], q[i] \in Counts PROVE i = j
    OBVIOUS
  <2>1. i - m \in 1..Len(r) /\ q[i] = r[i - m] /\ j - m \in 1..Len(r) /\ q[j] = r[j - m]
    BY <1>2, <1>4
  <2>2. i - m = j - m
    BY <2>1 DEF Good
  <2> QED
    BY <1>1, <2>2
<1>6. \A i, j \in 1..Len(q) : q[i] = "incHold" /\ q[j] = "decHold" => i < j
  <2> SUFFICES ASSUME NEW i \in 1..Len(q), NEW j \in 1..Len(q), q[i] = "incHold", q[j] = "decHold"
               PROVE  i < j
    OBVIOUS
  <2>1. i - m \in 1..Len(r) /\ q[i] = r[i - m] /\ j - m \in 1..Len(r) /\ q[j] = r[j - m]
    BY <1>2, <1>4
  <2>2. i - m < j - m
    BY <2>1 DEF Good
  <2> QED
    BY <1>1, <2>2
<1>7. \A i \in 1..Len(q) : q[i] \in Counts => i = 1 \/ q[i - 1] = "readHold"
  <2> SUFFICES ASSUME NEW i \in 1..Len(q), q[i] \in Counts PROVE q[i - 1] = "readHold"
    OBVIOUS
  <2>1. PICK k \in 1..Len(r) : i = m + k /\ q[i] = r[k]
    BY <1>1, <1>2, <1>4
  <2>2. k # 1 /\ r[k - 1] = "readHold"
    BY <1>3, <2>1 DEF Good
  <2>3. k - 1 \in 1..Len(r) /\ m + (k - 1) = i - 1
    BY <1>1, <2>1, <2>2
  <2> QED
    BY <1>1, <2>2, <2>3
<1>8. \A i \in 1..Len(q) : q[i] = "readHold" => i < Len(q) /\ q[i + 1] \in Counts
  <2> SUFFICES ASSUME NEW i \in 1..Len(q), q[i] = "readHold" PROVE i < Len(q) /\ q[i + 1] \in Counts
    OBVIOUS
  <2>1. PICK k \in 1..Len(r) : i = m + k /\ q[i] = r[k]
    BY <1>1, <1>2, <1>4
  <2>2. k < Len(r) /\ r[k + 1] \in Counts
    BY <2>1 DEF Good
  <2>3. k + 1 \in 1..Len(r) /\ m + (k + 1) = i + 1
    BY <1>1, <2>1, <2>2
  <2>4. i < Len(q)
    BY <1>1, <2>1, <2>2
  <2> QED
    BY <1>1, <2>2, <2>3, <2>4
<1>9. \A i \in 1..Len(q) : q[i] = "init" => i = Len(q)
  <2> SUFFICES ASSUME NEW i \in 1..Len(q), q[i] = "init" PROVE i = Len(q)
    OBVIOUS
  <2>1. PICK k \in 1..Len(r) : i = m + k /\ q[i] = r[k]
    BY <1>1, <1>2, <1>4
  <2>2. k = Len(r)
    BY <2>1 DEF Good
  <2> QED
    BY <1>1, <2>1, <2>2
<1>10. Good(q)
  BY <1>1, <1>5, <1>6, <1>7, <1>8, <1>9 DEF Good
<1>11. q # <<>> => q[1] \notin Counts
  <2> SUFFICES ASSUME q # <<>>, q[1] \in Counts PROVE FALSE
    OBVIOUS
  <2>1. 1 \in 1..Len(q)
    BY <1>1
  <2>2. 1 - m \in 1..Len(r) /\ q[1] = r[1 - m]
    BY <1>2, <1>4, <2>1
  <2> QED
    BY <1>1, <1>3, <2>2
<1>12. \A x : x \notin Others => (Contains(q, x) <=> Contains(r, x))
  <2> SUFFICES ASSUME NEW x, x \notin Others PROVE Contains(q, x) <=> Contains(r, x)
    OBVIOUS
  <2>1. ASSUME NEW i \in 1..Len(q), q[i] = x PROVE Contains(r, x)
    BY <1>2, <2>1 DEF Contains
  <2>2. ASSUME NEW i \in 1..Len(r), r[i] = x PROVE Contains(q, x)
    <3>1. m + i \in 1..Len(q) /\ q[m + i] = x
      BY <1>1, <2>2
    <3> QED
      BY <3>1 DEF Contains
  <2> QED
    BY <2>1, <2>2 DEF Contains
<1> QED
  BY <1>10, <1>11, <1>12 DEF q

\* A read of the hold and a write of it, before a rest that comes after them.
LEMMA PairGood ==
  ASSUME NEW c \in Counts, NEW r, Good(r), r # <<>> => r[1] \notin Counts, ~Contains(r, c),
         c = "decHold" => ~Contains(r, "incHold")
  PROVE  LET q == <<"readHold", c>> \o r
         IN  /\ Good(q) /\ q # <<>> /\ q[1] = "readHold" /\ Contains(q, c)
             /\ \A x : x # "readHold" /\ x # c => (Contains(q, x) <=> Contains(r, x))
<1> DEFINE q == <<"readHold", c>> \o r
<1>1. /\ r \in Seq(Ops) /\ Len(r) \in Nat /\ <<"readHold", c>> \in Seq(Ops)
      /\ c # "readHold" /\ c # "init" /\ c \in {"incHold", "decHold"}
  BY DEF Good, Counts, Ops
<1>2. q \in Seq(Ops) /\ Len(q) = 2 + Len(r) /\ q[1] = "readHold" /\ q[2] = c
      /\ \A k \in 1..Len(r) : q[2 + k] = r[k]
  BY <1>1
<1> HIDE DEF q
<1>3. \A i \in 1..Len(q) : i = 1 \/ i = 2 \/ \E k \in 1..Len(r) : i = 2 + k
  <2> SUFFICES ASSUME NEW i \in 1..Len(q), i # 1, i # 2 PROVE \E k \in 1..Len(r) : i = 2 + k
    OBVIOUS
  <2>1. i - 2 \in 1..Len(r) /\ i = 2 + (i - 2)
    BY <1>1, <1>2
  <2> QED
    BY <2>1
<1>4. \A k \in 1..Len(r) : k \in Nat /\ r[k] # c /\ (c = "decHold" => r[k] # "incHold")
  BY <1>1 DEF Contains
<1>5. "readHold" \notin Counts /\ "init" \notin Counts
  BY DEF Counts
<1>6. \A i, j \in 1..Len(q) : q[i] = q[j] /\ q[i] \in Counts => i = j
  <2> SUFFICES ASSUME NEW i \in 1..Len(q), NEW j \in 1..Len(q), q[i] = q[j], q[i] \in Counts PROVE i = j
    OBVIOUS
  <2>1. i # 1 /\ j # 1
    BY <1>2, <1>5
  <2>2. CASE i = 2 \/ j = 2
    BY <1>2, <1>3, <1>4, <2>1, <2>2
  <2>3. CASE i # 2 /\ j # 2
    <3>1. PICK k \in 1..Len(r) : i = 2 + k
      BY <1>3, <2>1, <2>3
    <3>2. PICK l \in 1..Len(r) : j = 2 + l
      BY <1>3, <2>1, <2>3
    <3>3. r[k] = r[l] /\ r[k] \in Counts
      BY <1>2, <3>1, <3>2
    <3>4. k = l
      BY <3>3 DEF Good
    <3> QED
      BY <3>1, <3>2, <3>4
  <2> QED
    BY <2>2, <2>3
<1>7. \A i, j \in 1..Len(q) : q[i] = "incHold" /\ q[j] = "decHold" => i < j
  <2> SUFFICES ASSUME NEW i \in 1..Len(q), NEW j \in 1..Len(q), q[i] = "incHold", q[j] = "decHold"
               PROVE  i < j
    OBVIOUS
  <2>1. i # 1 /\ j # 1
    BY <1>2
  <2>2. CASE j = 2
    BY <1>2, <1>3, <1>4, <2>1, <2>2
  <2>3. CASE j # 2
    <3>1. PICK l \in 1..Len(r) : j = 2 + l
      BY <1>3, <2>1, <2>3
    <3>2. CASE i = 2
      BY <1>4, <3>1, <3>2
    <3>3. CASE i # 2
      <4>1. PICK k \in 1..Len(r) : i = 2 + k
        BY <1>3, <2>1, <3>3
      <4>2. r[k] = "incHold" /\ r[l] = "decHold"
        BY <1>2, <3>1, <4>1
      <4>3. k < l
        BY <4>2 DEF Good
      <4> QED
        BY <1>4, <3>1, <4>1, <4>3
    <3> QED
      BY <3>2, <3>3
  <2> QED
    BY <2>2, <2>3
<1>8. \A i \in 1..Len(q) : q[i] \in Counts => i = 1 \/ q[i - 1] = "readHold"
  <2> SUFFICES ASSUME NEW i \in 1..Len(q), q[i] \in Counts, i # 1 PROVE q[i - 1] = "readHold"
    OBVIOUS
  <2>1. CASE i = 2
    BY <1>2, <2>1
  <2>2. CASE i # 2
    <3>1. PICK k \in 1..Len(r) : i = 2 + k
      BY <1>3, <2>2
    <3>2. r[k] \in Counts
      BY <1>2, <3>1
    <3>3. k # 1
      BY <3>2
    <3>4. r[k - 1] = "readHold"
      BY <3>2, <3>3 DEF Good
    <3>5. k - 1 \in 1..Len(r) /\ i - 1 = 2 + (k - 1)
      BY <1>1, <3>1, <3>3
    <3> QED
      BY <1>2, <3>4, <3>5
  <2> QED
    BY <2>1, <2>2
<1>9. \A i \in 1..Len(q) : q[i] = "readHold" => i < Len(q) /\ q[i + 1] \in Counts
  <2> SUFFICES ASSUME NEW i \in 1..Len(q), q[i] = "readHold" PROVE i < Len(q) /\ q[i + 1] \in Counts
    OBVIOUS
  <2>1. CASE i = 1
    BY <1>1, <1>2, <2>1
  <2>2. CASE i # 1
    <3>1. PICK k \in 1..Len(r) : i = 2 + k
      BY <1>1, <1>2, <1>3, <2>2
    <3>2. r[k] = "readHold"
      BY <1>2, <3>1
    <3>3. k < Len(r) /\ r[k + 1] \in Counts
      BY <3>2 DEF Good
    <3>4. k + 1 \in 1..Len(r) /\ i + 1 = 2 + (k + 1) /\ i < Len(q)
      BY <1>1, <1>2, <3>1, <3>3
    <3> QED
      BY <1>2, <3>3, <3>4
  <2> QED
    BY <2>1, <2>2
<1>10. \A i \in 1..Len(q) : q[i] = "init" => i = Len(q)
  <2> SUFFICES ASSUME NEW i \in 1..Len(q), q[i] = "init" PROVE i = Len(q)
    OBVIOUS
  <2>1. PICK k \in 1..Len(r) : i = 2 + k
    BY <1>1, <1>2, <1>3
  <2>2. r[k] = "init"
    BY <1>2, <2>1
  <2>3. k = Len(r)
    BY <2>2 DEF Good
  <2> QED
    BY <1>2, <2>1, <2>3
<1>11. Good(q)
  BY <1>2, <1>6, <1>7, <1>8, <1>9, <1>10 DEF Good
<1>12. q # <<>> /\ 1 \in 1..Len(q) /\ 2 \in 1..Len(q)
  BY <1>1, <1>2
<1>13. Contains(q, c)
  BY <1>2, <1>12 DEF Contains
<1>14. \A x : x # "readHold" /\ x # c => (Contains(q, x) <=> Contains(r, x))
  <2> SUFFICES ASSUME NEW x, x # "readHold", x # c PROVE Contains(q, x) <=> Contains(r, x)
    OBVIOUS
  <2>1. ASSUME NEW i \in 1..Len(q), q[i] = x PROVE Contains(r, x)
    <3>1. PICK k \in 1..Len(r) : i = 2 + k
      BY <1>2, <1>3, <2>1
    <3> QED
      BY <1>2, <2>1, <3>1 DEF Contains
  <2>2. ASSUME NEW k \in 1..Len(r), r[k] = x PROVE Contains(q, x)
    <3>1. 2 + k \in 1..Len(q) /\ q[2 + k] = x
      BY <1>1, <1>2, <2>2
    <3> QED
      BY <3>1 DEF Contains
  <2> QED
    BY <2>1, <2>2 DEF Contains
<1> QED
  BY <1>2, <1>11, <1>12, <1>13, <1>14 DEF q

\* An operation may begin with q: its first step needs nothing read before.
Begins(q) == Good(q) /\ q \in Seq(Ops) /\ (q # <<>> => q[1] \notin Counts)

\* It may begin with other steps then,
LEMMA MoreBegins ==
  ASSUME NEW more \in Seq(Others), NEW r, Begins(r)
  PROVE  Begins(more \o r) /\ \A x : x \notin Others => (Contains(more \o r, x) <=> Contains(r, x))
BY MoreGood DEF Begins, Good

\* or with taking or releasing the hold,
LEMMA PairBegins ==
  ASSUME NEW c \in Counts, NEW r, Begins(r), ~Contains(r, c),
         c = "decHold" => ~Contains(r, "incHold")
  PROVE  /\ Begins(<<"readHold", c>> \o r) /\ Contains(<<"readHold", c>> \o r, c)
         /\ Head(<<"readHold", c>> \o r) = "readHold"
         /\ \A x : x # "readHold" /\ x # c =>
              (Contains(<<"readHold", c>> \o r, x) <=> Contains(r, x))
<1>1. LET q == <<"readHold", c>> \o r
      IN  /\ Good(q) /\ q # <<>> /\ q[1] = "readHold" /\ Contains(q, c)
          /\ \A x : x # "readHold" /\ x # c => (Contains(q, x) <=> Contains(r, x))
  BY PairGood DEF Begins
<1> DEFINE q == <<"readHold", c>> \o r
<1>2. /\ Good(q) /\ q # <<>> /\ q[1] = "readHold" /\ Contains(q, c)
      /\ \A x : x # "readHold" /\ x # c => (Contains(q, x) <=> Contains(r, x))
  BY <1>1
<1> HIDE DEF q
<1>3. q \in Seq(Ops) /\ Head(q) = q[1] /\ "readHold" \notin Counts
  BY <1>2 DEF Good, Counts
<1>4. Begins(q) /\ Head(q) = "readHold"
  BY <1>2, <1>3 DEF Begins
<1> QED
  BY <1>2, <1>4 DEF q

\* and an operation may have no step.
LEMMA NoneBegins == Begins(<<>>) /\ \A x : ~Contains(<<>>, x)
<1>1. <<>> \in Seq(Ops) /\ Len(<<>>) = 0
  OBVIOUS
<1> QED
  BY <1>1 DEF Begins, Good, Contains

\* Steps that have nothing to do with the hold.
LEMMA PlainBegins ==
  ASSUME NEW more \in Seq(Others)
  PROVE  Begins(more) /\ \A x : x \notin Others => ~Contains(more, x)
<1>1. more \o <<>> = more
  BY ConcatEmptySeq
<1> QED
  BY <1>1, NoneBegins, MoreBegins

\* Sequences of steps are put together in any order.
LEMMA Assoc ==
  ASSUME NEW s \in Seq(Ops), NEW t \in Seq(Ops), NEW u \in Seq(Ops)
  PROVE  (s \o t) \o u = s \o (t \o u)
BY ConcatAssociative

\* One sequence after the other, by a name of its own.
Cat(x, y) == x \o y

\* Five of them, from the right.
LEMMA Regroup ==
  ASSUME NEW a \in Seq(Ops), NEW b \in Seq(Ops), NEW c \in Seq(Ops), NEW d \in Seq(Ops),
         NEW e \in Seq(Ops)
  PROVE  Cat(Cat(Cat(Cat(a, b), c), d), e) = Cat(a, Cat(b, Cat(c, Cat(d, e))))
<1>1. \A x, y \in Seq(Ops) : Cat(x, y) \in Seq(Ops)
  BY DEF Cat
<1>2. \A x, y, z \in Seq(Ops) : Cat(Cat(x, y), z) = Cat(x, Cat(y, z))
  BY Assoc DEF Cat
<1>3. /\ Cat(a, b) \in Seq(Ops) /\ Cat(d, e) \in Seq(Ops)
      /\ Cat(Cat(a, b), c) \in Seq(Ops) /\ Cat(c, Cat(d, e)) \in Seq(Ops)
  BY <1>1
<1>4. \A x \in Seq(Ops) : Cat(Cat(x, d), e) = Cat(x, Cat(d, e))
  BY ONLY <1>2, d \in Seq(Ops), e \in Seq(Ops)
<1>5. \A x \in Seq(Ops) : Cat(Cat(a, b), x) = Cat(a, Cat(b, x))
  BY ONLY <1>2, a \in Seq(Ops), b \in Seq(Ops)
<1>6. \A x, y \in Seq(Ops) : Cat(Cat(x, c), y) = Cat(x, Cat(c, y))
  BY ONLY <1>2, c \in Seq(Ops)
<1>7. Cat(Cat(Cat(Cat(a, b), c), d), e) = Cat(Cat(Cat(a, b), c), Cat(d, e))
  BY ONLY <1>3, <1>4
<1>8. Cat(Cat(a, b), Cat(c, Cat(d, e))) = Cat(a, Cat(b, Cat(c, Cat(d, e))))
  BY ONLY <1>3, <1>5
<1>9. Cat(Cat(Cat(a, b), c), Cat(d, e)) = Cat(Cat(a, b), Cat(c, Cat(d, e)))
  BY ONLY <1>3, <1>6
<1> QED
  BY ONLY <1>7, <1>8, <1>9

\* The hold is released at the end of a sound, before the steps b.
LEMMA UnholdBegins ==
  ASSUME NEW b \in Seq(Others)
  PROVE  /\ Begins(Unhold \o b) /\ Contains(Unhold \o b, "decHold")
         /\ ~Contains(Unhold \o b, "incHold") /\ ~Contains(Unhold \o b, "init")
<1>1. "decHold" \in Counts /\ "decHold" \notin Others /\ "incHold" \notin Others /\ "init" \notin Others
  BY DEF Counts, Others
<1>2. Begins(b) /\ ~Contains(b, "decHold") /\ ~Contains(b, "incHold") /\ ~Contains(b, "init")
  BY <1>1, PlainBegins
<1> QED
  BY <1>1, <1>2, PairBegins DEF Unhold

\* A phrase takes the hold and releases it, whatever follows.
LEMMA SpeakBegins ==
  ASSUME NEW n \in 1..2, NEW b \in Seq(Others)
  PROVE  /\ Begins(Speak(n) \o b) /\ Contains(Speak(n) \o b, "incHold")
         /\ Contains(Speak(n) \o b, "decHold") /\ ~Contains(Speak(n) \o b, "init")
<1> DEFINE A == IF n = 2 THEN SendSound \o <<"sleep">> ELSE <<>>
           R == <<"released">> \o b
<1>1. SendSound \in Seq(Others) /\ <<"sleep">> \in Seq(Others) /\ <<"released">> \in Seq(Others)
  BY DEF SendSound, Others, Ops
<1>2. A \in Seq(Others) /\ R \in Seq(Others)
  BY <1>1
<1>3. Others \subseteq Ops /\ Hold \in Seq(Ops) /\ Unhold \in Seq(Ops)
  BY DEF Others, Ops, Hold, Unhold
<1>4. Speak(n) \o b = Hold \o (A \o (SendSound \o (Unhold \o R)))
  <2>1. Speak(n) = (((Hold \o A) \o SendSound) \o Unhold) \o <<"released">>
    BY DEF Speak
  <2> HIDE DEF A
  <2>2. /\ A \in Seq(Ops) /\ SendSound \in Seq(Ops) /\ <<"released">> \in Seq(Ops) /\ b \in Seq(Ops)
        /\ Hold \o A \in Seq(Ops) /\ (Hold \o A) \o SendSound \in Seq(Ops)
        /\ ((Hold \o A) \o SendSound) \o Unhold \in Seq(Ops)
        /\ R \in Seq(Ops) /\ Unhold \o R \in Seq(Ops) /\ SendSound \o (Unhold \o R) \in Seq(Ops)
    BY <1>1, <1>2, <1>3
  <2> HIDE DEF R
  <2>3. Speak(n) \o b = (((Hold \o A) \o SendSound) \o Unhold) \o R
    BY <2>1, <2>2, Assoc, SMTT(20) DEF R
  <2>4. Cat(Cat(Cat(Cat(Hold, A), SendSound), Unhold), R)
          = Cat(Hold, Cat(A, Cat(SendSound, Cat(Unhold, R))))
    BY <1>3, <2>2, Regroup
  <2> QED
    BY <2>3, <2>4 DEF Cat
<1> HIDE DEF A, R
<1>5. /\ Begins(Unhold \o R) /\ Contains(Unhold \o R, "decHold")
      /\ ~Contains(Unhold \o R, "incHold") /\ ~Contains(Unhold \o R, "init")
  BY <1>2, UnholdBegins
<1>6. "decHold" \notin Others /\ "incHold" \notin Others /\ "init" \notin Others /\ "incHold" \in Counts
  BY DEF Others, Counts
<1> DEFINE Q == SendSound \o (Unhold \o R)
<1>7. Begins(Q) /\ Contains(Q, "decHold") /\ ~Contains(Q, "incHold") /\ ~Contains(Q, "init")
  BY <1>1, <1>5, <1>6, MoreBegins
<1> HIDE DEF Q
<1> DEFINE P == A \o Q
<1>8. Begins(P) /\ Contains(P, "decHold") /\ ~Contains(P, "incHold") /\ ~Contains(P, "init")
  BY <1>2, <1>6, <1>7, MoreBegins
<1> HIDE DEF P
<1>9. /\ Begins(Hold \o P) /\ Contains(Hold \o P, "incHold")
      /\ Contains(Hold \o P, "decHold") /\ ~Contains(Hold \o P, "init")
  BY <1>6, <1>8, PairBegins DEF Hold
<1> QED
  BY <1>4, <1>9 DEF P, Q

\* So does the answer to a wake word.
LEMMA AnswerBegins ==
  /\ Begins(Answer) /\ Contains(Answer, "incHold")
  /\ Contains(Answer, "decHold") /\ ~Contains(Answer, "init")
<1> DEFINE P == <<"capture", "collected", "RT", "unstream", "chill">>
           C == <<"chill">>
           Q == <<"think">>
           S == Speak(1)
<1>1. P \in Seq(Others) /\ C \in Seq(Others) /\ Q \in Seq(Others) /\ SendSound \in Seq(Others)
  BY DEF Others, Ops, SendSound
<1>2. /\ Begins(S \o C) /\ Contains(S \o C, "incHold")
      /\ Contains(S \o C, "decHold") /\ ~Contains(S \o C, "init")
  <2>1. 1 \in 1..2
    OBVIOUS
  <2> QED
    BY <1>1, <2>1, SpeakBegins
<1>3. S \in Seq(Ops)
  <2>1. Hold \in Seq(Ops) /\ SendSound \in Seq(Ops) /\ Unhold \in Seq(Ops)
        /\ <<"released">> \in Seq(Ops)
    BY DEF SendSound, Hold, Unhold, Ops
  <2>2. S = (((Hold \o <<>>) \o SendSound) \o Unhold) \o <<"released">>
    BY DEF Speak
  <2> HIDE DEF P, C, Q, S
  <2>3. Hold \o <<>> \in Seq(Ops)
    BY <2>1, ConcatEmptySeq
  <2> QED
    BY <2>1, <2>2, <2>3
<1>4. Answer = P \o (SendSound \o (Q \o (S \o C)))
  <2>1. Answer = (((P \o SendSound) \o Q) \o S) \o C
    BY DEF Answer
  <2>2. P \in Seq(Ops) /\ C \in Seq(Ops) /\ Q \in Seq(Ops) /\ SendSound \in Seq(Ops)
    BY <1>1 DEF Others
  <2> HIDE DEF P, Q, C, S
  <2>3. Cat(Cat(Cat(Cat(P, SendSound), Q), S), C)
          = Cat(P, Cat(SendSound, Cat(Q, Cat(S, C))))
    BY <1>3, <2>2, Regroup
  <2> QED
    BY <2>1, <2>3 DEF Cat
<1> HIDE DEF P, Q, C, S
<1>5. "decHold" \notin Others /\ "incHold" \notin Others /\ "init" \notin Others
  BY DEF Others
<1> DEFINE X == S \o C
<1>6. Begins(X) /\ Contains(X, "decHold") /\ Contains(X, "incHold") /\ ~Contains(X, "init")
  BY <1>2
<1> HIDE DEF X
<1> DEFINE Y == Q \o X
<1>7. Begins(Y) /\ Contains(Y, "decHold") /\ Contains(Y, "incHold") /\ ~Contains(Y, "init")
  BY <1>1, <1>5, <1>6, MoreBegins
<1> HIDE DEF Y
<1> DEFINE Z == SendSound \o Y
<1>8. Begins(Z) /\ Contains(Z, "decHold") /\ Contains(Z, "incHold") /\ ~Contains(Z, "init")
  BY <1>1, <1>5, <1>7, MoreBegins
<1> HIDE DEF Z
<1>9. /\ Begins(P \o Z) /\ Contains(P \o Z, "decHold") /\ Contains(P \o Z, "incHold")
      /\ ~Contains(P \o Z, "init")
  BY <1>1, <1>5, <1>8, MoreBegins
<1> QED
  BY <1>4, <1>9 DEF X, Y, Z

\* The jingle's timer only releases the hold; the session thread takes it.
LEMMA JingleBegins ==
  ASSUME NEW b \in BOOLEAN
  PROVE  LET q == <<"wait">> \o ConnectJingle(b)
         IN  /\ Begins(q) /\ q # <<>> /\ Head(q) = "wait" /\ Contains(q, "decHold")
             /\ ~Contains(q, "incHold") /\ ~Contains(q, "init")
<1> DEFINE O == IF b THEN <<"owe">> ELSE <<>>
           q == <<"wait">> \o ConnectJingle(b)
<1>1. O \in Seq(Others) /\ SendSound \in Seq(Others) /\ <<"wait">> \in Seq(Others) /\ <<>> \in Seq(Others)
  <2>1. <<"owe">> \in Seq(Others) /\ <<>> \in Seq(Others)
    BY DEF Others, Ops
  <2>2. SendSound \in Seq(Others) /\ <<"wait">> \in Seq(Others)
    BY DEF Others, Ops, SendSound
  <2> QED
    BY <2>1, <2>2
<1>2. Unhold \in Seq(Ops) /\ Others \subseteq Ops
  BY DEF Unhold, Others, Ops
<1>3. ConnectJingle(b) = O \o (SendSound \o (Unhold \o <<>>))
  <2>1. ConnectJingle(b) = (O \o SendSound) \o Unhold
    BY DEF ConnectJingle
  <2> HIDE DEF O
  <2>2. O \in Seq(Ops) /\ SendSound \in Seq(Ops)
    BY <1>1, <1>2
  <2>3. Unhold \o <<>> = Unhold
    BY <1>2, ConcatEmptySeq
  <2> QED
    BY <1>2, <2>1, <2>2, <2>3, Assoc
<1> HIDE DEF O
<1>4. "decHold" \notin Others /\ "incHold" \notin Others /\ "init" \notin Others
  BY DEF Others
<1> DEFINE X == Unhold \o <<>>
<1>5. Begins(X) /\ Contains(X, "decHold") /\ ~Contains(X, "incHold") /\ ~Contains(X, "init")
  BY <1>1, UnholdBegins
<1> HIDE DEF X
<1> DEFINE Y == SendSound \o X
<1>6. Begins(Y) /\ Contains(Y, "decHold") /\ ~Contains(Y, "incHold") /\ ~Contains(Y, "init")
  BY <1>1, <1>4, <1>5, MoreBegins
<1> HIDE DEF Y
<1> DEFINE Z == O \o Y
<1>7. Begins(Z) /\ Contains(Z, "decHold") /\ ~Contains(Z, "incHold") /\ ~Contains(Z, "init")
  BY <1>1, <1>4, <1>6, MoreBegins
<1> HIDE DEF Z
<1>8. Begins(<<"wait">> \o Z) /\ Contains(<<"wait">> \o Z, "decHold")
      /\ ~Contains(<<"wait">> \o Z, "incHold") /\ ~Contains(<<"wait">> \o Z, "init")
  BY <1>1, <1>4, <1>7, MoreBegins
<1>9. <<"wait">> \o Z # <<>> /\ Head(<<"wait">> \o Z) = "wait"
  <2>1. Z \in Seq(Ops) /\ "wait" \in Ops
    BY <1>7 DEF Begins, Ops
  <2> QED
    BY <2>1
<1> QED
  BY <1>3, <1>8, <1>9 DEF X, Y, Z

\* The session thread takes the hold for the jingle.
LEMMA HoldBegins ==
  /\ Begins(Hold) /\ Contains(Hold, "incHold") /\ Head(Hold) = "readHold"
  /\ ~Contains(Hold, "decHold") /\ ~Contains(Hold, "init")
<1> DEFINE p == <<"readHold", "incHold">> \o <<>>
<1>1. Hold = p
  <2>1. <<"readHold", "incHold">> \in Seq(Ops)
    BY DEF Ops
  <2> QED
    BY <2>1, ConcatEmptySeq DEF Hold
<1>2. "incHold" \in Counts
  BY DEF Counts
<1>3. /\ Begins(p) /\ Contains(p, "incHold") /\ Head(p) = "readHold"
      /\ ~Contains(p, "decHold") /\ ~Contains(p, "init")
  BY <1>2, NoneBegins, PairBegins
<1> QED
  BY <1>1, <1>3
\* Whoever has taken the hold and not counted it yet has a partner that is to
\* release it, so one more release means that the count is not zero.
LEMMA Partners ==
  ASSUME NEW D, NEW I, IsFiniteSet(D), IsFiniteSet(I), NEW t \in D, t \notin I, NEW s, NEW j,
         \A u \in I : u = s \/ u \in D, s \in I => j \in D /\ j \notin I /\ j # t
  PROVE  Cardinality(D) - Cardinality(I) >= 1
<1>1. IsFiniteSet(D \ {t}) /\ Cardinality(D \ {t}) = Cardinality(D) - 1
  BY FS_RemoveElement
<1>2. Cardinality(D) \in Nat /\ Cardinality(I) \in Nat /\ Cardinality(D \ {t}) \in Nat
  BY <1>1, FS_CardinalityType
<1>3. CASE s \notin I
  <2>1. I \subseteq D \ {t}
    BY <1>3
  <2>2. Cardinality(I) <= Cardinality(D \ {t})
    BY <1>1, <2>1, FS_Subset
  <2> QED
    BY <1>1, <1>2, <2>2
<1>4. CASE s \in I
  <2>1. IsFiniteSet(I \ {s}) /\ Cardinality(I \ {s}) = Cardinality(I) - 1
    BY <1>4, FS_RemoveElement
  <2>2. j \notin I \ {s}
    BY <1>4
  <2>3. /\ IsFiniteSet((I \ {s}) \cup {j})
        /\ Cardinality((I \ {s}) \cup {j}) = Cardinality(I \ {s}) + 1
    BY <2>1, <2>2, FS_AddElement
  <2>4. (I \ {s}) \cup {j} \subseteq D \ {t}
    BY <1>4
  <2>5. Cardinality((I \ {s}) \cup {j}) <= Cardinality(D \ {t})
    BY <1>1, <2>4, FS_Subset
  <2> QED
    BY <1>1, <1>2, <2>1, <2>3, <2>5
<1> QED
  BY <1>3, <1>4

\* Those that have a step to take are finitely many.
LEMMA WithFinite ==
  ASSUME NEW x
  PROVE  IsFiniteSet(With(x)) /\ Cardinality(With(x)) \in Nat
<1>1. With(x) \subseteq Threads
  BY DEF With
<1>2. IsFiniteSet(With(x))
  BY <1>1, ThreadFacts, FS_Subset
<1> QED
  BY <1>2, FS_CardinalityType

\* A thread takes its first step: what it has left then, and that of the others.
LEMMA GoesOn ==
  ASSUME HoldInv, NEW t \in Threads, NEW op \in Ops, NEW more \in Seq(Others),
         Goes(t, op, more), op = "readHold" => more = <<>>
  PROVE  /\ ctl' \in [Threads -> Seq(Ops)]
         /\ turn' \in {Nobody, t}
         /\ ctl[t] # <<>> /\ Head(ctl[t]) = op /\ Good(ctl'[t])
         /\ \A x : x \notin Others /\ x # op => (Contains(ctl'[t], x) <=> Contains(ctl[t], x))
         /\ op \in Counts => ~Contains(ctl'[t], op) /\ Contains(ctl[t], op)
         /\ op = "decHold" => ~Contains(ctl[t], "incHold")
         /\ op # "readHold" => (ctl'[t] # <<>> => ctl'[t][1] \notin Counts)
         /\ op = "readHold" => /\ ctl'[t] # <<>> /\ ctl'[t][1] \in Counts
                               /\ ~scenario.preempt => turn' = t
         /\ \A u \in Threads : u # t =>
              /\ ctl'[u] = ctl[u]
              /\ ~scenario.preempt /\ ctl[u] # <<>> => ctl[u][1] \notin Counts
<1> DEFINE q == ctl[t]
           r == Tail(q)
           p == more \o r
<1>1. /\ q # <<>> /\ Head(q) = op /\ turn \in {Nobody, t} /\ ctl' = [ctl EXCEPT ![t] = p]
      /\ turn' = IF scenario.preempt \/ op \in SwitchPoints \/ p = <<>> THEN Nobody ELSE t
  BY Zenon DEF Goes
<1>2. ctl \in [Threads -> Seq(Ops)] /\ Good(q) /\ \A u \in Threads : Reading(u)
  BY DEF HoldInv, Types
<1> HIDE DEF q, r
<1>3. /\ Good(r) /\ (r # <<>> /\ r[1] \in Counts <=> op = "readHold")
      /\ \A x : x # op => (Contains(r, x) <=> Contains(q, x))
      /\ op \in Counts => ~Contains(r, op) /\ Contains(q, op)
      /\ op = "decHold" => ~Contains(q, "incHold")
  BY <1>1, <1>2, TailGood DEF r
<1> HIDE DEF p
<1>4. /\ Good(p)
      /\ \A x : x \notin Others /\ x # op => (Contains(p, x) <=> Contains(q, x))
      /\ op \in Counts => ~Contains(p, op)
      /\ op # "readHold" => (p # <<>> => p[1] \notin Counts)
      /\ op = "readHold" => p # <<>> /\ p[1] \in Counts
  <2>1. CASE op # "readHold"
    <3>1. /\ Good(p) /\ (p # <<>> => p[1] \notin Counts)
          /\ \A x : x \notin Others => (Contains(p, x) <=> Contains(r, x))
      BY <1>3, <2>1, MoreGood DEF p
    <3>2. \A x \in Counts : x \notin Others
      BY DEF Counts, Others
    <3> QED
      BY <1>3, <2>1, <3>1, <3>2
  <2>2. CASE op = "readHold"
    <3>1. r \in Seq(Ops)
      BY <1>3 DEF Good
    <3>2. p = r
      BY <2>2, <3>1, ConcatEmptySeq DEF p
    <3>3. op \notin Counts
      BY <2>2 DEF Counts
    <3> QED
      BY <1>3, <2>2, <3>2, <3>3
  <2> QED
    BY <2>1, <2>2
<1>5. p \in Seq(Ops)
  BY <1>4 DEF Good
<1>6. ctl'[t] = p /\ ctl' \in [Threads -> Seq(Ops)] /\ \A u \in Threads : u # t => ctl'[u] = ctl[u]
  BY <1>1, <1>2, <1>5
<1>7. op = "readHold" => op \notin SwitchPoints
  BY DEF SwitchPoints, Sleeps
<1>8. turn' \in {Nobody, t} /\ (op = "readHold" /\ ~scenario.preempt => turn' = t)
  BY <1>1, <1>4, <1>7
<1>9. \A u \in Threads : u # t /\ ~scenario.preempt /\ ctl[u] # <<>> => ctl[u][1] \notin Counts
  BY <1>1, <1>2, ThreadFacts DEF Reading
<1> QED
  BY <1>1, <1>3, <1>4, <1>6, <1>8, <1>9 DEF q

\* What a step leaves alone if it has nothing to do with the hold or the timers.
Elsewhere ==
  /\ scenario'.preempt = scenario.preempt
  /\ \A s \in Sess : session'[s].inited = session[s].inited

\* The timers are armed once: a step of a thread that is about to take one.
LEMMA ArmedKept ==
  ASSUME HoldInv, Elsewhere, NEW t \in Threads, ref' = ref, ctl[t] # <<>>,
         \A u \in Threads : u # t => ctl'[u] = ctl[u],
         Contains(ctl'[t], "init") <=> Contains(ctl[t], "init")
  PROVE  Armed'
<1>1. Armed /\ \A u \in Timers : u[2] \in Sess
  BY ThreadFacts DEF HoldInv
<1>2. Session \in Threads /\ Timers \subseteq Threads
  BY ThreadFacts
<1>3. (ctl[Session] # <<>> => ref[Session] \in Sess)'
  BY <1>1, <1>2 DEF Armed
<1>4. (Contains(ctl[Session], "init") => ~session[ref[Session]].inited)'
  <2>1. ASSUME Contains(ctl'[Session], "init") PROVE ~session'[ref[Session]].inited
    <3>1. Contains(ctl[Session], "init")
      BY <1>2, <2>1
    <3>2. ctl[Session] # <<>>
      BY <3>1, NoneBegins
    <3> QED
      BY <1>1, <3>1, <3>2 DEF Armed, Elsewhere
  <2> QED
    BY <2>1
<1>5. (\A u \in Threads : u # Session => ~Contains(ctl[u], "init"))'
  BY <1>1 DEF Armed
<1>6. (\A u \in Timers : ctl[u] # <<>> => session[u[2]].inited)'
  BY <1>1, <1>2 DEF Armed, Elsewhere
<1> QED
  BY <1>3, <1>4, <1>5, <1>6 DEF Armed

\* A step that has nothing to do with the hold; a timer fires when all sleep.
LEMMA QuietStep ==
  ASSUME HoldInv, Elsewhere, Types', Connected', NEW t \in Threads, NEW op \in Others,
         NEW more \in Seq(Others), Goes(t, op, more), op = "wait" => SecondsPass,
         ref' = ref, copy' = copy, WAKE'.hold = WAKE.hold
  PROVE  HoldInv'
<1>1. op \in Ops /\ op \notin Counts /\ op # "readHold" /\ op # "init"
      /\ "incHold" \notin Others /\ "decHold" \notin Others /\ "init" \notin Others
  BY DEF Others, Counts
<1>2. /\ ctl[t] # <<>> /\ Head(ctl[t]) = op /\ Good(ctl'[t]) /\ turn' \in {Nobody, t}
      /\ \A x : x \notin Others /\ x # op => (Contains(ctl'[t], x) <=> Contains(ctl[t], x))
      /\ ctl'[t] # <<>> => ctl'[t][1] \notin Counts
      /\ \A u \in Threads : u # t =>
           /\ ctl'[u] = ctl[u]
           /\ ~scenario.preempt /\ ctl[u] # <<>> => ctl[u][1] \notin Counts
  BY <1>1, GoesOn
<1>3. \A u \in Threads, x \in {"incHold", "decHold", "init"} :
        Contains(ctl'[u], x) <=> Contains(ctl[u], x)
  BY <1>1, <1>2
<1>4. /\ Paired /\ HoldIsCounted /\ Session \in Threads /\ Workers \subseteq Threads
      /\ Timers \subseteq Threads /\ \A u \in Threads : Good(ctl[u])
  BY ThreadFacts DEF HoldInv
<1>5. Armed'
  BY <1>2, <1>3, ArmedKept
<1>6. Paired'
  <2>1. (\A u \in Workers : u # Session /\ Contains(ctl[u], "incHold") => Contains(ctl[u], "decHold"))'
    BY <1>3, <1>4 DEF Paired
  <2>2. (\A u \in Timers : ~Contains(ctl[u], "incHold"))'
    BY <1>3, <1>4 DEF Paired
  <2>3. ASSUME Contains(ctl'[Session], "incHold")
        PROVE  (/\ Head(ctl[Session]) \in {"readHold", "incHold"}
                /\ Jingle \in Timers /\ ctl[Jingle] # <<>> /\ Head(ctl[Jingle]) = "wait"
                /\ Contains(ctl[Jingle], "decHold"))'
    <3>1. /\ Head(ctl[Session]) \in {"readHold", "incHold"} /\ ctl[Session] # <<>>
          /\ Jingle \in Timers /\ ctl[Jingle] # <<>> /\ Head(ctl[Jingle]) = "wait"
          /\ Contains(ctl[Jingle], "decHold")
      BY <1>3, <1>4, <2>3, NoneBegins DEF Paired
    <3>2. t # Session
      BY <1>2, <3>1 DEF Others
    <3>3. t # Jingle
      <4>1. ASSUME t = Jingle PROVE FALSE
        <5>1. SecondsPass
          BY <1>2, <3>1, <4>1
        <5> QED
          BY <1>4, <3>1, <5>1 DEF SecondsPass, Sleeps
      <4> QED
        BY <4>1
    <3>4. Jingle' = Jingle
      BY DEF Jingle
    <3> QED
      BY <1>2, <1>3, <1>4, <3>1, <3>2, <3>3, <3>4
  <2> QED
    BY <2>1, <2>2, <2>3 DEF Paired
<1>7. (\A u \in Threads : Good(ctl[u]) /\ Reading(u))'
  BY <1>2, <1>4 DEF Reading, Elsewhere
<1>8. HoldIsCounted'
  <2>1. With("incHold")' = With("incHold") /\ With("decHold")' = With("decHold")
    BY <1>3 DEF With
  <2> QED
    BY <1>4, <2>1 DEF HoldIsCounted, Elsewhere
<1> QED
  BY <1>5, <1>6, <1>7, <1>8 DEF HoldInv

\* The session thread keeps its jingle's timer waiting until it has counted its hold.
LEMMA PairedKept ==
  ASSUME HoldInv, NEW t \in Threads, ref' = ref, NEW op \in {"readHold", "incHold", "decHold"},
         ctl[t] # <<>>, Head(ctl[t]) = op,
         \A u \in Threads : u # t => ctl'[u] = ctl[u],
         Contains(ctl'[t], "incHold") => Contains(ctl[t], "incHold") /\ op = "readHold",
         op # "decHold" => (Contains(ctl'[t], "decHold") <=> Contains(ctl[t], "decHold")),
         t = Session /\ Contains(ctl'[t], "incHold") => Head(ctl'[t]) = "incHold"
  PROVE  Paired'
<1>1. Paired /\ Session \in Threads /\ Workers \subseteq Threads /\ Timers \subseteq Threads
  BY ThreadFacts DEF HoldInv
<1>2. (\A u \in Workers : u # Session /\ Contains(ctl[u], "incHold") => Contains(ctl[u], "decHold"))'
  BY <1>1 DEF Paired
<1>3. (\A u \in Timers : ~Contains(ctl[u], "incHold"))'
  BY <1>1 DEF Paired
<1>4. ASSUME Contains(ctl'[Session], "incHold")
      PROVE  (/\ Head(ctl[Session]) \in {"readHold", "incHold"}
              /\ Jingle \in Timers /\ ctl[Jingle] # <<>> /\ Head(ctl[Jingle]) = "wait"
              /\ Contains(ctl[Jingle], "decHold"))'
  <2>1. Contains(ctl[Session], "incHold")
    BY <1>1, <1>4
  <2>2. /\ Head(ctl[Session]) \in {"readHold", "incHold"}
        /\ Jingle \in Timers /\ ctl[Jingle] # <<>> /\ Head(ctl[Jingle]) = "wait"
        /\ Contains(ctl[Jingle], "decHold")
    BY <1>1, <2>1 DEF Paired
  <2>3. t # Jingle /\ Jingle' = Jingle
    BY <2>2 DEF Jingle
  <2>4. Head(ctl'[Session]) \in {"readHold", "incHold"}
    BY <1>1, <1>4, <2>2
  <2> QED
    BY <1>1, <2>2, <2>3, <2>4
<1> QED
  BY <1>2, <1>3, <1>4 DEF Paired

\* WAKE["hold"] is read,
LEMMA ReadStep ==
  ASSUME HoldInv, Elsewhere, Types', Connected', NEW t \in Threads, ReadHold(t), ref' = ref
  PROVE  HoldInv'
<1>1. /\ Goes(t, "readHold", <<>>) /\ copy' = [copy EXCEPT ![t] = WAKE.hold] /\ WAKE' = WAKE
      /\ "readHold" \in Ops /\ <<>> \in Seq(Others)
  BY DEF ReadHold, Ops
<1>2. /\ ctl[t] # <<>> /\ Head(ctl[t]) = "readHold" /\ Good(ctl'[t])
      /\ \A x : x \notin Others /\ x # "readHold" => (Contains(ctl'[t], x) <=> Contains(ctl[t], x))
      /\ ctl'[t] # <<>> /\ ctl'[t][1] \in Counts /\ (~scenario.preempt => turn' = t)
      /\ \A u \in Threads : u # t =>
           /\ ctl'[u] = ctl[u]
           /\ ~scenario.preempt /\ ctl[u] # <<>> => ctl[u][1] \notin Counts
  BY <1>1, GoesOn
<1>3. "incHold" \notin Others /\ "decHold" \notin Others /\ "init" \notin Others
  BY DEF Others
<1>4. \A u \in Threads, x \in {"incHold", "decHold", "init"} :
        Contains(ctl'[u], x) <=> Contains(ctl[u], x)
  BY <1>2, <1>3
<1>5. /\ HoldIsCounted /\ copy \in [Threads -> Nat] /\ \A u \in Threads : Good(ctl[u])
  BY DEF HoldInv, Types, TypeOK
<1>6. Armed'
  BY <1>2, <1>4, ArmedKept
<1>7. Contains(ctl'[t], "incHold") => Head(ctl'[t]) = "incHold"
  <2>1. Head(ctl'[t]) = ctl'[t][1]
    BY <1>2 DEF Good
  <2>2. Head(ctl'[t]) = "decHold" => ~Contains(ctl'[t], "incHold")
    BY <1>2, TailGood
  <2> QED
    BY <1>2, <2>1, <2>2 DEF Counts
<1>8. Paired'
  BY <1>2, <1>4, <1>7, PairedKept
<1>9. (\A u \in Threads : Good(ctl[u]) /\ Reading(u))'
  <2> SUFFICES ASSUME NEW u \in Threads PROVE Good(ctl'[u]) /\ Reading(u)'
    OBVIOUS
  <2>1. CASE u = t
    <3>1. copy'[t] = WAKE'.hold
      BY <1>1, <1>5
    <3> QED
      BY <1>2, <2>1, <3>1 DEF Reading, Elsewhere
  <2>2. CASE u # t
    BY <1>2, <1>5, <2>2 DEF Reading, Elsewhere
  <2> QED
    BY <2>1, <2>2
<1>10. HoldIsCounted'
  <2>1. With("incHold")' = With("incHold") /\ With("decHold")' = With("decHold")
    BY <1>4 DEF With
  <2> QED
    BY <1>1, <1>5, <2>1 DEF HoldIsCounted, Elsewhere
<1> QED
  BY <1>6, <1>8, <1>9, <1>10 DEF HoldInv

\* and written, by the same thread before any other has its turn: one more,
LEMMA IncStep ==
  ASSUME HoldInv, Elsewhere, Types', Connected', NEW t \in Threads, IncHold(t), ref' = ref
  PROVE  HoldInv'
<1>1. /\ Goes(t, "incHold", <<>>) /\ WAKE' = [WAKE EXCEPT !.hold = copy[t] + 1]
      /\ "incHold" \in Ops /\ <<>> \in Seq(Others) /\ "incHold" \in Counts
      /\ "incHold" \notin Others /\ "decHold" \notin Others /\ "init" \notin Others
  BY DEF IncHold, Ops, Others, Counts
<1>2. /\ ctl[t] # <<>> /\ Head(ctl[t]) = "incHold" /\ Good(ctl'[t])
      /\ \A x : x \notin Others /\ x # "incHold" => (Contains(ctl'[t], x) <=> Contains(ctl[t], x))
      /\ ~Contains(ctl'[t], "incHold") /\ Contains(ctl[t], "incHold")
      /\ ctl'[t] # <<>> => ctl'[t][1] \notin Counts
      /\ \A u \in Threads : u # t =>
           /\ ctl'[u] = ctl[u]
           /\ ~scenario.preempt /\ ctl[u] # <<>> => ctl[u][1] \notin Counts
  BY <1>1, GoesOn
<1>3. Contains(ctl'[t], "init") <=> Contains(ctl[t], "init")
  BY <1>1, <1>2
<1>4. Contains(ctl'[t], "decHold") <=> Contains(ctl[t], "decHold")
  BY <1>1, <1>2
<1>5. /\ HoldIsCounted /\ Reading(t) /\ WAKE.hold \in Nat /\ \A u \in Threads : Good(ctl[u])
  BY DEF HoldInv, Types, TypeOK
<1>6. Armed'
  BY <1>2, <1>3, ArmedKept
<1>7. Paired'
  BY <1>2, <1>4, PairedKept
<1>8. (\A u \in Threads : Good(ctl[u]) /\ Reading(u))'
  BY <1>2, <1>5 DEF Reading, Elsewhere
<1>9. HoldIsCounted'
  <2> SUFFICES ASSUME ~scenario.preempt
               PROVE  WAKE'.hold = Cardinality(With("decHold")') - Cardinality(With("incHold")')
    BY DEF HoldIsCounted, Elsewhere
  <2>1. With("decHold")' = With("decHold")
    BY <1>2, <1>4 DEF With
  <2>2. With("incHold")' = With("incHold") \ {t} /\ t \in With("incHold")
    BY <1>2 DEF With
  <2>3. Cardinality(With("incHold")') = Cardinality(With("incHold")) - 1
    BY <2>2, WithFinite, FS_RemoveElement
  <2>4. copy[t] = WAKE.hold
    <3>1. ctl[t][1] = "incHold"
      BY <1>2, <1>5 DEF Good
    <3> QED
      BY <1>1, <1>2, <1>5, <3>1 DEF Reading
  <2>5. WAKE'.hold = WAKE.hold + 1
    BY <1>1, <2>4 DEF HoldInv, Types, TypeOK
  <2>6. Cardinality(With("incHold")) \in Nat /\ Cardinality(With("decHold")) \in Nat
    BY WithFinite
  <2> QED
    BY <1>5, <2>1, <2>3, <2>5, <2>6 DEF HoldIsCounted
<1> QED
  BY <1>6, <1>7, <1>8, <1>9 DEF HoldInv

\* or one less, which was not zero.
LEMMA DecStep ==
  ASSUME HoldInv, Elsewhere, Types', Connected', NEW t \in Threads, DecHold(t), ref' = ref
  PROVE  HoldInv'
<1>1. /\ Goes(t, "decHold", <<>>)
      /\ WAKE' = [WAKE EXCEPT !.hold = IF copy[t] = 0 THEN 0 ELSE copy[t] - 1]
      /\ "decHold" \in Ops /\ <<>> \in Seq(Others) /\ "decHold" \in Counts
      /\ "incHold" \notin Others /\ "decHold" \notin Others /\ "init" \notin Others
  BY DEF DecHold, Ops, Others, Counts
<1>2. /\ ctl[t] # <<>> /\ Head(ctl[t]) = "decHold" /\ Good(ctl'[t])
      /\ \A x : x \notin Others /\ x # "decHold" => (Contains(ctl'[t], x) <=> Contains(ctl[t], x))
      /\ ~Contains(ctl'[t], "decHold") /\ Contains(ctl[t], "decHold") /\ ~Contains(ctl[t], "incHold")
      /\ ctl'[t] # <<>> => ctl'[t][1] \notin Counts
      /\ \A u \in Threads : u # t =>
           /\ ctl'[u] = ctl[u]
           /\ ~scenario.preempt /\ ctl[u] # <<>> => ctl[u][1] \notin Counts
  BY <1>1, GoesOn
<1>3. Contains(ctl'[t], "init") <=> Contains(ctl[t], "init")
  BY <1>1, <1>2
<1>4. ~Contains(ctl'[t], "incHold")
  BY <1>1, <1>2
<1>5. /\ HoldIsCounted /\ Reading(t) /\ WAKE.hold \in Nat /\ Paired
      /\ \A u \in Threads : Good(ctl[u])
  BY DEF HoldInv, Types, TypeOK
<1>6. Armed'
  BY <1>2, <1>3, ArmedKept
<1>7. Paired'
  BY <1>2, <1>4, PairedKept
<1>8. (\A u \in Threads : Good(ctl[u]) /\ Reading(u))'
  BY <1>2, <1>5 DEF Reading, Elsewhere
<1>9. HoldIsCounted'
  <2> SUFFICES ASSUME ~scenario.preempt
               PROVE  WAKE'.hold = Cardinality(With("decHold")') - Cardinality(With("incHold")')
    BY DEF HoldIsCounted, Elsewhere
  <2> DEFINE D == With("decHold")
             I == With("incHold")
  <2>1. I' = I
    BY <1>2, <1>4 DEF With
  <2>2. D' = D \ {t} /\ t \in D /\ t \notin I
    BY <1>2 DEF With
  <2>3. Cardinality(D') = Cardinality(D) - 1
    BY <2>2, WithFinite, FS_RemoveElement
  <2>4. copy[t] = WAKE.hold
    <3>1. ctl[t][1] = "decHold"
      BY <1>2, <1>5 DEF Good
    <3> QED
      BY <1>1, <1>2, <1>5, <3>1 DEF Reading
  <2>5. \A u \in I : u = Session \/ u \in D
    BY <1>5, ThreadFacts DEF With, Paired
  <2>6. Session \in I => Jingle \in D /\ Jingle \notin I /\ Jingle # t
    BY <1>2, <1>5, ThreadFacts DEF With, Paired
  <2>7. /\ IsFiniteSet(D) /\ IsFiniteSet(I)
        /\ Cardinality(I) \in Nat /\ Cardinality(D) \in Nat
    BY WithFinite
  <2>8. WAKE.hold = Cardinality(D) - Cardinality(I)
    BY <1>5 DEF HoldIsCounted
  <2> HIDE DEF D, I
  <2>9. Cardinality(D) - Cardinality(I) >= 1
    BY <2>2, <2>5, <2>6, <2>7, Partners
  <2>10. WAKE'.hold = WAKE.hold - 1
    <3>1. WAKE'.hold = IF copy[t] = 0 THEN 0 ELSE copy[t] - 1
      BY <1>1 DEF HoldInv, Types, TypeOK
    <3> QED
      BY <1>5, <2>4, <2>7, <2>8, <2>9, <3>1
  <2>11. WAKE'.hold = Cardinality(D') - Cardinality(I')
    BY <1>5, <2>1, <2>3, <2>7, <2>8, <2>10
  <2> QED
    BY <2>11 DEF D, I
<1> QED
  BY <1>6, <1>7, <1>8, <1>9 DEF HoldInv

\* Nothing moves but the rabbit, the connection or a cooldown.
LEMMA StillStep ==
  ASSUME HoldInv, Elsewhere, Types', Connected', threads' = threads, WAKE'.hold = WAKE.hold
  PROVE  HoldInv'
<1>1. ctl' = ctl /\ ref' = ref /\ copy' = copy /\ turn' = turn
  BY DEF threads
<1>2. Armed'
  <2>1. Armed /\ Session \in Threads /\ Timers \subseteq Threads /\ \A u \in Timers : u[2] \in Sess
    BY ThreadFacts DEF HoldInv
  <2>2. Contains(ctl[Session], "init") => ctl[Session] # <<>>
    BY NoneBegins
  <2>3. (Contains(ctl[Session], "init") => ~session[ref[Session]].inited)'
    BY <1>1, <2>1, <2>2 DEF Armed, Elsewhere
  <2>4. (\A u \in Timers : ctl[u] # <<>> => session[u[2]].inited)'
    BY <1>1, <2>1 DEF Armed, Elsewhere
  <2> QED
    BY <1>1, <2>1, <2>3, <2>4 DEF Armed
<1>3. Paired'
  BY <1>1 DEF HoldInv, Paired, Jingle
<1>4. (\A u \in Threads : Good(ctl[u]) /\ Reading(u))'
  BY <1>1 DEF HoldInv, Reading, Elsewhere
<1>5. HoldIsCounted'
  <2>1. With("incHold")' = With("incHold") /\ With("decHold")' = With("decHold")
    BY <1>1 DEF With
  <2> QED
    BY <2>1 DEF HoldInv, HoldIsCounted, Elsewhere
<1> QED
  BY <1>2, <1>3, <1>4, <1>5 DEF HoldInv

\* A request, or the wake loop, starts an operation that releases what it takes.
LEMMA StartStep ==
  ASSUME HoldInv, Elsewhere, Types', Connected', NEW t \in Workers, t # Session, NEW p,
         Starts(t, p), Begins(p), ~Contains(p, "init"),
         Contains(p, "incHold") <=> Contains(p, "decHold")
  PROVE  HoldInv'
<1>1. /\ ctl[t] = <<>> /\ turn = Nobody /\ turn' = Nobody /\ copy' = copy /\ WAKE' = WAKE
      /\ ctl' = [ctl EXCEPT ![t] = p] /\ ref' = [ref EXCEPT ![t] = sess]
  BY DEF Starts, Free
<1>2. /\ t \in Threads /\ t \notin Timers /\ Session \in Threads /\ Session \in Workers
      /\ Timers \subseteq Threads /\ Workers \subseteq Threads /\ Nobody \notin Threads
  BY ThreadFacts
<1>3. /\ ctl'[t] = p /\ (\A u \in Threads : u # t => ctl'[u] = ctl[u])
      /\ ref'[Session] = ref[Session]
  BY <1>1, <1>2 DEF HoldInv, Types, TypeOK
<1>4. /\ Armed /\ Paired /\ HoldIsCounted
      /\ \A u \in Threads : Good(ctl[u]) /\ Reading(u)
  BY DEF HoldInv
<1>5. \A x : ~Contains(ctl[t], x)
  BY <1>1, NoneBegins
<1>6. Armed'
  <2>1. \A u \in Timers : u[2] \in Sess
    BY ThreadFacts
  <2>2. Contains(ctl[Session], "init") => ctl[Session] # <<>>
    BY NoneBegins
  <2>3. (Contains(ctl[Session], "init") => ~session[ref[Session]].inited)'
    BY <1>2, <1>3, <1>4, <2>2 DEF Armed, Elsewhere
  <2>4. (\A u \in Threads : u # Session => ~Contains(ctl[u], "init"))'
    BY <1>3, <1>4 DEF Armed
  <2>5. (\A u \in Timers : ctl[u] # <<>> => session[u[2]].inited)'
    BY <1>2, <1>3, <1>4, <2>1 DEF Armed, Elsewhere
  <2>6. (ctl[Session] # <<>> => ref[Session] \in Sess)'
    BY <1>2, <1>3, <1>4 DEF Armed
  <2> QED
    BY <2>3, <2>4, <2>5, <2>6 DEF Armed
<1>7. Paired'
  <2>1. (\A u \in Workers : u # Session /\ Contains(ctl[u], "incHold") => Contains(ctl[u], "decHold"))'
    BY <1>2, <1>3, <1>4 DEF Paired
  <2>2. (\A u \in Timers : ~Contains(ctl[u], "incHold"))'
    BY <1>2, <1>3, <1>4 DEF Paired
  <2>3. Jingle' = Jingle
    BY <1>3 DEF Jingle
  <2>4. ASSUME Contains(ctl'[Session], "incHold")
        PROVE  (/\ Head(ctl[Session]) \in {"readHold", "incHold"}
                /\ Jingle \in Timers /\ ctl[Jingle] # <<>> /\ Head(ctl[Jingle]) = "wait"
                /\ Contains(ctl[Jingle], "decHold"))'
    <3>1. /\ Head(ctl[Session]) \in {"readHold", "incHold"}
          /\ Jingle \in Timers /\ ctl[Jingle] # <<>> /\ Head(ctl[Jingle]) = "wait"
          /\ Contains(ctl[Jingle], "decHold")
      BY <1>2, <1>3, <1>4, <2>4 DEF Paired
    <3>2. Jingle # t /\ Jingle \in Threads
      BY <1>2, <3>1
    <3> QED
      BY <1>2, <1>3, <2>3, <3>1, <3>2
  <2> QED
    BY <2>1, <2>2, <2>4 DEF Paired
<1>8. (\A u \in Threads : Good(ctl[u]) /\ Reading(u))'
  <2>1. \A u \in Threads : ~scenario.preempt /\ ctl[u] # <<>> => ctl[u][1] \notin Counts
    BY <1>1, <1>2, <1>4 DEF Reading
  <2> QED
    BY <1>3, <1>4, <2>1 DEF Reading, Elsewhere, Begins
<1>9. HoldIsCounted'
  <2>1. CASE ~Contains(p, "incHold")
    <3>1. With("incHold")' = With("incHold") /\ With("decHold")' = With("decHold")
      BY <1>3, <1>5, <2>1 DEF With
    <3> QED
      BY <1>1, <1>4, <3>1 DEF HoldIsCounted, Elsewhere
  <2>2. CASE Contains(p, "incHold")
    <3>1. /\ With("incHold")' = With("incHold") \cup {t} /\ t \notin With("incHold")
          /\ With("decHold")' = With("decHold") \cup {t} /\ t \notin With("decHold")
      BY <1>2, <1>3, <1>5, <2>2 DEF With
    <3>2. /\ Cardinality(With("incHold")') = Cardinality(With("incHold")) + 1
          /\ Cardinality(With("decHold")') = Cardinality(With("decHold")) + 1
          /\ Cardinality(With("incHold")) \in Nat /\ Cardinality(With("decHold")) \in Nat
      BY <3>1, WithFinite, FS_AddElement
    <3> QED
      BY <1>1, <1>4, <3>2 DEF HoldIsCounted, Elsewhere
  <2> QED
    BY <2>1, <2>2
<1> QED
  BY <1>6, <1>7, <1>8, <1>9 DEF HoldInv

\* The session thread reads a stanza.
LEMMA StanzaStep ==
  ASSUME HoldInv, scenario' = scenario, Types', Connected', NEW p \in {<<>>, <<"rearm">>, <<"rearm", "init">>},
         turn = Nobody, turn' = turn, copy' = copy, WAKE' = WAKE,
         ctl[Session] = <<>>, ctl' = [ctl EXCEPT ![Session] = p],
         sess \in Sess, ref' = [ref EXCEPT ![Session] = sess],
         \A s \in Sess : session'[s].inited = session[s].inited,
         p = <<"rearm", "init">> => ~session[sess].inited
  PROVE  HoldInv'
<1>1. /\ Session \in Threads /\ Session \in Workers /\ Session \notin Timers
      /\ Timers \subseteq Threads /\ Workers \subseteq Threads /\ Nobody \notin Threads
      /\ \A u \in Timers : u[2] \in Sess
  BY ThreadFacts
<1>2. /\ ctl'[Session] = p /\ (\A u \in Threads : u # Session => ctl'[u] = ctl[u])
      /\ ref'[Session] = sess
  BY <1>1 DEF HoldInv, Types, TypeOK
<1>3. /\ Armed /\ Paired /\ HoldIsCounted
      /\ \A u \in Threads : Good(ctl[u]) /\ Reading(u)
  BY DEF HoldInv
<1>4. \A x : ~Contains(ctl[Session], x)
  BY NoneBegins
<1>5. Good(p) /\ (p # <<>> => p[1] \notin Counts)
  <2>1. CASE p = <<>>
    BY <2>1, NoneBegins DEF Begins
  <2>2. CASE p = <<"rearm">>
    <3>1. p \in Seq(Others)
      BY <2>2 DEF Others, Ops
    <3> QED
      BY <3>1, PlainBegins DEF Begins
  <2>3. CASE p = <<"rearm", "init">>
    <3>1. /\ p \in Seq(Ops) /\ Len(p) = 2 /\ p[1] = "rearm" /\ p[2] = "init"
          /\ \A i \in 1..Len(p) : i = 1 \/ i = 2
      BY <2>3 DEF Ops
    <3>2. "rearm" \notin Counts /\ "init" \notin Counts
      BY DEF Counts
    <3> QED
      BY <3>1, <3>2 DEF Good
  <2> QED
    BY <2>1, <2>2, <2>3
<1>6. ~Contains(p, "incHold") /\ ~Contains(p, "decHold")
  BY DEF Contains
<1>7. Contains(p, "init") => p = <<"rearm", "init">>
  BY DEF Contains
<1>8. Armed'
  BY <1>1, <1>2, <1>3, <1>7 DEF Armed
<1>9. Paired'
  BY <1>1, <1>2, <1>3, <1>6 DEF Paired
<1>10. (\A u \in Threads : Good(ctl[u]) /\ Reading(u))'
  <2>1. \A u \in Threads : ~scenario.preempt /\ ctl[u] # <<>> => ctl[u][1] \notin Counts
    BY <1>1, <1>3 DEF Reading
  <2> QED
    BY <1>2, <1>3, <1>5, <2>1 DEF Reading
<1>11. HoldIsCounted'
  <2>1. With("incHold")' = With("incHold") /\ With("decHold")' = With("decHold")
    BY <1>2, <1>4, <1>6 DEF With
  <2> QED
    BY <1>3, <2>1 DEF HoldIsCounted
<1> QED
  BY <1>8, <1>9, <1>10, <1>11 DEF HoldInv

\* The timers of a connection do nothing with the hold but release it, the jingle's.
LEMMA TimerBegins ==
  ASSUME NEW listen \in BOOLEAN
  PROVE  /\ \A p \in {ClearMic, <<"listen">>} :
              /\ Begins(<<"wait">> \o p) /\ ~Contains(<<"wait">> \o p, "incHold")
              /\ ~Contains(<<"wait">> \o p, "decHold") /\ ~Contains(<<"wait">> \o p, "init")
         /\ LET q == <<"wait">> \o ConnectJingle(listen)
            IN  /\ Begins(q) /\ q # <<>> /\ Head(q) = "wait" /\ Contains(q, "decHold")
                /\ ~Contains(q, "incHold") /\ ~Contains(q, "init")
<1>1. "decHold" \notin Others /\ "incHold" \notin Others /\ "init" \notin Others
  BY DEF Others
<1>2. ASSUME NEW p \in {ClearMic, <<"listen">>} PROVE <<"wait">> \o p \in Seq(Others)
  <2>1. ClearMic \in Seq(Others) /\ <<"listen">> \in Seq(Others) /\ <<"wait">> \in Seq(Others)
    BY DEF ClearMic, Others, Ops
  <2>2. p \in Seq(Others)
    BY <1>2, <2>1
  <2> QED
    BY <2>1, <2>2
<1>3. \A p \in {ClearMic, <<"listen">>} :
        /\ Begins(<<"wait">> \o p) /\ ~Contains(<<"wait">> \o p, "incHold")
        /\ ~Contains(<<"wait">> \o p, "decHold") /\ ~Contains(<<"wait">> \o p, "init")
  BY <1>1, <1>2, PlainBegins
<1> QED
  BY <1>3, JingleBegins

\* The session thread arms the timers, and takes the hold for the jingle's.
LEMMA InitStep ==
  ASSUME HoldInv, InitSession, Types', Connected'
  PROVE  HoldInv'
<1> DEFINE s == ref[Session]
           armed == (IF ShouldClearMic THEN {"clear"} ELSE {})
                      \cup (IF scenario.jingle THEN {"jingle"}
                            ELSE IF WantListen THEN {"listen"} ELSE {})
           program == [clear |-> ClearMic, jingle |-> ConnectJingle(WantListen),
                       listen |-> <<"listen">>]
           A == armed \X {s}
<1>1. /\ ctl[Session] = <<"init">> /\ turn \in {Nobody, Session} /\ turn' = Nobody
      /\ ctl' = [u \in Threads |->
                   CASE u = Session -> IF scenario.jingle THEN Hold ELSE <<>>
                     [] u \in A -> <<"wait">> \o program[u[1]]
                     [] OTHER -> ctl[u]]
      /\ ref' = [u \in Threads |-> IF u \in A THEN s ELSE ref[u]]
      /\ session' = [session EXCEPT ![s].inited = TRUE]
      /\ WAKE' = WAKE /\ copy' = copy /\ scenario' = scenario
  BY DEF InitSession, Session
<1>2. /\ Session \in Threads /\ Session \in Workers /\ Session \notin Timers
      /\ Timers \subseteq Threads /\ Workers \subseteq Threads /\ Nobody \notin Threads
      /\ Threads = Workers \cup Timers /\ Workers \cap Timers = {}
      /\ \A u \in Timers : u[2] \in Sess
  BY ThreadFacts
<1>3. /\ Armed /\ Paired /\ HoldIsCounted /\ scenario.jingle \in BOOLEAN
      /\ \A u \in Threads : Good(ctl[u]) /\ Reading(u)
      /\ session \in [Sess -> [resource : {"Boot", "idle", "streaming"}, bound : BOOLEAN,
                               inited : BOOLEAN, soundAt : BOOLEAN]]
      /\ WantListen \in BOOLEAN
  BY SpeakerMicAssumption DEF HoldInv, Types, TypeOK, Scenario, WantListen
<1>4. Contains(ctl[Session], "init") /\ ~Contains(ctl[Session], "incHold")
      /\ ~Contains(ctl[Session], "decHold")
  <2>1. Len(<<"init">>) = 1 /\ 1 \in 1..1 /\ <<"init">>[1] = "init"
    OBVIOUS
  <2> QED
    BY <1>1, <2>1 DEF Contains
<1>5. s \in Sess /\ ~session[s].inited
  BY <1>1, <1>3, <1>4 DEF Armed
<1>6. armed \subseteq {"clear", "jingle", "listen"} /\ ("jingle" \in armed <=> scenario.jingle)
  BY <1>3
<1>7. \A u \in A : /\ u \in Timers /\ u[1] \in armed /\ u[2] = s
                   /\ u = <<u[1], s>> /\ ctl[u] = <<>>
  <2> SUFFICES ASSUME NEW k \in armed, NEW u, u = <<k, s>>
               PROVE  u \in Timers /\ u[1] = k /\ u[2] = s /\ ctl[u] = <<>>
    OBVIOUS
  <2>1. u \in Timers /\ u[1] = k /\ u[2] = s
    BY <1>5, <1>6 DEF Timers
  <2> QED
    BY <1>3, <1>5, <2>1 DEF Armed
<1> HIDE DEF s, armed, A
<1>8. \A u \in A : u # Session /\ (u[1] = "jingle" => u = <<"jingle", s>>)
  BY <1>2, <1>7
<1>9. \A u \in A : /\ u[1] = "jingle" => program[u[1]] = ConnectJingle(WantListen)
                   /\ u[1] # "jingle" => program[u[1]] \in {ClearMic, <<"listen">>}
  BY <1>6, <1>7
<1> HIDE DEF program
<1>10. ctl'[Session] = IF scenario.jingle THEN Hold ELSE <<>>
  <2> DEFINE F(u) == CASE u = Session -> IF scenario.jingle THEN Hold ELSE <<>>
                       [] u \in A -> <<"wait">> \o program[u[1]]
                       [] OTHER -> ctl[u]
  <2>1. ctl' = [u \in Threads |-> F(u)]
    BY <1>1
  <2>2. F(Session) = IF scenario.jingle THEN Hold ELSE <<>>
    BY <1>8
  <2> HIDE DEF F
  <2> QED
    BY ONLY <1>2, <2>1, <2>2
<1>11. \A u \in A : ctl'[u] = <<"wait">> \o program[u[1]]
  BY <1>1, <1>2, <1>7, <1>8
<1>12. \A u \in Threads : u # Session /\ u \notin A => ctl'[u] = ctl[u]
  BY <1>1
<1>13. \A u \in A : /\ Begins(ctl'[u]) /\ ~Contains(ctl'[u], "incHold")
                    /\ ~Contains(ctl'[u], "init")
                    /\ Contains(ctl'[u], "decHold") <=> u[1] = "jingle"
                    /\ u[1] = "jingle" => ctl'[u] # <<>> /\ Head(ctl'[u]) = "wait"
  BY <1>3, <1>9, <1>11, TimerBegins
<1>14. /\ Begins(ctl'[Session]) /\ ~Contains(ctl'[Session], "init")
       /\ ~Contains(ctl'[Session], "decHold")
       /\ Contains(ctl'[Session], "incHold") <=> scenario.jingle
       /\ scenario.jingle => Head(ctl'[Session]) = "readHold"
  BY <1>10, HoldBegins, NoneBegins
<1>15. ref'[Session] = s
  BY <1>1, <1>2, <1>8 DEF s
<1>16. scenario.jingle => <<"jingle", s>> \in A /\ <<"jingle", s>>[1] = "jingle"
  BY <1>6 DEF A
<1>17. /\ session'[s].inited
       /\ \A r \in Sess : session'[r].inited = (session[r].inited \/ r = s)
  BY <1>1, <1>3, <1>5
<1>18. Armed'
  <2>1. (ctl[Session] # <<>> => ref[Session] \in Sess)'
    BY <1>5, <1>15
  <2>2. (\A u \in Threads : u # Session => ~Contains(ctl[u], "init"))'
    BY <1>3, <1>12, <1>13 DEF Armed
  <2>3. (\A u \in Timers : ctl[u] # <<>> => session[u[2]].inited)'
    BY <1>2, <1>3, <1>7, <1>12, <1>17 DEF Armed
  <2> QED
    BY <1>14, <2>1, <2>2, <2>3 DEF Armed
<1>19. Paired'
  <2>1. (\A u \in Workers : u # Session /\ Contains(ctl[u], "incHold") => Contains(ctl[u], "decHold"))'
    BY <1>2, <1>3, <1>7, <1>12 DEF Paired
  <2>2. (\A u \in Timers : ~Contains(ctl[u], "incHold"))'
    BY <1>2, <1>3, <1>12, <1>13 DEF Paired
  <2>3. Jingle' = <<"jingle", s>>
    BY <1>15 DEF Jingle
  <2> QED
    BY <1>7, <1>13, <1>14, <1>16, <2>1, <2>2, <2>3 DEF Paired
<1>20. (\A u \in Threads : Good(ctl[u]) /\ Reading(u))'
  <2>1. \A u \in Threads : ~scenario.preempt /\ ctl[u] # <<>> /\ u # Session => ctl[u][1] \notin Counts
    BY <1>1, <1>2, <1>3 DEF Reading
  <2> QED
    BY <1>1, <1>3, <1>12, <1>13, <1>14, <2>1 DEF Reading, Begins
<1>21. HoldIsCounted'
  <2>1. CASE scenario.jingle
    <3>1. With("incHold")' = With("incHold") \cup {Session} /\ Session \notin With("incHold")
      <4>1. \A u \in A : ~Contains(ctl[u], "incHold")
        BY <1>7, NoneBegins
      <4> QED
        BY <1>2, <1>4, <1>12, <1>13, <1>14, <2>1, <4>1 DEF With
    <3>2. /\ With("decHold")' = With("decHold") \cup {<<"jingle", s>>}
          /\ <<"jingle", s>> \notin With("decHold")
      <4>1. \A u \in A : ~Contains(ctl[u], "decHold")
        BY <1>7, NoneBegins
      <4>2. \A u \in A : Contains(ctl'[u], "decHold") <=> u = <<"jingle", s>>
        BY <1>8, <1>13, <1>16, <2>1
      <4> QED
        BY <1>2, <1>4, <1>7, <1>12, <1>14, <1>16, <2>1, <4>1, <4>2 DEF With
    <3>3. /\ Cardinality(With("incHold")') = Cardinality(With("incHold")) + 1
          /\ Cardinality(With("decHold")') = Cardinality(With("decHold")) + 1
          /\ Cardinality(With("incHold")) \in Nat /\ Cardinality(With("decHold")) \in Nat
      BY <3>1, <3>2, WithFinite, FS_AddElement
    <3> QED
      BY <1>1, <1>3, <3>3 DEF HoldIsCounted
  <2>2. CASE ~scenario.jingle
    <3>1. With("incHold")' = With("incHold")
      <4>1. \A u \in A : ~Contains(ctl[u], "incHold")
        BY <1>7, NoneBegins
      <4> QED
        BY <1>2, <1>4, <1>12, <1>13, <1>14, <2>2, <4>1 DEF With
    <3>2. With("decHold")' = With("decHold")
      <4>1. \A u \in A : ~Contains(ctl[u], "decHold")
        BY <1>7, NoneBegins
      <4>2. \A u \in A : ~Contains(ctl'[u], "decHold")
        BY <1>6, <1>7, <1>13, <2>2
      <4> QED
        BY <1>2, <1>4, <1>12, <1>14, <2>2, <4>1, <4>2 DEF With
    <3> QED
      BY <1>1, <1>3, <3>1, <3>2 DEF HoldIsCounted
  <2> QED
    BY <2>1, <2>2
<1> QED
  BY <1>18, <1>19, <1>20, <1>21 DEF HoldInv

SomeWAKE == [on : BOOLEAN, streaming : BOOLEAN, rearm : BOOLEAN, hold : Nat,
             capturing : BOOLEAN, cooling : BOOLEAN]
SomeSession == [Sess -> [resource : {"Boot", "idle", "streaming"}, bound : BOOLEAN,
                         inited : BOOLEAN, soundAt : BOOLEAN]]

\* Thread t takes a step that has nothing to do with the hold.
Quietly(t) ==
  /\ \E op \in Others, more \in Seq(Others) :
       Goes(t, op, more) /\ (op = "wait" => SecondsPass)
  /\ copy' = copy /\ WAKE' \in SomeWAKE /\ WAKE'.hold = WAKE.hold
  /\ hasListen' \in BOOLEAN /\ session' \in SomeSession
  /\ \A s \in Sess : session'[s].inited = session[s].inited

\* All steps but three have nothing to do with it.
LEMMA QuietSteps ==
  ASSUME HoldInv, NEW t \in Threads,
         \/ FreeSpeaker(t) \/ ArmAck(t) \/ Released(t) \/ Rearm(t) \/ Settle(t)
         \/ StartListen(t) \/ Save(t) \/ SetWAKE(t) \/ Off(t) \/ Wait(t) \/ Fire(t)
         \/ \E program \in {"RT", "RS", "ST"} : Push(t, program)
  PROVE  Quietly(t)
<1>1. /\ WAKE \in SomeWAKE /\ hasListen \in BOOLEAN /\ session \in SomeSession
  BY DEF HoldInv, Types, TypeOK, SomeWAKE, SomeSession
<1>2. /\ {"free", "ack", "released", "rearm", "settle", "listen", "save", "unstream", "owe", "stream",
          "capture", "collected", "chill", "off", "think", "sleep", "wait", "RT", "RS", "ST"}
           \subseteq Others
  BY DEF Others, Ops
<1>3. /\ <<>> \in Seq(Others) /\ <<"RT", "unstream", "owe">> \in Seq(Others)
      /\ <<"rearm">> \in Seq(Others) /\ <<"settle">> \in Seq(Others) /\ <<"listen">> \in Seq(Others)
      /\ <<"stream", "RS", "save">> \in Seq(Others) /\ <<"owe", "save">> \in Seq(Others)
  BY <1>2
<1>4. CASE FreeSpeaker(t)
  <2> DEFINE more == IF WAKE.streaming THEN <<"RT", "unstream", "owe">> ELSE <<>>
  <2>1. Goes(t, "free", more) /\ UNCHANGED <<WAKE, hasListen, session, copy>>
    BY <1>4 DEF FreeSpeaker
  <2>2. more \in Seq(Others)
    BY <1>3
  <2> HIDE DEF more
  <2> QED
    BY <1>1, <1>2, <2>1, <2>2 DEF Quietly
<1>5. CASE ArmAck(t)
  <2>1. /\ Goes(t, "ack", <<>>) /\ UNCHANGED <<WAKE, hasListen, copy>>
        /\ session' = [session EXCEPT ![ref[t]].soundAt = @ \/ session[ref[t]].resource = "idle"]
    BY <1>5 DEF ArmAck
  <2>2. session' \in SomeSession /\ \A s \in Sess : session'[s].inited = session[s].inited
    BY <1>1, <2>1, ZenonT(30) DEF SomeSession
  <2> QED
    BY <1>1, <1>2, <1>3, <2>1, <2>2 DEF Quietly
<1>6. CASE Released(t)
  <2> DEFINE more == IF WAKE.hold = 0 THEN <<"rearm">> ELSE <<>>
  <2>1. Goes(t, "released", more) /\ UNCHANGED <<WAKE, hasListen, session, copy>>
    BY <1>6 DEF Released
  <2>2. more \in Seq(Others)
    BY <1>3
  <2> HIDE DEF more
  <2> QED
    BY <1>1, <1>2, <2>1, <2>2 DEF Quietly
<1>7. CASE Rearm(t)
  <2> DEFINE more == IF WAKE.hold = 0 /\ WAKE.rearm THEN <<"settle">> ELSE <<>>
  <2>1. Goes(t, "rearm", more) /\ UNCHANGED <<WAKE, hasListen, session, copy>>
    BY <1>7 DEF Rearm
  <2>2. more \in Seq(Others)
    BY <1>3
  <2> HIDE DEF more
  <2> QED
    BY <1>1, <1>2, <2>1, <2>2 DEF Quietly
<1>8. CASE Settle(t)
  <2> DEFINE more == IF WAKE.on THEN <<"listen">> ELSE <<>>
  <2>1. Goes(t, "settle", more) /\ WAKE' = [WAKE EXCEPT !.rearm = FALSE]
        /\ UNCHANGED <<hasListen, session, copy>>
    BY <1>8 DEF Settle
  <2>2. more \in Seq(Others)
    BY <1>3
  <2> HIDE DEF more
  <2>3. WAKE' \in SomeWAKE /\ WAKE'.hold = WAKE.hold
    BY <1>1, <2>1 DEF SomeWAKE
  <2> QED
    BY <1>1, <1>2, <2>1, <2>2, <2>3 DEF Quietly
<1>9. CASE StartListen(t)
  <2> DEFINE more == IF session[ref[t]].resource = "idle"
                       THEN <<"stream", "RS", "save">> ELSE <<"owe", "save">>
  <2>1. Goes(t, "listen", more) /\ WAKE' = [WAKE EXCEPT !.on = TRUE]
        /\ UNCHANGED <<hasListen, session, copy>>
    BY <1>9 DEF StartListen
  <2>2. more \in Seq(Others)
    BY <1>3
  <2> HIDE DEF more
  <2>3. WAKE' \in SomeWAKE /\ WAKE'.hold = WAKE.hold
    BY <1>1, <2>1 DEF SomeWAKE
  <2> QED
    BY <1>1, <1>2, <2>1, <2>2, <2>3 DEF Quietly
<1>10. CASE Save(t)
  BY <1>1, <1>2, <1>3, <1>10 DEF Save, Quietly
<1>11. CASE SetWAKE(t)
  <2>1. PICK op \in {"unstream", "owe", "stream", "capture", "collected", "chill"} :
          /\ Goes(t, op, <<>>)
          /\ \/ WAKE' = [WAKE EXCEPT !.streaming = FALSE]
             \/ WAKE' = [WAKE EXCEPT !.rearm = TRUE]
             \/ WAKE' = [WAKE EXCEPT !.streaming = TRUE, !.cooling = FALSE]
             \/ WAKE' = [WAKE EXCEPT !.capturing = TRUE]
             \/ WAKE' = [WAKE EXCEPT !.capturing = FALSE]
             \/ WAKE' = [WAKE EXCEPT !.cooling = TRUE]
    BY <1>11 DEF SetWAKE
  <2>2. UNCHANGED <<hasListen, session, copy>>
    BY <1>11 DEF SetWAKE
  <2>3. WAKE' \in SomeWAKE /\ WAKE'.hold = WAKE.hold
    BY <1>1, <2>1 DEF SomeWAKE
  <2>4. op \in Others /\ op # "wait"
    BY <1>2
  <2> QED
    BY <1>1, <1>3, <2>1, <2>2, <2>3, <2>4 DEF Quietly
<1>12. CASE Off(t)
  <2>1. Goes(t, "off", <<>>) /\ UNCHANGED <<hasListen, session, copy>>
        /\ WAKE' = [WAKE EXCEPT !.on = FALSE, !.streaming = FALSE, !.rearm = FALSE]
    BY <1>12 DEF Off
  <2>2. WAKE' \in SomeWAKE /\ WAKE'.hold = WAKE.hold
    BY <1>1, <2>1 DEF SomeWAKE
  <2> QED
    BY <1>1, <1>2, <1>3, <2>1, <2>2 DEF Quietly
<1>13. CASE Wait(t)
  BY <1>1, <1>2, <1>3, <1>13 DEF Wait, Quietly
<1>14. CASE Fire(t)
  BY <1>1, <1>2, <1>3, <1>14 DEF Fire, Quietly
<1>15. ASSUME NEW program \in {"RT", "RS", "ST"}, Push(t, program) PROVE Quietly(t)
  <2>1. Goes(t, program, <<>>) /\ UNCHANGED <<WAKE, hasListen, session, copy>>
    BY <1>15 DEF Push
  <2>2. program \in Others /\ program # "wait"
    BY <1>2
  <2> QED
    BY <1>1, <1>3, <2>1, <2>2 DEF Quietly
<1> QED
  BY <1>4, <1>5, <1>6, <1>7, <1>8, <1>9, <1>10, <1>11, <1>12, <1>13, <1>14, <1>15

\* What the types and the connection come to after a step of a thread.
LEMMA StepTypes ==
  ASSUME HoldInv, NEW t \in Threads, Step(t), NEW op \in Ops, NEW more \in Seq(Others),
         Goes(t, op, more), op = "readHold" => more = <<>>,
         WAKE' \in SomeWAKE, hasListen' \in BOOLEAN, session' \in SomeSession,
         copy' \in [Threads -> Nat]
  PROVE  Types' /\ Connected' /\ ref' = ref
<1>1. /\ Types /\ Connected
  BY DEF HoldInv
<1>2. ctl' \in [Threads -> Seq(Ops)] /\ turn' \in {Nobody, t}
  BY GoesOn
<1>3. ref' = ref /\ sess' = sess /\ link' = link /\ toServer' = toServer
  BY DEF Step, Push, wire
<1>4. toRabbit' \in Seq({"RT", "RS", "ST"}) /\ (toRabbit' # <<>> => toRabbit # <<>> \/ link)
  <2>1. \/ toRabbit' = toRabbit
        \/ \E program \in {"RT", "RS", "ST"} : link /\ toRabbit' = Append(toRabbit, program)
    BY DEF Step, Push, wire
  <2>2. toRabbit \in Seq({"RT", "RS", "ST"})
    BY <1>1 DEF Types
  <2>3. CASE toRabbit' = toRabbit
    BY <2>2, <2>3
  <2>4. ASSUME NEW program \in {"RT", "RS", "ST"}, link, toRabbit' = Append(toRabbit, program)
        PROVE  toRabbit' \in Seq({"RT", "RS", "ST"}) /\ link
    BY ONLY <2>2, <2>4
  <2> QED
    BY <2>1, <2>3, <2>4
<1>5. UNCHANGED <<rabbit, wanted, scenario>>
  BY DEF Step
<1>6. Types'
  BY <1>1, <1>2, <1>3, <1>4, <1>5 DEF Types, TypeOK, SomeWAKE, SomeSession
<1>7. Connected'
  BY <1>1, <1>3, <1>4, <1>5 DEF Connected
<1> QED
  BY <1>3, <1>6, <1>7

\* A step of a thread.
LEMMA StepKeeps ==
  ASSUME HoldInv, NEW t \in Threads, Step(t)
  PROVE  HoldInv'
<1>1. /\ WAKE \in SomeWAKE /\ hasListen \in BOOLEAN /\ session \in SomeSession
      /\ copy \in [Threads -> Nat]
  BY DEF HoldInv, Types, TypeOK, SomeWAKE, SomeSession
<1>2. scenario' = scenario
  BY DEF Step
<1>3. {"readHold", "incHold", "decHold"} \subseteq Ops /\ <<>> \in Seq(Others)
  BY DEF Ops
<1>4. CASE Quietly(t)
  <2>1. PICK op \in Others, more \in Seq(Others) :
          Goes(t, op, more) /\ (op = "wait" => SecondsPass)
    BY <1>4 DEF Quietly
  <2>2. op \in Ops /\ op # "readHold"
    BY DEF Others
  <2>3. Types' /\ Connected' /\ ref' = ref
    BY <1>1, <1>4, <2>1, <2>2, StepTypes DEF Quietly
  <2>4. Elsewhere
    BY <1>2, <1>4 DEF Quietly, Elsewhere
  <2> QED
    BY <1>4, <2>1, <2>3, <2>4, QuietStep DEF Quietly
<1>5. CASE ReadHold(t)
  <2>1. Goes(t, "readHold", <<>>) /\ UNCHANGED <<WAKE, hasListen, session>>
        /\ copy' = [copy EXCEPT ![t] = WAKE.hold]
    BY <1>5 DEF ReadHold
  <2>2. copy' \in [Threads -> Nat]
    BY <1>1, <2>1 DEF SomeWAKE
  <2>3. Types' /\ Connected' /\ ref' = ref
    BY <1>1, <1>3, <2>1, <2>2, StepTypes
  <2>4. Elsewhere
    BY <1>2, <2>1 DEF Elsewhere
  <2> QED
    BY <1>5, <2>3, <2>4, ReadStep
<1>6. CASE IncHold(t)
  <2>1. Goes(t, "incHold", <<>>) /\ UNCHANGED <<hasListen, session, copy>>
        /\ WAKE' = [WAKE EXCEPT !.hold = copy[t] + 1]
    BY <1>6 DEF IncHold
  <2>2. WAKE' \in SomeWAKE
    BY <1>1, <2>1 DEF SomeWAKE
  <2>3. Types' /\ Connected' /\ ref' = ref
    BY <1>1, <1>3, <2>1, <2>2, StepTypes
  <2>4. Elsewhere
    BY <1>2, <2>1 DEF Elsewhere
  <2> QED
    BY <1>6, <2>3, <2>4, IncStep
<1>7. CASE DecHold(t)
  <2>1. Goes(t, "decHold", <<>>) /\ UNCHANGED <<hasListen, session, copy>>
        /\ WAKE' = [WAKE EXCEPT !.hold = IF copy[t] = 0 THEN 0 ELSE copy[t] - 1]
    BY <1>7 DEF DecHold
  <2>2. WAKE' \in SomeWAKE
    <3>1. (IF copy[t] = 0 THEN 0 ELSE copy[t] - 1) \in Nat
      BY <1>1
    <3> QED
      BY <1>1, <2>1, <3>1 DEF SomeWAKE
  <2>3. Types' /\ Connected' /\ ref' = ref
    BY <1>1, <1>3, <2>1, <2>2, StepTypes
  <2>4. Elsewhere
    BY <1>2, <2>1 DEF Elsewhere
  <2> QED
    BY <1>7, <2>3, <2>4, DecStep
<1> QED
  BY <1>4, <1>5, <1>6, <1>7, QuietSteps DEF Step

\* The requests and the wake loop start operations that release what they take.
LEMMA StartsBegin ==
  /\ \A p \in {SendSound, <<"listen">>, MicOff} :
       /\ p \in Seq(Ops) /\ Begins(p) /\ ~Contains(p, "init")
       /\ ~Contains(p, "incHold") /\ ~Contains(p, "decHold")
  /\ \A n \in 1..2 : /\ Speak(n) \in Seq(Ops) /\ Begins(Speak(n)) /\ ~Contains(Speak(n), "init")
                     /\ Contains(Speak(n), "incHold") /\ Contains(Speak(n), "decHold")
  /\ /\ Answer \in Seq(Ops) /\ Begins(Answer) /\ ~Contains(Answer, "init")
     /\ Contains(Answer, "incHold") /\ Contains(Answer, "decHold")
<1>1. "decHold" \notin Others /\ "incHold" \notin Others /\ "init" \notin Others /\ Others \subseteq Ops
  BY DEF Others
<1>2. SendSound \in Seq(Others) /\ <<"listen">> \in Seq(Others) /\ MicOff \in Seq(Others)
  BY DEF SendSound, MicOff, Others, Ops
<1>3. ASSUME NEW p \in {SendSound, <<"listen">>, MicOff}
      PROVE  /\ p \in Seq(Ops) /\ Begins(p) /\ ~Contains(p, "init")
             /\ ~Contains(p, "incHold") /\ ~Contains(p, "decHold")
  <2>1. p \in Seq(Others)
    BY <1>2, <1>3
  <2> QED
    BY <1>1, <2>1, PlainBegins
<1>4. ASSUME NEW n \in 1..2
      PROVE  /\ Speak(n) \in Seq(Ops) /\ Begins(Speak(n)) /\ ~Contains(Speak(n), "init")
             /\ Contains(Speak(n), "incHold") /\ Contains(Speak(n), "decHold")
  <2>1. Speak(n) \o <<>> = Speak(n)
    <3> DEFINE A == IF n = 2 THEN SendSound \o <<"sleep">> ELSE <<>>
    <3>1. A \in Seq(Ops) /\ Hold \in Seq(Ops) /\ SendSound \in Seq(Ops) /\ Unhold \in Seq(Ops)
          /\ <<"released">> \in Seq(Ops)
      <4>1. SendSound \in Seq(Others) /\ <<"sleep">> \in Seq(Others) /\ <<>> \in Seq(Others)
        BY <1>2 DEF Others, Ops
      <4>2. A \in Seq(Others)
        BY <4>1
      <4>3. Hold \in Seq(Ops) /\ Unhold \in Seq(Ops) /\ <<"released">> \in Seq(Ops)
        BY DEF Hold, Unhold, Ops
      <4> QED
        BY <1>1, <4>1, <4>2, <4>3
    <3>2. Speak(n) = (((Hold \o A) \o SendSound) \o Unhold) \o <<"released">>
      BY DEF Speak
    <3> HIDE DEF A
    <3>3. Speak(n) \in Seq(Ops)
      BY <3>1, <3>2
    <3> QED
      BY <3>3, ConcatEmptySeq
  <2>2. <<>> \in Seq(Others)
    OBVIOUS
  <2> QED
    BY <2>1, <2>2, SpeakBegins DEF Begins
<1> QED
  BY <1>3, <1>4, AnswerBegins DEF Begins

\* What an operation that starts leaves alone.
LEMMA StartTypes ==
  ASSUME HoldInv, NEW t \in Workers, NEW p \in Seq(Ops), Starts(t, p), scenario' \in Scenario
  PROVE  Types' /\ Connected'
<1>1. Types /\ Connected /\ t \in Threads
  BY ThreadFacts DEF HoldInv
<1>2. /\ ctl' = [ctl EXCEPT ![t] = p] /\ ref' = [ref EXCEPT ![t] = sess]
      /\ UNCHANGED <<WAKE, hasListen, session, copy, turn, sess, link, toRabbit, toServer, rabbit>>
  BY DEF Starts, wire
<1>3. ctl' \in [Threads -> Seq(Ops)] /\ ref' \in [Threads -> 0..MaxSess]
  BY <1>1, <1>2 DEF Types, TypeOK
<1> QED
  BY <1>1, <1>2, <1>3 DEF Types, TypeOK, Connected

\* A request.
LEMMA AskKeeps ==
  ASSUME HoldInv, NEW request \in Requests, Ask(request)
  PROVE  HoldInv'
<1>1. scenario' = [scenario EXCEPT !.requests = @ - 1] /\ scenario.requests > 0
      /\ scenario \in Scenario
  BY DEF Ask, HoldInv, Types, TypeOK
<1>2. scenario' \in Scenario /\ scenario'.preempt = scenario.preempt
  BY <1>1 DEF Scenario
<1>3. \E t \in {T("api"), T("voice")} :
        \E p \in {SendSound, <<"listen">>, MicOff, Speak(1), Speak(2)} : Starts(t, p)
  <2>1. CASE request = "voice"
    <3>1. \E n \in 1..2 : Starts(T("voice"), Speak(n))
      BY <2>1 DEF Ask
    <3> QED
      BY <3>1
  <2>2. CASE request # "voice"
    BY <2>2 DEF Ask, Requests
  <2> QED
    BY <2>1, <2>2
<1>4. PICK t \in {T("api"), T("voice")}, p \in {SendSound, <<"listen">>, MicOff, Speak(1), Speak(2)} :
        Starts(t, p)
  BY <1>3
<1>5. t \in Workers /\ t # Session
  BY <1>4 DEF T, Workers, Session
<1>6. /\ p \in Seq(Ops) /\ Begins(p) /\ ~Contains(p, "init")
      /\ Contains(p, "incHold") <=> Contains(p, "decHold")
  <2>1. 1 \in 1..2 /\ 2 \in 1..2
    OBVIOUS
  <2> QED
    BY <1>4, <2>1, StartsBegin
<1>7. Types' /\ Connected'
  BY <1>2, <1>4, <1>5, <1>6, StartTypes
<1>8. Elsewhere
  BY <1>2, <1>4 DEF Starts, Elsewhere
<1> QED
  BY <1>4, <1>5, <1>6, <1>7, <1>8, StartStep

\* The wake loop.
LEMMA LoopKeeps ==
  ASSUME HoldInv, LoopRearms \/ HearsWakeWord
  PROVE  HoldInv'
<1>1. scenario' \in Scenario /\ scenario'.preempt = scenario.preempt
  <2>1. scenario \in Scenario
    BY DEF HoldInv, Types, TypeOK
  <2>2. scenario' = scenario \/ (scenario.wakes > 0 /\ scenario' = [scenario EXCEPT !.wakes = @ - 1])
    BY DEF LoopRearms, HearsWakeWord
  <2> QED
    BY <2>1, <2>2 DEF Scenario
<1>2. PICK p \in {<<"listen">>, Answer} : Starts(T("wake"), p)
  BY DEF LoopRearms, HearsWakeWord
<1>3. T("wake") \in Workers /\ T("wake") # Session
  BY DEF T, Workers, Session
<1>4. /\ p \in Seq(Ops) /\ Begins(p) /\ ~Contains(p, "init")
      /\ Contains(p, "incHold") <=> Contains(p, "decHold")
  BY <1>2, StartsBegin
<1>5. Types' /\ Connected'
  BY <1>1, <1>2, <1>3, <1>4, StartTypes
<1>6. Elsewhere
  BY <1>1, <1>2 DEF Starts, Elsewhere
<1> QED
  BY <1>2, <1>3, <1>4, <1>5, <1>6, StartStep

\* A stanza, or the first session on idle.
LEMMA SessionKeeps ==
  ASSUME HoldInv, SessionThread
  PROVE  HoldInv'
<1>1. /\ Types /\ Connected /\ Session \in Threads
      /\ session \in SomeSession /\ toServer \in Seq({"idle", "streaming", "session"})
  BY ThreadFacts DEF HoldInv, Types, TypeOK, SomeSession
<1>2. ASSUME NEW stanza, Reads(stanza), NEW p \in {<<>>, <<"rearm">>, <<"rearm", "init">>},
             ctl' = [ctl EXCEPT ![Session] = p],
             session' \in SomeSession, \A s \in Sess : session'[s].inited = session[s].inited,
             p = <<"rearm", "init">> => ~session[sess].inited
      PROVE  HoldInv'
  <2>1. /\ ctl[Session] = <<>> /\ turn = Nobody /\ toServer # <<>> /\ toServer' = Tail(toServer)
        /\ ref' = [ref EXCEPT ![Session] = sess]
        /\ UNCHANGED <<WAKE, hasListen, copy, turn, sess, link, toRabbit, rabbit, wanted, scenario>>
    BY <1>2 DEF Reads, Free, Session
  <2>2. sess \in Sess
    <3>1. sess \in 0..MaxSess /\ MaxSess \in Nat /\ sess > 0
      BY <1>1, <2>1, SpeakerMicAssumption DEF Types, TypeOK, Connected
    <3> QED
      BY <3>1 DEF Sess
  <2>3. toServer' \in Seq({"idle", "streaming", "session"})
    BY <1>1, <2>1
  <2>4. ctl' \in [Threads -> Seq(Ops)] /\ ref' \in [Threads -> 0..MaxSess]
    <3>1. p \in Seq(Ops)
      <4>1. <<>> \in Seq(Ops) /\ <<"rearm">> \in Seq(Ops) /\ <<"rearm", "init">> \in Seq(Ops)
        BY DEF Ops
      <4> QED
        BY <1>2, <4>1
    <3> QED
      BY <1>1, <1>2, <2>1, <3>1 DEF Types, TypeOK
  <2>5. Types' /\ Connected'
    BY <1>1, <1>2, <2>1, <2>3, <2>4 DEF Types, TypeOK, Connected, SomeSession
  <2> QED
    BY <1>2, <2>1, <2>2, <2>5, StanzaStep
<1>3. ASSUME NEW r \in {"idle", "streaming"}, HandleBind(r) PROVE HoldInv'
  <2>1. /\ Reads(r) /\ session' = [session EXCEPT ![sess].resource = r, ![sess].soundAt = FALSE]
        /\ ctl' = [ctl EXCEPT ![Session] = IF session[sess].bound /\ r = "idle"
                                             THEN <<"rearm">> ELSE <<>>]
    BY <1>3 DEF HandleBind, Session
  <2>2. session' \in SomeSession /\ \A s \in Sess : session'[s].inited = session[s].inited
    BY <1>1, <2>1 DEF SomeSession
  <2>3. CASE session[sess].bound /\ r = "idle"
    BY <1>2, <2>1, <2>2, <2>3
  <2>4. CASE ~(session[sess].bound /\ r = "idle")
    BY <1>2, <2>1, <2>2, <2>4
  <2> QED
    BY <2>3, <2>4
<1>4. ASSUME HandleSession PROVE HoldInv'
  <2> DEFINE p == IF session[sess].resource # "idle" THEN <<>>
                  ELSE IF session[sess].inited THEN <<"rearm">> ELSE <<"rearm", "init">>
  <2>1. /\ Reads("session") /\ session' = [session EXCEPT ![sess].bound = TRUE]
        /\ ctl' = [ctl EXCEPT ![Session] = p]
    BY <1>4 DEF HandleSession, Session
  <2>2. session' \in SomeSession /\ \A s \in Sess : session'[s].inited = session[s].inited
    BY <1>1, <2>1 DEF SomeSession
  <2>3. p \in {<<>>, <<"rearm">>, <<"rearm", "init">>}
        /\ (p = <<"rearm", "init">> => ~session[sess].inited)
    OBVIOUS
  <2> HIDE DEF p
  <2> QED
    BY <1>2, <2>1, <2>2, <2>3
<1>5. ASSUME InitSession PROVE HoldInv'
  <2> DEFINE s == ref[Session]
             armed == (IF ShouldClearMic THEN {"clear"} ELSE {})
                        \cup (IF scenario.jingle THEN {"jingle"}
                              ELSE IF WantListen THEN {"listen"} ELSE {})
             program == [clear |-> ClearMic, jingle |-> ConnectJingle(WantListen),
                         listen |-> <<"listen">>]
             A == armed \X {s}
  <2>1. /\ ctl[Session] = <<"init">> /\ turn' = Nobody
        /\ ctl' = [u \in Threads |->
                     CASE u = Session -> IF scenario.jingle THEN Hold ELSE <<>>
                       [] u \in A -> <<"wait">> \o program[u[1]]
                       [] OTHER -> ctl[u]]
        /\ ref' = [u \in Threads |-> IF u \in A THEN s ELSE ref[u]]
        /\ session' = [session EXCEPT ![s].inited = TRUE]
        /\ UNCHANGED <<WAKE, hasListen, copy, wire, rabbit, wanted, scenario>>
    BY <1>5 DEF InitSession, Session
  <2>2. WantListen \in BOOLEAN
    BY SpeakerMicAssumption DEF HoldInv, Types, TypeOK, Scenario, WantListen
  <2>3. \A u \in A : program[u[1]] = ConnectJingle(WantListen) \/ program[u[1]] \in {ClearMic, <<"listen">>}
    OBVIOUS
  <2>9. Session \notin A
    BY DEF Session, T
  <2> HIDE DEF A, program, armed
  <2>4. ref' \in [Threads -> 0..MaxSess]
    BY <1>1, <2>1 DEF Types, TypeOK
  <2> HIDE DEF s
  <2>5. session' \in SomeSession
    BY <1>1, <2>1 DEF SomeSession
  <2>6. ctl' \in [Threads -> Seq(Ops)]
    <3> DEFINE h == IF scenario.jingle THEN Hold ELSE <<>>
    <3> DEFINE F(u) == CASE u = Session -> h
                         [] u \in A -> <<"wait">> \o program[u[1]]
                         [] OTHER -> ctl[u]
    <3>1. ctl' = [u \in Threads |-> F(u)]
      BY <2>1
    <3>2. \A u \in A : <<"wait">> \o program[u[1]] \in Seq(Ops)
      BY <2>2, <2>3, TimerBegins DEF Begins
    <3>3. h \in Seq(Ops)
      <4>1. Hold \in Seq(Ops) /\ <<>> \in Seq(Ops)
        BY DEF Hold, Ops
      <4> QED
        BY <4>1
    <3> HIDE DEF h
    <3>4. \A u \in Threads : ctl[u] \in Seq(Ops)
      BY <1>1 DEF Types
    <3>5. ASSUME NEW u \in Threads PROVE F(u) \in Seq(Ops)
      <4>1. CASE u = Session
        BY <2>9, <3>3, <4>1
      <4>2. CASE u # Session /\ u \in A
        BY <3>2, <4>2
      <4>3. CASE u # Session /\ u \notin A
        BY <3>4, <4>3
      <4> QED
        BY <4>1, <4>2, <4>3
    <3> HIDE DEF F
    <3> QED
      BY <3>1, <3>5
  <2>7. Types' /\ Connected'
    BY <1>1, <2>1, <2>4, <2>5, <2>6 DEF Types, TypeOK, Connected, SomeSession, wire
  <2> QED
    BY <1>5, <2>7, InitStep
<1> QED
  BY <1>3, <1>4, <1>5 DEF SessionThread

\* The end of a cooldown, the connection, and the rabbit.
LEMMA OutsideKeeps ==
  ASSUME HoldInv, CooldownOver \/ Drop \/ AckTimeout \/ Connect \/ Rabbit \/ GoDeaf
  PROVE  HoldInv'
<1>1. /\ Types /\ Connected /\ TypeOK /\ scenario \in Scenario /\ session \in SomeSession
      /\ toServer \in Seq({"idle", "streaming", "session"}) /\ toRabbit \in Seq({"RT", "RS", "ST"})
      /\ MaxSess \in Nat /\ WAKE \in SomeWAKE /\ sess \in 0..MaxSess
  BY SpeakerMicAssumption DEF HoldInv, Types, TypeOK, SomeSession, SomeWAKE
<1> DEFINE Rab == [streamOn : BOOLEAN, arp : BOOLEAN, rec : BOOLEAN,
                   play : {"none", "fetching", "playing", "muted"},
                   deaf : BOOLEAN, refused : BOOLEAN]
<1>2. rabbit \in Rab
  BY <1>1 DEF TypeOK
<1>3. CASE CooldownOver
  <2>1. WAKE' \in SomeWAKE /\ WAKE'.hold = WAKE.hold
        /\ UNCHANGED <<hasListen, session, threads, wire, rabbit, wanted, scenario>>
    BY <1>1, <1>3 DEF CooldownOver, SomeWAKE
  <2>2. Types' /\ Connected'
    BY <1>1, <2>1 DEF Types, TypeOK, Connected, threads, wire, SomeWAKE
  <2> QED
    BY <2>1, <2>2, StillStep DEF Elsewhere
<1>4. CASE Drop \/ AckTimeout
  <2>1. /\ Lost /\ session' \in SomeSession
        /\ \A s \in Sess : session'[s].inited = session[s].inited
    <3>1. CASE Drop
      BY <1>1, <3>1 DEF Drop
    <3>2. CASE AckTimeout
      <4>1. Lost /\ session' = [session EXCEPT ![sess].soundAt = FALSE]
        BY <3>2 DEF AckTimeout
      <4> QED
        BY <1>1, <4>1 DEF SomeSession
    <3> QED
      BY <1>4, <3>1, <3>2
  <2>2. /\ rabbit' \in Rab /\ rabbit'.play = "none"
    BY <1>2, <2>1 DEF Lost
  <2>3. /\ link' = FALSE /\ toRabbit' = <<>> /\ toServer' = <<>>
        /\ UNCHANGED <<WAKE, hasListen, threads, sess, wanted, scenario>>
    BY <2>1 DEF Lost
  <2> HIDE DEF Rab
  <2>4. Types'
    <3>1. toRabbit' \in Seq({"RT", "RS", "ST"}) /\ toServer' \in Seq({"idle", "streaming", "session"})
      BY <2>3
    <3> QED
      BY <1>1, <2>1, <2>2, <2>3, <3>1 DEF Types, TypeOK, threads, SomeSession, Rab
  <2>5. Connected'
    BY <2>2, <2>3 DEF Connected
  <2> QED
    BY <2>1, <2>3, <2>4, <2>5, StillStep DEF Elsewhere
<1>5. CASE Connect
  <2>1. /\ sess < scenario.sessions /\ sess' = sess + 1 /\ link' = TRUE
        /\ toServer' = <<"idle", "session">> /\ rabbit' = [rabbit EXCEPT !.deaf = FALSE]
        /\ UNCHANGED <<WAKE, hasListen, session, threads, toRabbit, wanted, scenario>>
    BY <1>5 DEF Connect
  <2>2. scenario.sessions \in 1..MaxSess
    BY <1>1 DEF Scenario, Sess
  <2>3. sess' \in 0..MaxSess /\ sess' > 0
    BY <1>1, <2>1, <2>2
  <2>4. toServer' \in Seq({"idle", "streaming", "session"}) /\ rabbit' \in Rab
    <3>1. rabbit' \in Rab
      BY <1>2, <2>1
    <3>2. <<"idle", "session">> \in Seq({"idle", "streaming", "session"})
      OBVIOUS
    <3> QED
      BY <2>1, <3>1, <3>2
  <2> HIDE DEF Rab
  <2>5. Types' /\ Connected'
    BY <1>1, <2>1, <2>3, <2>4 DEF Types, TypeOK, Connected, threads, Rab
  <2> QED
    BY <2>1, <2>5, StillStep DEF Elsewhere
<1>6. CASE Rabbit
  <2>1. RabbitStep
    BY <1>6 DEF Rabbit, RabbitRS, RabbitRT, ArpReply, RabbitST, PlayStart, PlayEnd,
                IgnoresProgram, Applies
  <2>2. UNCHANGED <<WAKE, hasListen, session, threads, sess, link, wanted, scenario>>
    BY <2>1 DEF RabbitStep
  <2>3. toRabbit' = toRabbit \/ (toRabbit # <<>> /\ toRabbit' = Tail(toRabbit))
    BY <1>6 DEF Rabbit, RabbitRS, RabbitRT, ArpReply, RabbitST, PlayStart, PlayEnd,
                IgnoresProgram, Applies
  <2>4. \/ toServer' = toServer
        \/ toServer' = Append(toServer, "streaming") /\ toRabbit # <<>>
        \/ toServer' = Append(toServer, "idle") /\ rabbit.play # "none"
    BY <1>6 DEF Rabbit, RabbitRS, RabbitRT, ArpReply, RabbitST, PlayStart, PlayEnd,
                IgnoresProgram, Applies
  <2>5. rabbit' \in Rab /\ (rabbit'.play # "none" => rabbit.play # "none" \/ toRabbit # <<>>)
    BY <1>2, <1>6 DEF Rabbit, RabbitRS, RabbitRT, ArpReply, RabbitST, PlayStart, PlayEnd,
                IgnoresProgram, Applies
  <2>6. toRabbit' \in Seq({"RT", "RS", "ST"}) /\ (toRabbit' # <<>> => toRabbit # <<>>)
    <3>1. toRabbit \in Seq({"RT", "RS", "ST"})
      BY <1>1
    <3>2. CASE toRabbit # <<>> /\ toRabbit' = Tail(toRabbit)
      BY ONLY <3>1, <3>2
    <3> QED
      BY <2>3, <3>1, <3>2
  <2>7. toServer' \in Seq({"idle", "streaming", "session"})
    <3>1. toServer \in Seq({"idle", "streaming", "session"})
      BY <1>1
    <3>2. ASSUME NEW x \in {"idle", "streaming"}, toServer' = Append(toServer, x)
          PROVE  toServer' \in Seq({"idle", "streaming", "session"})
      BY ONLY <3>1, <3>2
    <3> QED
      BY <2>4, <3>1, <3>2
  <2> HIDE DEF Rab
  <2>8. Types'
    BY <1>1, <2>2, <2>5, <2>6, <2>7 DEF Types, TypeOK, threads, Rab
  <2>9. Connected'
    BY <1>1, <2>2, <2>4, <2>5, <2>6 DEF Connected
  <2> QED
    BY <2>2, <2>8, <2>9, StillStep DEF Elsewhere
<1>7. CASE GoDeaf
  <2>1. /\ scenario.deaf > 0 /\ rabbit.play = "none" /\ rabbit' = [rabbit EXCEPT !.deaf = TRUE]
        /\ scenario' = [scenario EXCEPT !.deaf = @ - 1]
        /\ UNCHANGED <<WAKE, hasListen, session, threads, wire, wanted>>
    BY <1>7 DEF GoDeaf
  <2>2. scenario' \in Scenario /\ scenario'.preempt = scenario.preempt
    <3>1. scenario \in Scenario
      BY <1>1
    <3> QED
      BY ONLY <2>1, <3>1 DEF Scenario
  <2>3. rabbit' \in Rab /\ rabbit'.play = rabbit.play
    BY <1>2, <2>1
  <2> HIDE DEF Rab
  <2>4. Types' /\ Connected'
    BY <1>1, <2>1, <2>2, <2>3 DEF Types, TypeOK, Connected, threads, wire, Rab
  <2> QED
    BY <2>1, <2>2, <2>4, StillStep DEF Elsewhere
<1> QED
  BY <1>3, <1>4, <1>5, <1>6, <1>7
-----------------------------------------------------------------------------
\* At the start nobody has anything to do, and the hold is zero.
LEMMA HoldInit ==
  ASSUME Init
  PROVE  HoldInv
<1>1. /\ scenario \in Scenario /\ MaxSess \in Nat
  BY SpeakerMicAssumption DEF Init
<1>2. Types
  <2>1. <<>> \in Seq(Ops) /\ toServer = <<>> /\ toRabbit = <<>> /\ 0 \in 0..MaxSess
    BY <1>1 DEF Init
  <2> QED
    <3>1. ctl \in [Threads -> Seq(Ops)] /\ ref \in [Threads -> 0..MaxSess] /\ copy \in [Threads -> Nat]
      BY <2>1 DEF Init
    <3>2. toServer \in Seq({"idle", "streaming", "session"}) /\ toRabbit \in Seq({"RT", "RS", "ST"})
      BY <2>1
    <3>3. /\ scenario.saved \in {"on", "off", "none"} /\ hasListen \in BOOLEAN
          /\ (scenario.saved = "on") \in BOOLEAN
      BY <1>1 DEF Init, Scenario
    <3>4. WAKE \in SomeWAKE
      BY <3>3 DEF Init, SomeWAKE
    <3>5. session \in SomeSession
      BY DEF Init, SomeSession
    <3>6. /\ sess \in 0..MaxSess /\ turn \in Threads \cup {Nobody} /\ link \in BOOLEAN
          /\ rabbit \in [streamOn : BOOLEAN, arp : BOOLEAN, rec : BOOLEAN,
                         play : {"none", "fetching", "playing", "muted"},
                         deaf : BOOLEAN, refused : BOOLEAN]
      BY <2>1 DEF Init
    <3> QED
      BY <1>1, <3>1, <3>2, <3>3, <3>4, <3>5, <3>6 DEF Types, TypeOK, SomeWAKE, SomeSession
<1>3. \A t \in Threads : ctl[t] = <<>> /\ \A x : ~Contains(ctl[t], x)
  BY NoneBegins DEF Init
<1>4. Session \in Threads /\ Workers \subseteq Threads /\ Timers \subseteq Threads
  BY ThreadFacts
<1>5. Armed /\ Paired
  BY <1>3, <1>4 DEF Armed, Paired
<1>6. Connected
  BY DEF Init, Connected
<1>7. \A t \in Threads : Good(ctl[t]) /\ Reading(t)
  BY <1>3, NoneBegins DEF Begins, Reading
<1>8. HoldIsCounted
  <2>1. With("incHold") = {} /\ With("decHold") = {} /\ WAKE.hold = 0
    BY <1>3 DEF With, Init
  <2>2. Cardinality({}) = 0
    BY FS_EmptySet
  <2> QED
    BY <2>1, <2>2 DEF HoldIsCounted
<1> QED
  BY <1>2, <1>5, <1>6, <1>7, <1>8 DEF HoldInv

\* The invariant of the codec's book-keeping, for every number of connections,
\* every setting, and however many requests, wake words and drops there are.
THEOREM HoldInvariant == Spec => []HoldInv
<1>1. HoldInv /\ [Next]_vars => HoldInv'
  <2> SUFFICES ASSUME HoldInv, [Next]_vars PROVE HoldInv'
    OBVIOUS
  <2>1. CASE UNCHANGED vars
    <3>1. UNCHANGED <<WAKE, hasListen, session, threads, wire, rabbit, wanted, scenario>>
      BY <2>1 DEF vars
    <3>2. Types' /\ Connected'
      BY <3>1 DEF HoldInv, Types, TypeOK, Connected, threads, wire
    <3> QED
      BY <3>1, <3>2, StillStep DEF Elsewhere
  <2>2. ASSUME NEW t \in Threads, Step(t) PROVE HoldInv'
    BY <2>2, StepKeeps
  <2>3. CASE SessionThread
    BY <2>3, SessionKeeps
  <2>4. ASSUME NEW request \in Requests, Ask(request) PROVE HoldInv'
    BY <2>4, AskKeeps
  <2>5. CASE LoopRearms \/ HearsWakeWord
    BY <2>5, LoopKeeps
  <2>6. CASE CooldownOver \/ Drop \/ AckTimeout \/ Connect \/ Rabbit \/ GoDeaf
    BY <2>6, OutsideKeeps
  <2> QED
    BY <2>1, <2>2, <2>3, <2>4, <2>5, <2>6 DEF Next
<1> QED
  BY <1>1, HoldInit, PTL DEF Spec

\* The variables keep their types: the hold is never negative.
THEOREM SpeakerTypes == Spec => []TypeOK
<1>1. HoldInv => TypeOK
  BY DEF HoldInv, Types
<1> QED
  BY <1>1, HoldInvariant, PTL

\* server.py's _hold_speaker and connect jingle: unless a thread is switched out
\* between the read and the write of the count, it is the number of operations
\* that have taken the hold and are still to release it.
THEOREM HoldCounted == Spec => []HoldIsCounted
<1>1. HoldInv => HoldIsCounted
  BY DEF HoldInv
<1> QED
  BY <1>1, HoldInvariant, PTL
=============================================================================
