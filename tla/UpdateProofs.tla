---------------------------- MODULE UpdateProofs ----------------------------
(***************************************************************************)
(* Update implements Firmware, for any number of keys, builds, uploads,    *)
(* sectors, failing flashes and power cuts; and a rabbit that reboots by   *)
(* itself runs what it was given.                                          *)
(***************************************************************************)
EXTENDS Update, TLAPS

\* What the running firmware may be followed by.
Trusted == {i \in Image \ {Broken} : i.sig = booted.key}

\* The body is whole once it is verified.
BodyInv ==
  /\ pc = "get" => Len(body) < 2
  /\ pc \in {"verify", "erase", "program"} => Len(body) = 2

Writing == pc \in {"erase", "program"}

\* What is being written is trusted, and stands in the sectors written so far.
WritingInv ==
  Writing => /\ New \in Trusted
             /\ \A s \in 1..Sectors : s < sector => flash[s] = New

\* A sector holds the firmware that runs, one it trusts, or nothing that runs.
SectorsInv == booted # Broken => \A s \in 1..Sectors : flash[s] \in Trusted \cup {booted, Broken}

\* While no write has failed or was cut, the flash is that of the running firmware
\* from the sector being written on, but for the one that is erased.
UnhurtInv ==
  ~hurt =>
    /\ pc # "dead"
    /\ \A s \in 1..Sectors :
         IF Writing /\ s < sector THEN TRUE
         ELSE IF pc = "program" /\ s = sector THEN flash[s] = Broken
         ELSE flash[s] = booted
    /\ pc = "program" => sector <= Sectors

\* A rabbit that started from no firmware does nothing, and finds none again.
DeadInv ==
  booted = Broken =>
    /\ pc = "dead" /\ hurt
    /\ flash[1] = Broken \/ \E s \in 1..Sectors : flash[s] # flash[1]

Inv ==
  /\ TypeOK /\ builds \in Nat /\ (pc = "program" => sector <= Sectors)
  /\ BodyInv /\ WritingInv /\ SectorsInv /\ UnhurtInv /\ DeadInv
-----------------------------------------------------------------------------
\* The requests, files and images the model starts from are of their types.
LEMMA ConstantTypes ==
  /\ Nothing \in Sim /\ Idle \in Request /\ Broken \in Image
  /\ Factory \in Image /\ Factory # Broken
BY DEF Nothing, Sim, Unsigned, Idle, Request, Broken, Factory, Image

\* What /api/ota stages is a .sim, whichever way it came.
LEMMA BlobType == ASSUME NEW s \in Sim, NEW way PROVE Blob(s, way) \in Sim
BY DEF Blob, Sim

\* A firmware that is accepted is one the running firmware trusts.
LEMMA AcceptedIsTrusted ==
  ASSUME Inv, pc = "verify", Accepts(body)
  PROVE  New \in Trusted
<1>1. body[1] \in Sim /\ body[2] \in Sim
  <2>1. body \in Seq(Sim) /\ Len(body) = 2
    BY DEF Inv, TypeOK, BodyInv
  <2> QED  BY <2>1
<1>2. body[1].sig # Unsigned /\ body[1].sig = booted.key
  BY DEF Accepts
<1>3. New \in Image /\ New.sig = body[1].sig
  BY <1>1 DEF New, Image, Sim
<1> QED  BY <1>2, <1>3 DEF Trusted, Broken

\* What the rabbit finds when it starts: what it left, a firmware it trusted, or none.
LEMMA BootsFinds ==
  ASSUME Inv, Boots, booted # Broken
  PROVE  /\ booted' \in Trusted \cup {booted, Broken}
         /\ booted' # Broken => \A s \in 1..Sectors : flash[s] = booted'
         /\ booted' = Broken => flash[1] = Broken \/ \E s \in 1..Sectors : flash[s] # flash[1]
<1>1. 1 \in 1..Sectors
  BY UpdateAssumption
<1> QED  BY <1>1 DEF Inv, SectorsInv, Boots
-----------------------------------------------------------------------------
\* The model starts from a whole firmware and nothing staged.
LEMMA InitInv == Init => Inv
<1> SUFFICES ASSUME Init PROVE Inv
  OBVIOUS
<1> USE UpdateAssumption, ConstantTypes
<1>1. TypeOK
  <2>1. up \in [Uploads -> Request] /\ flash \in [1..Sectors -> Image] /\ file \in [1..2 -> Sim]
    BY DEF Init
  <2>2. body \in Seq(Sim) /\ Len(body) = 0 /\ sector \in 1..Sectors + 1
    BY DEF Init
  <2>3. {priv, header} \subseteq 0..MaxKeys /\ sims \subseteq Sim
    BY DEF Init
  <2>4. fw \in BOOLEAN /\ hurt \in BOOLEAN /\ pc = "run" /\ told = "nothing"
        /\ booted \in Image /\ asked \in Request
    BY DEF Init
  <2> QED  BY <2>1, <2>2, <2>3, <2>4 DEF TypeOK
<1>2. BodyInv /\ WritingInv /\ builds \in Nat /\ (pc = "program" => sector <= Sectors)
  BY DEF Init, BodyInv, WritingInv, Writing
<1>3. SectorsInv /\ UnhurtInv /\ DeadInv
  BY DEF Init, SectorsInv, UnhurtInv, DeadInv, Writing
<1> QED  BY <1>1, <1>2, <1>3 DEF Inv

\* The tools and the server do not touch the rabbit.
LEMMA RabbitAside ==
  ASSUME Inv, TypeOK', builds' \in Nat, UNCHANGED <<rabbit, hurt>>
  PROVE  Inv'
<1>1. UNCHANGED <<pc, body, sector, flash, booted, hurt>>
  BY DEF rabbit
<1>2. New' = New /\ Trusted' = Trusted /\ Writing' = Writing
  BY <1>1 DEF New, Trusted, Writing
<1> QED  BY <1>1, <1>2 DEF Inv, BodyInv, WritingInv, SectorsInv, UnhurtInv, DeadInv

\* gen_key.py, the build and sign_sim.py.
LEMMA ToolsInv == ASSUME Inv, GenKey \/ Build \/ Sign PROVE Inv'
<1>1. UNCHANGED <<server, fw, rabbit, histories>>
  BY DEF GenKey, Build, Sign
<1>2. UNCHANGED <<up, file, fw, pc, body, sector, flash, booted, hurt, asked, told>>
  BY <1>1 DEF server, rabbit, histories
<1>3. /\ {priv, header} \subseteq 0..MaxKeys /\ sims \subseteq Sim /\ builds \in Nat
      /\ MaxKeys \in Nat
  BY UpdateAssumption DEF Inv, TypeOK
<1>4. {priv', header'} \subseteq 0..MaxKeys /\ sims' \subseteq Sim /\ builds' \in Nat
  <2>1. CASE GenKey
    BY <2>1, <1>3 DEF GenKey
  <2>2. CASE Build
    <3>1. [ver |-> builds', key |-> header, sig |-> Unsigned, closed |-> FALSE] \in Sim
      <4>1. builds' \in Nat /\ header \in Nat
        BY <2>2, <1>3 DEF Build
      <4> QED  BY <4>1 DEF Sim
    <3>2. builds' = builds + 1 /\ priv' = priv /\ header' = header
          /\ sims' = sims \cup {[ver |-> builds', key |-> header, sig |-> Unsigned, closed |-> FALSE]}
      BY <2>2 DEF Build
    <3>3. builds' \in Nat
      BY <3>2, <1>3
    <3>4. sims' \subseteq Sim
      BY <3>1, <3>2, <1>3
    <3>5. {priv', header'} \subseteq 0..MaxKeys
      BY <3>2, <1>3
    <3> QED  BY <3>3, <3>4, <3>5
  <2>3. CASE Sign
    <3>1. PICK s \in sims, seed \in 0..priv :
            sims' = sims \cup {[s EXCEPT !.sig = seed, !.closed = TRUE]}
      BY <2>3 DEF Sign
    <3>2. [s EXCEPT !.sig = seed, !.closed = TRUE] \in Sim
      <4>1. s \in Sim /\ seed \in Nat
        BY <3>1, <1>3
      <4> QED  BY <4>1 DEF Sim
    <3> QED  BY <2>3, <3>1, <3>2, <1>3 DEF Sign
  <2> QED  BY <2>1, <2>2, <2>3
<1>5. TypeOK'
  BY <1>2, <1>4 DEF Inv, TypeOK
<1> QED  BY <1>1, <1>4, <1>5, RabbitAside DEF histories

\* /api/ota: any number of requests at once.
LEMMA ServerInv ==
  ASSUME Inv, NEW u \in Uploads, Stage(u) \/ WriteStaged(u) \/ Trigger(u)
  PROVE  Inv'
<1>1. UNCHANGED <<tools, rabbit, hurt, told>>
  BY DEF Stage, WriteStaged, Trigger, histories
<1>2. UNCHANGED <<priv, header, sims, builds, pc, body, sector, flash, booted, hurt, told>>
  BY <1>1 DEF tools, rabbit
<1>3. up \in [Uploads -> Request] /\ file \in [1..2 -> Sim] /\ sims \subseteq Sim
      /\ fw \in BOOLEAN /\ asked \in Request
  BY DEF Inv, TypeOK
<1>4. up' \in [Uploads -> Request] /\ file' \in [1..2 -> Sim] /\ fw' \in BOOLEAN
      /\ asked' \in Request
  <2>1. CASE Stage(u)
    <3>1. PICK s \in sims, way \in Ways :
            up' = [v \in Uploads |->
                     IF v # u THEN [up[v] EXCEPT !.alone = FALSE]
                     ELSE [sim |-> s, way |-> way, half |-> 1,
                           alone |-> \A w \in Uploads \ {u} : up[w] = Idle]]
      BY <2>1 DEF Stage
    <3>2. \A v \in Uploads : [up[v] EXCEPT !.alone = FALSE] \in Request
      BY <1>3 DEF Request
    <3> DEFINE alone == \A w \in Uploads \ {u} : up[w] = Idle
    <3>3. alone \in BOOLEAN
      OBVIOUS
    <3> HIDE DEF alone
    <3>4. [sim |-> s, way |-> way, half |-> 1, alone |-> alone] \in Request
      BY <3>1, <3>3, <1>3, UpdateAssumption DEF Request
    <3>5. up' \in [Uploads -> Request]
      BY <3>1, <3>2, <3>4 DEF alone
    <3>6. file' = <<Nothing, Nothing>> /\ asked' = Idle /\ fw' = fw
      BY <2>1 DEF Stage
    <3> QED  BY <3>5, <3>6, <1>3, ConstantTypes
  <2>2. CASE WriteStaged(u)
    <3>1. up[u] \in Request /\ up[u].half \in 1..2 /\ up[u].sim \in Sim
      BY <2>2, <1>3 DEF WriteStaged, Request
    <3>2. Blob(up[u].sim, up[u].way) \in Sim
      BY <3>1, BlobType
    <3>3. [up[u] EXCEPT !.half = @ + 1] \in Request
      BY <3>1 DEF Request
    <3>4. file' = [file EXCEPT ![up[u].half] = Blob(up[u].sim, up[u].way)]
          /\ up' = [up EXCEPT ![u] = [up[u] EXCEPT !.half = @ + 1]]
          /\ fw' = fw /\ asked' = asked
      BY <2>2, <1>3 DEF WriteStaged, histories
    <3> QED  BY <3>2, <3>3, <3>4, <1>3
  <2>3. CASE Trigger(u)
    <3>1. up' = [up EXCEPT ![u] = Idle] /\ file' = file /\ fw' \in BOOLEAN
          /\ asked' \in {asked, up[u], Idle}
      BY <2>3, <1>3 DEF Trigger
    <3> QED  BY <3>1, <1>3, ConstantTypes
  <2> QED  BY <2>1, <2>2, <2>3
<1>5. TypeOK'
  BY <1>2, <1>4 DEF Inv, TypeOK
<1> QED  BY <1>1, <1>2, <1>5, RabbitAside DEF Inv
-----------------------------------------------------------------------------
\* The rabbit's steps before it writes.
LEMMA FetchingInv ==
  ASSUME Inv, ReceiveFW \/ Download \/ ConfigUpload
  PROVE  Inv'
<1>1. UNCHANGED <<tools, server, sector, flash, booted, hurt, asked, told>>
  BY DEF ReceiveFW, Download, ConfigUpload, histories
<1>2. UNCHANGED <<priv, header, sims, builds, up, file, sector, flash, booted, hurt, asked, told>>
  BY <1>1 DEF tools, server
<1>3. /\ pc \in {"run", "get"} /\ pc' \in {"get", "verify"} /\ fw' \in BOOLEAN
      /\ body' \in Seq(Sim) /\ Len(body') <= 2
      /\ pc' = "get" => Len(body') < 2
      /\ pc' = "verify" => Len(body') = 2
  <2>1. CASE ReceiveFW
    <3>1. pc = "run" /\ fw' \in BOOLEAN /\ pc' = "get" /\ body' = <<>>
      BY <2>1 DEF ReceiveFW
    <3>2. body' \in Seq(Sim) /\ Len(body') = 0
      BY <3>1
    <3> QED  BY <3>1, <3>2
  <2>2. CASE Download
    <3>1. body \in Seq(Sim) /\ Len(body) < 2 /\ Len(body) + 1 \in 1..2 /\ fw \in BOOLEAN
      BY <2>2 DEF Download, Inv, TypeOK, BodyInv
    <3>2. file[Len(body) + 1] \in Sim
      BY <3>1 DEF Inv, TypeOK
    <3> QED  BY <2>2, <3>1, <3>2 DEF Download
  <2>3. CASE ConfigUpload
    <3>1. PICK s \in sims : body' = <<s, s>>
      BY <2>3 DEF ConfigUpload
    <3>2. s \in Sim
      BY <3>1 DEF Inv, TypeOK
    <3>3. body' \in Seq(Sim) /\ Len(body') = 2
      BY <3>1, <3>2
    <3>4. pc = "run" /\ pc' = "verify" /\ fw' \in BOOLEAN
      BY <2>3 DEF ConfigUpload
    <3> QED  BY <3>3, <3>4
  <2> QED  BY <2>1, <2>2, <2>3
<1>4. TypeOK'
  BY <1>2, <1>3 DEF Inv, TypeOK
<1>5. ~Writing /\ ~Writing' /\ pc' # "program" /\ pc' # "dead" /\ Trusted' = Trusted
  BY <1>2, <1>3 DEF Writing, Trusted
<1>6. BodyInv' /\ WritingInv' /\ SectorsInv' /\ DeadInv'
  BY <1>2, <1>3, <1>5 DEF Inv, BodyInv, WritingInv, SectorsInv, DeadInv
<1>7. UnhurtInv'
  BY <1>2, <1>3, <1>5 DEF Inv, UnhurtInv
<1> QED  BY <1>2, <1>4, <1>5, <1>6, <1>7 DEF Inv

\* The signature is looked at before anything is written.
LEMMA VerifyInv == ASSUME Inv, Verify PROVE Inv'
<1>1. UNCHANGED <<tools, server, fw, flash, booted, hurt, asked>>
  BY DEF Verify
<1>2. UNCHANGED <<priv, header, sims, builds, up, file, fw, flash, booted, hurt, asked>>
  BY <1>1 DEF tools, server
<1>3. pc = "verify" /\ told' = "nothing" /\ ~Writing /\ Trusted' = Trusted
  BY <1>2 DEF Verify, Writing, Trusted
<1>4. CASE Accepts(body)
  <2>1. pc' = "erase" /\ sector' = 1 /\ body' = body
    BY <1>4 DEF Verify
  <2>2. New' \in Trusted'
    BY <1>3, <1>4, <2>1, AcceptedIsTrusted DEF New
  <2>3. TypeOK'
    BY <1>2, <1>3, <2>1, UpdateAssumption DEF Inv, TypeOK
  <2>4. BodyInv' /\ WritingInv' /\ SectorsInv' /\ DeadInv'
    BY <1>2, <1>3, <2>1, <2>2 DEF Inv, BodyInv, WritingInv, SectorsInv, DeadInv
  <2>5. UnhurtInv'
    BY <1>2, <1>3, <2>1 DEF Inv, UnhurtInv
  <2> QED  BY <1>2, <2>1, <2>3, <2>4, <2>5 DEF Inv
<1>5. CASE ~Accepts(body)
  <2>1. pc' = "run" /\ sector' = sector /\ body' = <<>>
    BY <1>5 DEF Verify
  <2>2. TypeOK'
    BY <1>2, <1>3, <2>1 DEF Inv, TypeOK
  <2>3. BodyInv' /\ WritingInv' /\ SectorsInv' /\ DeadInv'
    BY <1>2, <1>3, <2>1 DEF Inv, BodyInv, WritingInv, Writing, SectorsInv, DeadInv
  <2>4. UnhurtInv'
    BY <1>2, <1>3, <2>1 DEF Inv, UnhurtInv, Writing
  <2> QED  BY <1>2, <2>1, <2>2, <2>3, <2>4 DEF Inv
<1> QED  BY <1>4, <1>5

\* A flash that does not take leaves each sector as it is, or broken.
LEMMA FlashFailsInv ==
  ASSUME Inv, FlashFails, Writing,
         UNCHANGED <<tools, server, fw, booted, asked>>,
         flash' \in [1..Sectors -> Image],
         \A s \in 1..Sectors : flash'[s] \in {flash[s], Broken}
  PROVE  Inv'
<1>1. UNCHANGED <<priv, header, sims, builds, up, file, fw, booted, asked, sector>>
  BY DEF tools, server, FlashFails
<1>2. hurt' = TRUE /\ pc' \in {"run", "dead"} /\ told' = "unchanged" /\ body' = <<>>
  BY DEF FlashFails
<1>3. booted # Broken /\ Trusted' = Trusted /\ ~Writing'
  BY <1>1, <1>2 DEF Inv, DeadInv, Writing, Trusted
<1>4. TypeOK'
  BY <1>1, <1>2 DEF Inv, TypeOK
<1> QED
  BY <1>1, <1>2, <1>3, <1>4 DEF Inv, BodyInv, WritingInv, SectorsInv, UnhurtInv, DeadInv

\* Erasing a sector, and writing it.
LEMMA EraseInv == ASSUME Inv, Erase PROVE Inv'
<1>1. UNCHANGED <<tools, server, fw, booted, asked>> /\ pc = "erase" /\ sector <= Sectors
      /\ Writing
  BY DEF Erase, Writing
<1>2. CASE FlashFails /\ flash' \in {flash, [flash EXCEPT ![sector] = Broken]}
  <2>1. flash \in [1..Sectors -> Image]
    BY DEF Inv, TypeOK
  <2>2. /\ flash' \in [1..Sectors -> Image]
        /\ \A s \in 1..Sectors : flash'[s] \in {flash[s], Broken}
    BY <1>2, <2>1, ConstantTypes
  <2> QED  BY <1>1, <1>2, <2>2, FlashFailsInv
<1>3. CASE /\ flash' = [flash EXCEPT ![sector] = Broken] /\ pc' = "program"
           /\ UNCHANGED <<sector, body, hurt, told>>
  <2>1. UNCHANGED <<priv, header, sims, builds, up, file, fw, booted, asked>>
    BY <1>1 DEF tools, server
  <2>2. sector \in 1..Sectors /\ flash \in [1..Sectors -> Image]
    BY <1>1, UpdateAssumption DEF Inv, TypeOK
  <2>3. /\ flash' \in [1..Sectors -> Image] /\ flash'[sector] = Broken
        /\ \A s \in 1..Sectors : s # sector => flash'[s] = flash[s]
    BY <1>3, <2>2, ConstantTypes
  <2>4. TypeOK'
    BY <1>3, <2>1, <2>3 DEF Inv, TypeOK
  <2>5. New' = New /\ Trusted' = Trusted /\ Writing' /\ booted # Broken
    BY <1>1, <1>3, <2>1 DEF Inv, New, Trusted, Writing, DeadInv
  <2>6. BodyInv' /\ WritingInv' /\ SectorsInv' /\ DeadInv'
    BY <1>1, <1>3, <2>1, <2>2, <2>3, <2>5
       DEF Inv, BodyInv, WritingInv, SectorsInv, DeadInv
  <2>7. UnhurtInv'
    BY <1>1, <1>3, <2>1, <2>2, <2>3, <2>5 DEF Inv, UnhurtInv
  <2> QED  BY <1>1, <1>3, <2>1, <2>4, <2>6, <2>7 DEF Inv
<1> QED  BY <1>2, <1>3 DEF Erase

\* Writing an erased sector puts the new firmware there, and goes on to the next.
LEMMA ProgramInv == ASSUME Inv, Program PROVE Inv'
<1>1. UNCHANGED <<tools, server, fw, booted, asked>> /\ pc = "program" /\ Writing
  BY DEF Program, Writing
<1>2. CASE FlashFails /\ UNCHANGED flash
  BY <1>1, <1>2, FlashFailsInv DEF Inv, TypeOK
<1>3. CASE /\ flash' = [flash EXCEPT ![sector] = New] /\ pc' = "erase" /\ sector' = sector + 1
           /\ UNCHANGED <<body, hurt, told>>
  <2>1. UNCHANGED <<priv, header, sims, builds, up, file, fw, booted, asked>>
    BY <1>1 DEF tools, server
  <2>2. sector \in 1..Sectors /\ flash \in [1..Sectors -> Image] /\ New \in Trusted
    BY <1>1, UpdateAssumption DEF Inv, TypeOK, WritingInv
  <2>3. /\ flash' \in [1..Sectors -> Image] /\ flash'[sector] = New
        /\ \A s \in 1..Sectors : s # sector => flash'[s] = flash[s]
    BY <1>3, <2>2 DEF Trusted
  <2>4. sector' \in 1..Sectors + 1
    BY <1>3, <2>2, UpdateAssumption
  <2>5. TypeOK'
    BY <1>3, <2>1, <2>3, <2>4 DEF Inv, TypeOK
  <2>6. New' = New /\ Trusted' = Trusted /\ Writing' /\ booted # Broken
    BY <1>1, <1>3, <2>1 DEF Inv, New, Trusted, Writing, DeadInv
  <2>7. \A s \in 1..Sectors : s < sector' => s < sector \/ s = sector
    BY <1>3, <2>2, UpdateAssumption
  <2>8. BodyInv' /\ WritingInv' /\ SectorsInv' /\ DeadInv'
    BY <1>1, <1>3, <2>1, <2>2, <2>3, <2>6, <2>7
       DEF Inv, BodyInv, WritingInv, SectorsInv, DeadInv
  <2>9. UnhurtInv'
    BY <1>1, <1>3, <2>1, <2>2, <2>3, <2>6, <2>7, UpdateAssumption DEF Inv, UnhurtInv
  <2> QED  BY <1>1, <1>3, <2>1, <2>5, <2>8, <2>9 DEF Inv
<1> QED  BY <1>2, <1>3 DEF Program
-----------------------------------------------------------------------------
\* The rabbit starts from a firmware that is whole, or stays dead.
LEMMA BootsInv ==
  ASSUME Inv, Boots, UNCHANGED <<tools, server, sector, flash, asked, told>>,
         hurt' \in BOOLEAN, booted' = Broken => hurt', hurt => hurt'
  PROVE  Inv'
<1>1. UNCHANGED <<priv, header, sims, builds, up, file, sector, flash, asked, told>>
  BY DEF tools, server
<1>2. /\ pc' = IF booted' = Broken THEN "dead" ELSE "run"
      /\ body' = <<>> /\ fw' = FALSE
  BY DEF Boots
<1>3. flash[1] \in Image
  BY UpdateAssumption DEF Inv, TypeOK
<1>4. /\ booted' \in Image
      /\ booted' # Broken => \A s \in 1..Sectors : flash[s] = booted'
      /\ booted' = Broken => flash[1] = Broken \/ \E s \in 1..Sectors : flash[s] # flash[1]
  BY <1>3, ConstantTypes DEF Boots
<1>5. TypeOK'
  <2>1. body' \in Seq(Sim) /\ Len(body') = 0
    BY <1>2
  <2>2. pc' \in {"run", "dead"} /\ fw' \in BOOLEAN
    BY <1>2, Zenon
  <2> QED  BY <1>1, <1>4, <2>1, <2>2 DEF Inv, TypeOK
<1>6. ~Writing' /\ pc' \in {"run", "dead"}
  BY <1>2 DEF Writing
<1>7. BodyInv' /\ WritingInv'
  BY <1>6 DEF BodyInv, WritingInv, Writing
<1>8. SectorsInv'
  BY <1>1, <1>4 DEF SectorsInv
<1>9. DeadInv'
  BY <1>1, <1>2, <1>4 DEF DeadInv
<1>10. UnhurtInv'
  BY <1>1, <1>2, <1>4, <1>6 DEF UnhurtInv
<1> QED  BY <1>1, <1>5, <1>6, <1>7, <1>8, <1>9, <1>10 DEF Inv

\* The reset that ends a flash starts the firmware that was written.
LEMMA ResetStartsNew == ASSUME Inv, Reset PROVE booted' = New /\ New \in Trusted
<1>1. pc = "erase" /\ sector > Sectors /\ sector \in Nat /\ Sectors \in Nat \ {0} /\ Boots
  BY UpdateAssumption DEF Reset, Inv, TypeOK
<1>2. New \in Trusted /\ \A s \in 1..Sectors : flash[s] = New
  BY <1>1 DEF Inv, WritingInv, Writing
<1> QED  BY <1>1, <1>2 DEF Boots

\* The reset leaves a rabbit that runs the whole of what it was given.
LEMMA ResetInv == ASSUME Inv, Reset PROVE Inv'
<1>1. UNCHANGED <<tools, server, sector, flash, asked, told, hurt>> /\ Boots
  BY DEF Reset, histories
<1>2. booted' # Broken
  BY ResetStartsNew DEF Trusted
<1> QED  BY <1>1, <1>2, BootsInv DEF Inv, TypeOK

\* A power cut that finds no write under way starts what was running, or what was
\* written whole; one that finds none at all has cut a write, or comes after a
\* failed one.
LEMMA PowerCutFinds ==
  ASSUME Inv, PowerCut
  PROVE  /\ booted' = Broken => hurt'
         /\ booted' # booted /\ booted' # Broken =>
              booted # Broken /\ booted' \in Trusted /\ hurt' = hurt
<1>1. /\ Boots /\ hurt \in BOOLEAN /\ 1 \in 1..Sectors
      /\ hurt' = (hurt \/ pc = "program" \/ (pc = "erase" /\ sector \in 2..Sectors))
      /\ sector \in 1..Sectors + 1 /\ Sectors \in Nat \ {0}
  BY UpdateAssumption DEF PowerCut, Inv, TypeOK
<1>2. /\ booted' # Broken => \A s \in 1..Sectors : flash[s] = booted'
      /\ booted' = Broken => flash[1] = Broken \/ \E s \in 1..Sectors : flash[s] # flash[1]
  BY <1>1 DEF Boots
<1>3. CASE booted = Broken
  BY <1>1, <1>2, <1>3 DEF Inv, DeadInv
<1>4. CASE booted # Broken /\ hurt
  BY <1>1, <1>2, <1>4 DEF Inv, SectorsInv
<1>5. CASE booted # Broken /\ ~hurt /\ hurt'
  <2>1. pc = "program" \/ (pc = "erase" /\ sector \in 2..Sectors)
    BY <1>1, <1>5
  <2>2. sector \in 1..Sectors
    BY <1>1, <2>1 DEF Inv
  <2>3. flash[sector] \in {Broken, booted}
    BY <1>5, <2>1, <2>2 DEF Inv, UnhurtInv, Writing
  <2> QED  BY <1>2, <1>5, <2>2, <2>3
<1>6. CASE booted # Broken /\ ~hurt /\ ~hurt'
  <2>1. pc # "program" /\ ~(pc = "erase" /\ sector \in 2..Sectors)
    BY <1>1, <1>6
  <2>2. CASE pc = "erase" /\ sector > Sectors
    <3>1. New \in Trusted /\ \A s \in 1..Sectors : flash[s] = New
      BY <1>1, <2>2 DEF Inv, WritingInv, Writing
    <3>2. booted' = New
      BY <1>1, <3>1 DEF Boots, Trusted
    <3> QED  BY <1>1, <1>6, <3>1, <3>2 DEF Trusted
  <2>3. CASE ~(pc = "erase" /\ sector > Sectors)
    <3>1. ~Writing \/ sector = 1
      BY <1>1, <2>1, <2>3 DEF Writing
    <3>2. \A s \in 1..Sectors : flash[s] = booted
      BY <1>1, <1>6, <2>1, <3>1 DEF Inv, UnhurtInv
    <3> QED  BY <1>1, <1>6, <3>2 DEF Boots
  <2> QED  BY <2>2, <2>3
<1> QED  BY <1>1, <1>3, <1>4, <1>5, <1>6

\* A power cut leaves a rabbit that runs a whole firmware, or none and hurt.
LEMMA PowerCutInv == ASSUME Inv, PowerCut PROVE Inv'
<1>1. /\ Boots /\ UNCHANGED <<tools, server, sector, flash, asked, told>>
      /\ hurt' = (hurt \/ pc = "program" \/ (pc = "erase" /\ sector \in 2..Sectors))
      /\ hurt \in BOOLEAN
  BY DEF PowerCut, Inv, TypeOK
<1>2. hurt' \in BOOLEAN /\ (hurt => hurt')
  BY <1>1
<1> QED  BY <1>1, <1>2, PowerCutFinds, BootsInv
-----------------------------------------------------------------------------
\* Every step of the tools, the server, the rabbit and its power keeps the invariant.
LEMMA NextInv == Inv /\ [Next]_vars => Inv'
<1> SUFFICES ASSUME Inv, [Next]_vars PROVE Inv'
  OBVIOUS
<1>1. CASE GenKey \/ Build \/ Sign
  BY <1>1, ToolsInv
<1>2. ASSUME NEW u \in Uploads, Stage(u) \/ Server(u) PROVE Inv'
  BY <1>2, ServerInv DEF Server
<1>3. CASE ConfigUpload
  BY <1>3, FetchingInv
<1>4. CASE Rabbit
  BY <1>4, FetchingInv, VerifyInv, EraseInv, ProgramInv, ResetInv DEF Rabbit
<1>5. CASE PowerCut
  BY <1>5, PowerCutInv
<1>6. CASE UNCHANGED vars
  <2>1. UNCHANGED <<tools, server, fw, rabbit, histories>>
    BY <1>6 DEF vars
  <2>2. TypeOK' /\ builds' \in Nat
    BY <2>1 DEF tools, server, rabbit, histories, Inv, TypeOK
  <2> QED  BY <2>1, <2>2, RabbitAside DEF histories
<1> QED  BY <1>1, <1>2, <1>3, <1>4, <1>5, <1>6 DEF Next

\* The inductive invariant of an update.
THEOREM UpdateInvariant == Spec => []Inv
<1>1. Spec => Init /\ [][Next]_vars
  BY PTL DEF Spec
<1> QED  BY <1>1, InitInv, NextInv, PTL

\* Whatever is uploaded, torn, trimmed or cut, every variable keeps its type.
THEOREM UpdateTypes == Spec => []TypeOK
<1>1. Inv => TypeOK
  BY DEF Inv
<1> QED  BY <1>1, UpdateInvariant, PTL

\* flash_uc: a rabbit resets itself only once every sector holds what it was given.
THEOREM RebootIsFlashed == Spec => RebootMeansFlashed
<1>1. Inv /\ [Next]_vars => [Reset => booted' = New]_vars
  BY ResetStartsNew
<1>2. Spec => Init /\ [][Next]_vars
  BY PTL DEF Spec
<1> QED  BY <1>1, <1>2, UpdateInvariant, PTL DEF RebootMeansFlashed

\* Every step leaves the firmware that runs alone, installs one that it trusts, or
\* follows a write that failed or was cut.
LEMMA StepsKeepPromise ==
  Inv /\ [Next]_vars => [Promise!Install \/ Promise!Fail]_<<booted, hurt>>
<1> SUFFICES ASSUME Inv, [Next]_vars, ~UNCHANGED <<booted, hurt>>
             PROVE  Promise!Install \/ Promise!Fail
  OBVIOUS
<1>1. CASE GenKey \/ Build \/ Sign \/ ConfigUpload
  BY <1>1 DEF GenKey, Build, Sign, ConfigUpload, rabbit, histories
<1>2. ASSUME NEW u \in Uploads, Stage(u) \/ Server(u)
      PROVE  UNCHANGED <<booted, hurt>>
  BY <1>2 DEF Stage, Server, WriteStaged, Trigger, rabbit, histories
<1>3. CASE ReceiveFW \/ Download \/ Verify
  BY <1>3 DEF ReceiveFW, Download, Verify, histories
<1>4. CASE Erase \/ Program
  BY <1>4 DEF Erase, Program, FlashFails, Promise!Fail
<1>5. CASE Reset
  <2>1. booted' \in Trusted /\ hurt' = hurt
    BY <1>5, ResetStartsNew DEF Reset, histories
  <2>2. booted # Broken
    BY <1>5 DEF Reset, Inv, DeadInv
  <2> QED  BY <2>1, <2>2 DEF Promise!Install, Trusted
<1>6. CASE PowerCut
  <2>1. /\ booted' = Broken => hurt'
        /\ booted' # booted /\ booted' # Broken =>
              booted # Broken /\ booted' \in Trusted /\ hurt' = hurt
    BY <1>6, PowerCutFinds
  <2>2. hurt \in BOOLEAN /\ hurt' \in BOOLEAN /\ (hurt => hurt')
    BY <1>6 DEF PowerCut, Inv, TypeOK
  <2>3. CASE booted' # booted /\ booted' # Broken
    BY <2>1, <2>3 DEF Promise!Install, Trusted
  <2>4. CASE booted' = booted \/ booted' = Broken
    <3>1. hurt' = TRUE
      BY <2>1, <2>2, <2>4
    <3> QED  BY <2>4, <3>1 DEF Promise!Fail
  <2> QED  BY <2>3, <2>4
<1>7. CASE UNCHANGED vars
  BY <1>7 DEF vars, rabbit, histories
<1> QED  BY <1>1, <1>2, <1>3, <1>4, <1>5, <1>6, <1>7 DEF Next, Rabbit

\* The detailed update implements the abstract one: the rabbit goes from one whole
\* firmware to another it trusts, and has none only after a write that was hurt.
THEOREM FirmwareImplemented == Spec => ImplementsFirmware
<1>1. Init => Promise!Init
  BY ConstantTypes DEF Init, Promise!Init
<1>2. Spec => Init /\ [][Next]_vars
  BY PTL DEF Spec
<1> QED
  BY <1>1, <1>2, StepsKeepPromise, UpdateInvariant, PTL DEF ImplementsFirmware, Promise!Spec
=============================================================================
