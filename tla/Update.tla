------------------------------- MODULE Update -------------------------------
(***************************************************************************)
(* A firmware, from the signing key to the flash (gen_key.py, sign_sim.py, *)
(* /api/ota and /ota/ of server.py, fwota.mtl, and the flash writer as     *)
(* apply-mods.py leaves it).                                               *)
(*                                                                         *)
(* A .sim is its version, the public key compiled into it and the key it   *)
(* is signed with; the staged file and the body the rabbit downloads are   *)
(* two halves, as the file may be read while it is being written.  Keys    *)
(* are numbered in the order they are generated.                           *)
(***************************************************************************)
EXTENDS Integers, Sequences

CONSTANTS Uploads,     \* the requests that may be made to /api/ota
          Ways,        \* how they bring the file: "path", "multipart"
          Sectors,     \* sectors of the flash a firmware takes
          MaxKeys, MaxBuilds,
          MaxTries,    \* updates tried, by trigger or in configuration mode
          MaxTroubles  \* failures of the flash and power cuts

ASSUME UpdateAssumption ==
  /\ Ways \subseteq {"path", "multipart"} /\ Sectors \in Nat \ {0}
  /\ {MaxKeys, MaxBuilds, MaxTries, MaxTroubles} \subseteq Nat

Unsigned == -1
Image == [ver : Nat, key : Nat, sig : Nat \cup {Unsigned}]
Sim == [ver : Nat, key : Nat, sig : Nat \cup {Unsigned}, closed : BOOLEAN]
Nothing == [ver |-> 0, key |-> 0, sig |-> Unsigned, closed |-> FALSE]
Broken == [ver |-> 0, key |-> 0, sig |-> Unsigned]
Factory == [ver |-> 1, key |-> 0, sig |-> 0]

VARIABLES priv, header,  \* the signing seed, and the key in signing_pubkey.h
          sims,          \* the .sim files built, signed or not
          up,            \* per request: the file it brings, which half it writes next, and
                         \*   whether no other has been in progress since it came
          file,          \* OTA_DIR/firmware.signed.sim
          fw,            \* an FW program is on its way to the rabbit
          pc, body,      \* the rabbit: what it is doing, what it has downloaded
          sector, flash, \* the sector it writes next, and its flash
          booted,        \* the firmware it started from
          hurt,          \* histories: a write of the flash failed or was cut,
          asked,         \*   the request last triggered, if no other came between,
          told,          \*   and what the bytecode made of the flash's status
          builds, tries, troubles

tools == <<priv, header, sims, builds>>
server == <<up, file>>
rabbit == <<pc, body, sector, flash, booted>>
histories == <<hurt, asked, told>>
vars == <<tools, server, fw, rabbit, histories, tries, troubles>>

Request == [sim : Sim, way : Ways \cup {"none"}, half : 0..3, alone : BOOLEAN]
Idle == [sim |-> Nothing, way |-> "none", half |-> 0, alone |-> FALSE]

Init ==
  /\ priv = 0 /\ header = 0 /\ sims = {}
  /\ up = [u \in Uploads |-> Idle] /\ file = <<Nothing, Nothing>> /\ fw = FALSE
  /\ pc = "run" /\ body = <<>> /\ sector = 1
  /\ flash = [s \in 1..Sectors |-> Factory] /\ booted = Factory
  /\ hurt = FALSE /\ asked = Idle /\ told = "nothing"
  /\ builds = 1 /\ tries = 0 /\ troubles = 0
-----------------------------------------------------------------------------
\* gen_key.py --force: the seed first, then the header; it may die in between.
GenKey ==
  /\ \/ priv < MaxKeys /\ priv' = priv + 1 /\ UNCHANGED header
     \/ header # priv /\ header' = priv /\ UNCHANGED priv
  /\ UNCHANGED <<sims, builds, server, fw, rabbit, histories, tries, troubles>>

\* The firmware takes its key from the header.
Build ==
  /\ builds < MaxBuilds /\ builds' = builds + 1
  /\ sims' = sims \cup {[ver |-> builds', key |-> header, sig |-> Unsigned, closed |-> FALSE]}
  /\ UNCHANGED <<priv, header, server, fw, rabbit, histories, tries, troubles>>

\* sign_sim.py, which refuses a file that is signed; --priv may name an older seed.
Sign ==
  /\ \E s \in sims, seed \in 0..priv :
       /\ s.sig = Unsigned
       /\ sims' = sims \cup {[s EXCEPT !.sig = seed, !.closed = TRUE]}
  /\ UNCHANGED <<priv, header, builds, server, fw, rabbit, histories, tries, troubles>>
-----------------------------------------------------------------------------
\* Mutant: the file on the host is trimmed as an upload is.
BlobAlwaysTrimmed(s, way) == [s EXCEPT !.closed = FALSE]

\* What /api/ota makes of the file it is given.  The end of a multipart part is
\* trimmed of line ends and dashes, the last dash of the closing -sig- included.
Blob(s, way) == IF way = "multipart" THEN [s EXCEPT !.closed = FALSE] ELSE s

\* It opens the staged file, which truncates it; an unsigned .sim is a 400.
Stage(u) ==
  /\ up[u] = Idle
  /\ \E s \in sims, way \in Ways :
       /\ s.sig # Unsigned
       /\ up' = [v \in Uploads |->
            IF v # u THEN [up[v] EXCEPT !.alone = FALSE]
            ELSE [sim |-> s, way |-> way, half |-> 1,
                  alone |-> \A w \in Uploads \ {u} : up[w] = Idle]]
  /\ file' = <<Nothing, Nothing>>
  /\ asked' = Idle
  /\ UNCHANGED <<tools, fw, rabbit, hurt, told, tries, troubles>>

\* Mutant: it does not see that the file is written.
WriteStagedOn(u) ==
  /\ up[u].half # 0
  /\ file' = [file EXCEPT ![up[u].half] = Blob(up[u].sim, up[u].way)]
  /\ up' = [up EXCEPT ![u].half = @ + 1]
  /\ UNCHANGED <<tools, fw, rabbit, histories, tries, troubles>>

WriteStaged(u) ==
  /\ up[u].half \in 1..2
  /\ file' = [file EXCEPT ![up[u].half] = Blob(up[u].sim, up[u].way)]
  /\ up' = [up EXCEPT ![u].half = @ + 1]
  /\ UNCHANGED <<tools, fw, rabbit, histories, tries, troubles>>

\* trigger=1: FW is sent on the session of the rabbit, whatever the rabbit does.  It
\* reads it after what it is doing, or loses it: it may be writing its flash, or in
\* configuration mode.  Two programs on their way are taken as one.
Trigger(u) ==
  /\ up[u].half = 3 /\ up' = [up EXCEPT ![u] = Idle]
  /\ \/ UNCHANGED <<fw, asked, tries>>
     \/ /\ tries < MaxTries /\ tries' = tries + 1
        /\ fw' \in IF pc \in {"run", "get"} THEN {TRUE} ELSE BOOLEAN
        /\ asked' = IF up[u].alone THEN up[u] ELSE Idle
  /\ UNCHANGED <<tools, file, rabbit, hurt, told, troubles>>
-----------------------------------------------------------------------------
\* FW <url>: flashFromUrl.
ReceiveFW ==
  /\ pc = "run" /\ fw /\ fw' = FALSE
  /\ pc' = "get" /\ body' = <<>>
  /\ UNCHANGED <<tools, server, sector, flash, booted, histories, tries, troubles>>

\* GET /ota/: what is in the file at that moment.
Download ==
  /\ pc = "get"
  /\ body' = Append(body, file[Len(body) + 1])
  /\ pc' = IF Len(body') = 2 THEN "verify" ELSE "get"
  /\ UNCHANGED <<tools, server, fw, sector, flash, booted, histories, tries, troubles>>

\* In configuration mode the user hands the rabbit a file of his own.
ConfigUpload ==
  /\ pc = "run" /\ tries < MaxTries /\ tries' = tries + 1
  /\ \E s \in sims : body' = <<s, s>>
  /\ pc' = "verify" /\ fw' = FALSE
  /\ UNCHANGED <<tools, server, sector, flash, booted, histories, troubles>>

\* Mutant: the signature is compared with the key the update brings.
AcceptsItsOwnKey(b) ==
  b[1] = b[2] /\ b[2].closed /\ b[2].sig # Unsigned /\ b[2].sig = b[2].key

\* parsefirm_fw, parsesig_fw, verifySig (getfirmware, getsigreq in httpflash): a
\* whole payload, a signature between two markers, made with the key compiled
\* into what is running.
Accepts(b) ==
  b[1] = b[2] /\ b[2].closed /\ b[2].sig # Unsigned /\ b[2].sig = booted.key

Verify ==
  /\ pc = "verify"
  /\ IF Accepts(body) THEN pc' = "erase" /\ sector' = 1 /\ UNCHANGED body
     ELSE pc' = "run" /\ body' = <<>> /\ UNCHANGED sector
  /\ told' = "nothing"
  /\ UNCHANGED <<tools, server, fw, flash, booted, hurt, asked, tries, troubles>>
-----------------------------------------------------------------------------
New == [ver |-> body[1].ver, key |-> body[1].key, sig |-> body[1].sig]

\* Mutant: the writer of the stock firmware, which looks at nothing.
FlashFailsUnnoticed ==
  /\ troubles < MaxTroubles /\ troubles' = troubles + 1 /\ hurt' = TRUE
  /\ \/ pc = "erase" /\ pc' = "program" /\ UNCHANGED sector
     \/ pc = "program" /\ pc' = "erase" /\ sector' = sector + 1
  /\ UNCHANGED <<body, told>>

\* The sector does not erase, or a word does not take: flash_uc returns, sysFlash
\* enables the interrupts, flashFirmware answers nil, httpflash shows an error.  If
\* sectors were overwritten, what the return finds there may be anything.
FlashFails ==
  /\ troubles < MaxTroubles /\ troubles' = troubles + 1 /\ hurt' = TRUE
  /\ pc' \in IF \A s \in 1..Sectors : flash'[s] = booted THEN {"run"} ELSE {"run", "dead"}
  /\ told' = "unchanged" /\ body' = <<>>
  /\ UNCHANGED sector

\* A sector that does not erase may have lost what it held all the same.
Erase ==
  /\ pc = "erase" /\ sector <= Sectors
  /\ \/ /\ flash' = [flash EXCEPT ![sector] = Broken]
        /\ pc' = "program" /\ UNCHANGED <<sector, body, hurt, told, troubles>>
     \/ flash' \in {flash, [flash EXCEPT ![sector] = Broken]} /\ FlashFails
  /\ UNCHANGED <<tools, server, fw, booted, asked, tries>>

Program ==
  /\ pc = "program"
  /\ \/ /\ flash' = [flash EXCEPT ![sector] = New]
        /\ pc' = "erase" /\ sector' = sector + 1 /\ UNCHANGED <<body, hurt, told, troubles>>
     \/ UNCHANGED flash /\ FlashFails
  /\ UNCHANGED <<tools, server, fw, booted, asked, tries>>

Boots ==
  /\ booted' = IF \A s \in 1..Sectors : flash[s] = flash[1] THEN flash[1] ELSE Broken
  /\ pc' = IF booted' = Broken THEN "dead" ELSE "run"
  /\ body' = <<>> /\ fw' = FALSE

\* Every sector is written: the watchdog is made to reset the chip.
Reset ==
  /\ pc = "erase" /\ sector > Sectors /\ Boots
  /\ UNCHANGED <<tools, server, sector, flash, histories, tries, troubles>>

PowerCut ==
  /\ troubles < MaxTroubles /\ troubles' = troubles + 1 /\ Boots
  /\ hurt' = (hurt \/ pc = "program" \/ (pc = "erase" /\ sector \in 2..Sectors))
  /\ UNCHANGED <<tools, server, sector, flash, asked, told, tries>>
-----------------------------------------------------------------------------
Server(u) == WriteStaged(u) \/ Trigger(u)
Rabbit == ReceiveFW \/ Download \/ Verify \/ Erase \/ Program \/ Reset

Next ==
  \/ GenKey \/ Build \/ Sign
  \/ \E u \in Uploads : Stage(u) \/ Server(u)
  \/ ConfigUpload \/ Rabbit \/ PowerCut

\* The threads of the server are scheduled, and so is the rabbit; nobody has to
\* build, sign or upload anything.
Spec == Init /\ [][Next]_vars /\ WF_vars(Rabbit) /\ \A u \in Uploads : WF_vars(Server(u))
-----------------------------------------------------------------------------
TypeOK ==
  /\ {priv, header} \subseteq 0..MaxKeys /\ sims \subseteq Sim
  /\ up \in [Uploads -> Request]
  /\ file \in [1..2 -> Sim] /\ fw \in BOOLEAN
  /\ pc \in {"run", "get", "verify", "erase", "program", "dead"}
  /\ body \in Seq(Sim) /\ Len(body) <= 2
  /\ sector \in 1..Sectors + 1 /\ flash \in [1..Sectors -> Image] /\ booted \in Image
  /\ hurt \in BOOLEAN /\ asked \in Request /\ told \in {"nothing", "unchanged"}

\* Whatever is staged, torn, rotated, uploaded or cut: the rabbit goes from one
\* whole firmware to another that is signed for the one it leaves, and has none
\* only after a write of its flash failed or was cut.
Promise == INSTANCE Firmware WITH Images <- Image, Broken <- Broken,
                                  booted <- booted, hurt <- hurt
ImplementsFirmware == Promise!Spec

\* "Only trip the watchdog once every sector has been verified": a rabbit that
\* reboots by itself after a flash runs what it was given, whatever the cells did.
RebootMeansFlashed ==
  [][Reset => booted' = New]_vars

\* A signed .sim staged and triggered on a connected rabbit that trusts its key
\* is what the rabbit ends up running, once nobody interferes any more.
Calm ==
  /\ tries = MaxTries /\ troubles = MaxTroubles
  /\ \A u \in Uploads : up[u] = Idle
Arrives(way) ==
  \A v \in 2..MaxBuilds :
    (/\ fw /\ pc = "run" /\ asked.sim.sig = booted.key
     /\ [](Calm /\ asked.way = way /\ asked.sim.ver = v))
    ~> booted.ver = v
UpdateArrives == Arrives("path")
MultipartArrives == Arrives("multipart")

\* A rabbit that says its firmware is unchanged has the firmware it had, at least in
\* the sectors other than the one that failed.
RefusalKeepsFirmware ==
  (told = "unchanged" /\ pc = "run") => \A s \in 1..Sectors \ {sector} : flash[s] = booted
=============================================================================
