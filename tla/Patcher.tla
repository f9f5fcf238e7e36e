------------------------------- MODULE Patcher -------------------------------
(***************************************************************************)
(* apply-mods.py: the sources of the firmware, patched by a list of steps; *)
(* and the scripts that build-bytecode.sh runs one after the other on the  *)
(* sources of the bytecode, which are steps of the same kind.              *)
(*                                                                         *)
(* A step is the files it writes, in order.  What it puts into a file is   *)
(* one text, known by the name the step (or the next one) looks for: the   *)
(* anchors of one file are all replaced or none is.  The tree is the set   *)
(* of the texts that are in it; what is in it from the start is left out.  *)
(* A step exits at an anchor that is not there, and the script can be      *)
(* killed, or the disk fill up, between two files.                         *)
(***************************************************************************)
EXTENDS Naturals, Sequences, FiniteSets, SequencesExt

CONSTANTS Overrides,   \* names of lists of steps given by --steps,
          StepsOf(_),  \*   and what they are, as typed (an empty one is the mode's),
          Blanked,     \*   the step of each name typed with blanks around it
          Reruns,      \* the lists that are run on sources already touched
          MaxRuns,     \* runs of the script on one tree
          MaxKills     \* runs that are killed

ASSUME PatcherAssumption ==
  /\ "none" \notin Overrides /\ \A l \in Overrides : StepsOf(l) \in Seq(STRING)
  /\ {MaxRuns, MaxKills} \subseteq Nat
-----------------------------------------------------------------------------
\* An edit of one file, and what becomes of it when its text is there already:
\* the step returns, goes on to the next file, fails as its anchor is gone, or
\* writes the same thing again.
Edit(file, text, found) ==
  [text |-> <<file, text>>, found |-> found, needs |-> {}, lacks |-> {}]
Returns(file, text) == Edit(file, text, "return")
Skips(file, text) == Edit(file, text, "skip")
Blind(file, text) == Edit(file, text, "fail")
Rewrites(file, text) == Edit(file, text, "rewrite")

\* Its anchors are in texts of other steps, or spoiled by them.
After(edit, texts) == [edit EXCEPT !.needs = texts]
Unspoiled(edit, texts) == [edit EXCEPT !.lacks = texts]

vbc == "inc/vm/vbc.h"
mtl_vbc == "mtl/inc/vm/vbc.h"
vinterp == "vinterp.c"
stdlib == "stdlib_core.cpp"
boot == "boot.mtl"
ieee80211_h == "ieee80211.h"
ieee80211 == "ieee80211.c"
eapol == "eapol.c"
audio == "audio.c"
vaudio == "vaudio.c"
ld == "ml67q4051.ld"

\* The opcodes are numbered one after the other, and counted in NBcore.
NBcore120 == {<<stdlib, "verifySig">>}
NBcore121 == {<<stdlib, "netSaePw">>}
-----------------------------------------------------------------------------
patch_vbc_h == << Skips(vbc, "OPverifySig"), Skips(mtl_vbc, "OPverifySig") >>
patch_vinterp_c == << Returns(vinterp, "OPverifySig") >>
patch_stdlib_core == << Returns(stdlib, "verifySig") >>
strip_tweetnacl == << Returns("tweetnacl.c", "tweetnacl-stripped") >>
patch_makefile == << Rewrites("Makefile", "debug-disabled") >>
patch_linker_keep == << Returns(ld, "KEEP(*(.intvec))") >>
patch_gc_sections ==
  << After(Returns("Makefile", "--gc-sections"), {<<ld, "KEEP(*(.intvec))">>}) >>
-----------------------------------------------------------------------------
\* The loudspeaker, the microphone and the radio on USB.
patch_audio_ampli ==
  << Returns("audio.h", "NAB_AUDIO_AMPLI_PLAY_ONLY"), Blind(audio, "volume-alone") >>
patch_audio_fifo_data == << Returns(vaudio, "play_w in .data") >>
patch_audio_halfduplex ==
  << Returns("audio.h", "NAB_AUDIO_STATUS"), Blind(audio, "refusals"),
     Blind("vaudio.h", "status"), Blind(vaudio, "status"), Blind(vinterp, "status") >>
patch_bounded_waits ==
  << Returns(audio, "VLSI_DREQ_PETS"), Blind("rt2501usb.c", "bounded loops") >>
patch_usb_firmware == << Skips("rt2501usb.c", "robust start") >>
patch_usb_rest ==
  << Skips("usbhcore.c", "enumeration"), Skips("hcd.c", "status kept"),
     Skips(ieee80211, "comram_tries") >>
patch_usb_robustness == patch_usb_firmware \o patch_usb_rest
patch_cold_state ==
  << Skips("usbhcore.c", ".data"), Skips("usbctrl.c", ".data"), Skips(audio, ".data"),
     Skips(eapol, "eapol_state .data"), Skips(eapol, "replay_active .data"),
     Skips(ieee80211_h, ".data") >>

\* Memory.
patch_extbss ==
  << Returns(ld, ".extbss"), Skips(vaudio, ".extbss"), Skips("vlog.c", ".extbss") >>
patch_nab_rand_h == << Returns("common.h", "nab_rand") >>
patch_nab_rand ==
  << Blind("sys.c", "nab_rand"), Blind(eapol, "nab_rand"), Blind(ieee80211, "nab_rand") >>
patch_no_libc_malloc == patch_nab_rand_h \o patch_nab_rand
patch_vm_bounds == << Returns(vinterp, "bounds") >>
-----------------------------------------------------------------------------
\* The WPA2 and WPA3 station.
gtk == <<eapol, "eapol_install_msg3_gtk">>
patch_wpa2_group_key == << Returns(eapol, gtk[2]) >>
patch_eapol_group_ack == << Returns(eapol, "Key Ack 0") >>
patch_group_cipher ==
  << Skips(ieee80211_h, "ieee80211_group_cipher"), Skips(ieee80211, "ieee80211_group_cipher"),
     After(Returns(eapol, "ieee80211_group_cipher"), {gtk}) >>
patch_eapol_ptk_rekey == << Returns(eapol, "wpa_ptk_rekey") >>
patch_eapol_replay == << Returns(eapol, "eapol_commit_replay") >>

sae == <<ieee80211, "ieee80211_sae_remember">>
patch_sae_crypto ==
  [i \in 1..4 |-> Rewrites(<<"p256.c", "sha256.c", "cmac.c", "sae.c">>[i], "staged")]
patch_sae_driver ==
  << Skips(ieee80211_h, "IEEE80211_AUTH_ALG_SAE"), Skips("vnet.c", "ieee80211_sae_password"),
     Skips(sae[1], sae[2]), After(Skips(eapol, "ieee80211_install_igtk"), {gtk}) >>
patch_wpa3_sae == patch_sae_crypto \o patch_sae_driver

\* Mutant: the compiler's tables are taken for granted, as boot.mtl will tell.
PasswordWithoutStdlibGuard ==
  << After(Skips(vbc, "OPnetSaePw"), {<<vbc, "OPverifySig">>}),
     After(Skips(mtl_vbc, "OPnetSaePw"), {<<mtl_vbc, "OPverifySig">>}),
     After(Skips(vinterp, "OPnetSaePw"), {<<vinterp, "OPverifySig">>}),
     Unspoiled(After(Blind(stdlib, "netSaePw"), NBcore120), {<<stdlib, "pageRender">>}),
     Unspoiled(Returns(boot, "netSaePw"), {<<boot, "echo-opcodes-stripped">>}) >>

patch_wpa3_boot_password ==
  << After(Skips(vbc, "OPnetSaePw"), {<<vbc, "OPverifySig">>}),
     After(Skips(mtl_vbc, "OPnetSaePw"), {<<mtl_vbc, "OPverifySig">>}),
     After(Skips(vinterp, "OPnetSaePw"), {<<vinterp, "OPverifySig">>}),
     Unspoiled(After(Skips(stdlib, "netSaePw"), NBcore120), {<<stdlib, "pageRender">>}),
     Unspoiled(Returns(boot, "netSaePw"), {<<boot, "echo-opcodes-stripped">>}) >>

patch_timing_driver ==
  << After(Skips(vbc, "OPnetSaeMs"), {<<vbc, "OPnetSaePw">>}),
     After(Skips(mtl_vbc, "OPnetSaeMs"), {<<mtl_vbc, "OPnetSaePw">>}),
     After(Skips(ieee80211, "ieee80211_sae_time_commit"), {sae}),
     After(Skips(ieee80211_h, "ieee80211_sae_time_commit"),
           {<<ieee80211_h, "IEEE80211_AUTH_ALG_SAE">>}) >>
\* It wants the end of boot_url, which boot_marker moves.
patch_timing_bytecode ==
  << After(Skips(vinterp, "OPnetSaeMs"), {<<vinterp, "OPnetSaePw">>}),
     After(Skips(stdlib, "netSaeMs"), NBcore121),
     Unspoiled(Returns(boot, "netSaeMs"), {<<boot, "&z=">>}) >>
patch_wpa3_timing == patch_timing_driver \o patch_timing_bytecode
-----------------------------------------------------------------------------
\* The bytecode bootloader and its pages.
stripped == {<<boot, "secho-stripped">>, <<boot, "echo-opcodes-stripped">>}
rom == <<boot, "pageRender">>
metal == <<boot, "pages-modernized">>

\* Mutant: the pages of the ROM are rewritten like any other.
ModernizeAnyPages == << Returns(metal[1], metal[2]) >>
\* Mutant: boot.mtl, by which a rerun knows, is written before the C side.
RomPagesBootFirst ==
  << Unspoiled(Returns(rom[1], rom[2]), {metal}), Rewrites("rom_pages.c", "pages"),
     After(Skips(vbc, "OPpageRender"), {<<vbc, "OPverifySig">>}),
     After(Skips(mtl_vbc, "OPpageRender"), {<<mtl_vbc, "OPverifySig">>}),
     After(Skips(vinterp, "OPpageRender"), {<<vinterp, "OPverifySig">>}),
     Unspoiled(After(Skips(stdlib, "pageRender"), NBcore120), {<<stdlib, "netSaePw">>}) >>

\* The old value of a page is looked for, and rom_pages blanks it.
modernize_pages == << Unspoiled(Returns(metal[1], metal[2]), {rom}) >>
\* The old httpflash, whole: its echoes and its page_error are part of the anchor.
patch_bootloader == << Unspoiled(Returns(boot, "verifySig"), {rom} \cup stripped) >>
patch_mdns == << Returns(boot, "mdns_boot_tick") >>
patch_boot_marker == << Returns(boot, "&z=") >>

\* The writer of the flash reports; the opcode, sysFlash and httpflash after it.
patch_flash_mem == << Returns("mem.c", "flash_verify_word") >>
patch_flash_users ==
  << Blind("mem.h", "int32_t flash_uc"), Blind("vlog.h", "int32_t sysFlash"),
     Blind("vlog.c", "int32_t sysFlash"), Blind(vinterp, "OPflashFirmware result"),
     Unspoiled(After(Blind(boot, "flash failed"), {<<boot, "verifySig">>}), stripped) >>
patch_flash_verify == patch_flash_mem \o patch_flash_users

\* It looks at boot.mtl first, which the last of its writes changes.
patch_rom_pages_looks == [Unspoiled(Returns(rom[1], rom[2]), {metal}) EXCEPT !.found = "probe"]
_rewrite_boot_for_rom_pages == << Blind(rom[1], rom[2]) >>
\* Mutant: boot.mtl is taken to tell whether stdlib_core.cpp is written, too.
RomPagesTrustsBoot ==
  << patch_rom_pages_looks, Rewrites("rom_pages_data.h", "pages"), Rewrites("rom_pages.c", "pages"),
     After(Skips(vbc, "OPpageRender"), {<<vbc, "OPverifySig">>}),
     After(Skips(mtl_vbc, "OPpageRender"), {<<mtl_vbc, "OPverifySig">>}),
     After(Skips(vinterp, "OPpageRender"), {<<vinterp, "OPverifySig">>}),
     Unspoiled(After(Blind(stdlib, "pageRender"), NBcore120), {<<stdlib, "netSaePw">>}) >>
  \o _rewrite_boot_for_rom_pages
patch_rom_pages ==
  << patch_rom_pages_looks, Rewrites("rom_pages_data.h", "pages"), Rewrites("rom_pages.c", "pages"),
     After(Skips(vbc, "OPpageRender"), {<<vbc, "OPverifySig">>}),
     After(Skips(mtl_vbc, "OPpageRender"), {<<mtl_vbc, "OPverifySig">>}),
     After(Skips(vinterp, "OPpageRender"), {<<vinterp, "OPverifySig">>}),
     Unspoiled(After(Skips(stdlib, "pageRender"), NBcore120), {<<stdlib, "netSaePw">>}) >>
  \o _rewrite_boot_for_rom_pages

patch_prune_orphans == << Unspoiled(After(Returns(boot, "orphans-pruned"), {rom}), {metal}) >>
patch_inline_mkwav == << Returns(boot, "mkwav-inlined") >>
patch_strip_dump == << Returns(boot, "dump-stripped") >>
patch_inline_dump_calls == << After(Returns(boot, "dump-inlined"), {<<boot, "dump-stripped">>}) >>
patch_strip_echo_funs == << Returns(boot, "echo-funs-identity") >>
patch_strip_secho == << Returns(boot, "secho-stripped") >>
patch_strip_echo_opcodes == << Returns(boot, "echo-opcodes-stripped") >>
-----------------------------------------------------------------------------
\* The scripts for the bytecode.  The first and the third write their file once,
\* at the end, the last one after each of its edits.
main_mtl == "main.mtl"
wifi_mtl == "wifi.mtl"
patch_main == << Skips(main_mtl, "RS RT SV FW") >>
patch_dns == << Skips("dns.mtl", "mdnsr_islocal") >>
patch_reconnect == << Returns(main_mtl, "reconnect-not-reboot") >>
patch_softreboot == << Skips(main_mtl, "no reboot at locate.jsp") >>
patch_wifi_reconnect ==
  << Skips(wifi_mtl, "wificrypttype"), Skips(wifi_mtl, "wifiAuth"),
     Skips(wifi_mtl, "gostationW"), Skips(main_mtl, "wifi lost") >>
-----------------------------------------------------------------------------
fns == [
  patch_main |-> patch_main, patch_dns |-> patch_dns, patch_reconnect |-> patch_reconnect,
  softreboot |-> patch_softreboot, patch_wifi_reconnect |-> patch_wifi_reconnect,
  eapol_replay |-> patch_eapol_replay, cold_state |-> patch_cold_state, vbc |-> patch_vbc_h,
  vinterp |-> patch_vinterp_c, stdlib |-> patch_stdlib_core, strip_tweetnacl |-> strip_tweetnacl,
  modernize_pages |-> modernize_pages, makefile |-> patch_makefile,
  bootloader |-> patch_bootloader, mdns |-> patch_mdns, wpa2_gtk |-> patch_wpa2_group_key,
  eapol_group_ack |-> patch_eapol_group_ack, group_cipher |-> patch_group_cipher,
  eapol_ptk_rekey |-> patch_eapol_ptk_rekey, vm_bounds |-> patch_vm_bounds,
  linker_keep |-> patch_linker_keep, gc_sections |-> patch_gc_sections,
  audio_fifo_data |-> patch_audio_fifo_data, audio_halfduplex |-> patch_audio_halfduplex,
  bounded_waits |-> patch_bounded_waits, wpa3_sae |-> patch_wpa3_sae,
  wpa3_boot_pw |-> patch_wpa3_boot_password, wpa3_timing |-> patch_wpa3_timing,
  boot_marker |-> patch_boot_marker, flash_verify |-> patch_flash_verify,
  usb_robustness |-> patch_usb_robustness, extbss |-> patch_extbss,
  no_libc_malloc |-> patch_no_libc_malloc, audio_ampli |-> patch_audio_ampli,
  rom_pages |-> patch_rom_pages, inline_mkwav |-> patch_inline_mkwav,
  strip_dump |-> patch_strip_dump, strip_secho |-> patch_strip_secho,
  strip_echo_funs |-> patch_strip_echo_funs, strip_echo_opcodes |-> patch_strip_echo_opcodes,
  inline_dump_calls |-> patch_inline_dump_calls, prune_orphans |-> patch_prune_orphans ]

Bytecode == << "patch_main", "patch_dns", "patch_reconnect", "softreboot", "patch_wifi_reconnect" >>

\* What every mode begins with, and the network steps they all have.
Opcodes == << "vbc", "vinterp", "stdlib", "strip_tweetnacl", "audio_fifo_data",
              "audio_halfduplex", "bounded_waits" >>
Network == << "wpa2_gtk", "eapol_group_ack", "group_cipher", "eapol_ptk_rekey", "vm_bounds",
              "eapol_replay", "cold_state", "usb_robustness", "extbss", "no_libc_malloc" >>
Everything == Opcodes \o << "modernize_pages", "makefile", "bootloader", "mdns" >> \o Network
Keep == << "linker_keep" >>
KeepAndPrune == << "linker_keep", "gc_sections" >>

Timed == << "wpa3_sae", "wpa3_boot_pw", "wpa3_timing", "boot_marker" >>

default_steps(mode) ==
  CASE mode = "full" ->
         Opcodes \o << "modernize_pages", "makefile", "bootloader" >> \o Network \o Keep
    [] mode = "minimal" -> Opcodes \o << "makefile" >> \o Network \o KeepAndPrune
    [] mode = "signed-stock" -> Opcodes \o << "makefile", "bootloader" >> \o Network \o Keep
    [] mode = "pages-only" -> Opcodes \o << "makefile", "modernize_pages" >> \o Network \o Keep
    [] mode = "max" -> Everything \o Keep
    [] mode = "mdns-only" -> Opcodes \o << "makefile", "mdns" >> \o Network \o Keep
    [] mode = "lean" -> Everything \o << "flash_verify" >> \o KeepAndPrune
    [] mode = "lean-marker" -> Everything \o << "boot_marker", "flash_verify" >> \o KeepAndPrune
    [] mode = "lean-wpa3" ->
         Everything \o << "wpa3_sae", "wpa3_boot_pw", "boot_marker", "flash_verify" >> \o KeepAndPrune
    [] mode = "lean-wpa3-timed" ->
         Everything \o Timed \o << "flash_verify" >> \o KeepAndPrune
    [] mode = "lean-nomdns" ->
         Opcodes \o << "modernize_pages", "makefile", "bootloader" >> \o Network \o KeepAndPrune
    [] mode = "phase8-rom" ->
         Opcodes \o << "makefile", "bootloader", "rom_pages", "prune_orphans", "inline_mkwav",
                       "strip_dump", "inline_dump_calls", "strip_echo_funs", "strip_secho",
                       "strip_echo_opcodes" >> \o Network \o KeepAndPrune
    [] mode = "bytecode" -> Bytecode

Modes == { "full", "minimal", "signed-stock", "pages-only", "max", "mdns-only", "lean",
           "lean-marker", "lean-wpa3", "lean-wpa3-timed", "lean-nomdns", "phase8-rom",
           "bytecode" }
Lists == [l \in Modes \cup Overrides |-> IF l \in Overrides THEN StepsOf(l) ELSE default_steps(l)]

\* Mutant: the list is only looked at for a step nobody knows.
RefusesNothing(names) == FALSE

\* The checks on the list before any of it is applied.
Refuses(names) ==
  LET has == ToSet(names)
      Without(step, others) == step \in has /\ ~(others \subseteq has)
  IN \/ Without("linker_keep", {"audio_fifo_data"})
     \/ Without("wpa3_sae", {"no_libc_malloc", "extbss", "wpa2_gtk"})
     \/ Without("wpa3_timing", {"wpa3_boot_pw"})
     \/ Without("wpa3_boot_pw", {"wpa3_sae"})
     \/ {"wpa3_sae", "vbc"} \subseteq has /\ "wpa3_boot_pw" \notin has
     \/ Without("no_libc_malloc", {"extbss"})
-----------------------------------------------------------------------------
VARIABLES tree,      \* the texts in the sources
          list, at, edit,    \* the list that runs, the step, and its edit
          outcome,   \* "new", "running", "ok", "refused", "failed", "killed"
          runs, kills,
          tried,     \* histories: the lists that were begun,
          broken,    \*   the steps a run was stopped inside of,
          done       \*   and the lists that went through, {} once one did not
vars == <<tree, list, at, edit, outcome, runs, kills, tried, broken, done>>

Init ==
  /\ tree = {}
  /\ list = "none" /\ at = 1 /\ edit = 1 /\ outcome = "new"
  /\ runs = 0 /\ kills = 0 /\ tried = {} /\ broken = {} /\ done = {"none"}

Running == outcome = "running"
steps == Lists[list]
Strip(name) == IF name \in DOMAIN Blanked THEN Blanked[name] ELSE name
Step == Strip(steps[at])
NoName == ""
Blank == at <= Len(steps) /\ Step = NoName
Known == at <= Len(steps) /\ Step \in DOMAIN fns
Edits == fns[Step]
E == Edits[edit]
Editing == Running /\ Known /\ edit <= Len(Edits)
\* The edit the script is at, if it is at one: a set, so that it is looked up once.
Now == IF Editing THEN {E} ELSE {}

Stop(how) ==
  /\ outcome' = how
  /\ broken' = broken \cup IF Known /\ edit > 1 /\ edit <= Len(Edits) THEN {Step} ELSE {}
  /\ done' = IF how = "ok" /\ done # {} THEN done \cup {list} ELSE {}

\* A run of the script, the next one with the same list or another: sys.exit if the
\* checks refuse it.
Begin(l) ==
  /\ ~Running /\ runs < MaxRuns /\ runs' = runs + 1
  /\ runs > 0 => l \in Reruns \cup {list}
  /\ list' = l /\ at' = 1 /\ edit' = 1 /\ tried' = tried \cup {l}
  /\ outcome' = IF Refuses(Lists[l]) THEN "refused" ELSE "running"
  /\ UNCHANGED <<tree, kills, broken, done>>

UnknownStep ==
  /\ Running /\ at <= Len(steps) /\ ~Known /\ ~Blank /\ Stop("failed")
  /\ UNCHANGED <<tree, list, at, edit, runs, kills, tried>>

There(e) == e.text \in tree

\* The text is there: the step leaves it at that, or goes on to the next file.
Found(e) ==
  /\ There(e) /\ e.found \in {"return", "probe", "skip"}
  /\ edit' = IF e.found = "skip" THEN edit + 1 ELSE Len(Edits) + 1
  /\ UNCHANGED <<tree, list, at, outcome, runs, kills, tried, broken, done>>

Applies(e) == There(e) => e.found = "rewrite"
Anchored(e) == Applies(e) /\ e.needs \subseteq tree /\ e.lacks \cap tree = {}

Write(e) ==
  /\ Anchored(e) /\ edit' = edit + 1
  /\ tree' = IF e.found = "probe" THEN tree ELSE tree \cup {e.text}
  /\ UNCHANGED <<list, at, outcome, runs, kills, tried, broken, done>>

\* sys.exit: the anchor is not there.
Fail(e) ==
  /\ ~Anchored(e) /\ ~(There(e) /\ e.found \in {"return", "probe", "skip"})
  /\ Stop("failed")
  /\ UNCHANGED <<tree, list, at, edit, runs, kills, tried>>

\* A blank name, as after a comma too many, is skipped.
NextStep ==
  /\ Running /\ (Blank \/ (Known /\ edit > Len(Edits)))
  /\ at' = at + 1 /\ edit' = 1
  /\ UNCHANGED <<tree, list, outcome, runs, kills, tried, broken, done>>

AllStepsOK ==
  /\ Running /\ at > Len(steps) /\ Stop("ok")
  /\ UNCHANGED <<tree, list, at, edit, runs, kills, tried>>

Killed ==
  /\ Running /\ kills < MaxKills /\ kills' = kills + 1 /\ Stop("killed")
  /\ UNCHANGED <<tree, list, at, edit, runs, tried>>

Next ==
  \/ \E l \in DOMAIN Lists : Begin(l)
  \/ \E e \in Now : Found(e) \/ Write(e) \/ Fail(e)
  \/ UnknownStep \/ NextStep \/ AllStepsOK \/ Killed

Spec == Init /\ [][Next]_vars
-----------------------------------------------------------------------------
\* What the steps of these names put into the sources.
Texts(names) ==
  UNION { {e.text : e \in {x \in ToSet(fns[n]) : x.found # "probe"}} : n \in names \cap DOMAIN fns }

\* "Idempotent: every step checks first whether the change is already applied": a mode
\* finds all its anchors, by the order of its steps, in a fresh clone, and by their
\* looks at what is there, in what runs of it have left wherever they were stopped.
ModesApply ==
  [][(\E e \in Now : Fail(e)) \/ UnknownStep => list \in Overrides \/ tried # {list}]_vars

\* "repeated runs are safe": a list that went through goes through again, and
\* leaves the sources as they are.
RerunIsSafe ==
  [][(Running /\ list \in done) => tree' = tree /\ outcome' # "failed"]_vars

\* The steps that look for their first text only: once it is written, a run
\* that was stopped before the rest is never made up for.
FirstTextOnly ==
  {"flash_verify", "extbss", "no_libc_malloc", "bounded_waits", "audio_halfduplex", "audio_ampli"}

\* "all steps OK" means that every text of the list is in the sources, except
\* for what a stopped run left of those steps.
OKMeansApplied ==
  outcome = "ok" =>
    \A i \in DOMAIN steps :
      LET step == Strip(steps[i])
      IN  Texts({step}) \subseteq tree \/ step \in broken \cap FirstTextOnly

\* The combinations that bricked rabbits, or fell back to WPA2 without a word, or
\* have the pages both in the bytecode and in the ROM.
Present(text) == text \in tree
Brick ==
  \/ Present(<<ld, "KEEP(*(.intvec))">>) /\ ~Present(<<vaudio, "play_w in .data">>)
  \/ Present(<<"common.h", "nab_rand">>) /\ ~Present(<<ld, ".extbss">>)
  \/ Present(<<boot, "netSaePw">>) /\ ~Present(sae)
  \/ Present(sae) /\ ~(Present(gtk) /\ Present(<<"sys.c", "nab_rand">>))
  \/ runs = 1 /\ Present(sae) /\ Present(<<vbc, "OPverifySig">>) /\ ~Present(<<boot, "netSaePw">>)
  \/ Present(metal) /\ Present(rom)

\* They cannot come out of runs that all went through, as long as no name is typed
\* with a blank: the checks on the list look for the names as they are typed.
Typed(names) == ToSet(names) \cap DOMAIN Blanked = {}
NoKnownBrick ==
  (outcome = "ok" /\ \A l \in done \ {"none"} : Typed(Lists[l])) => done = {} \/ ~Brick

\* ... however it is typed: "a comment would not have caught it; this does".
ChecksCatchBricks == (outcome = "ok" /\ done # {}) => ~Brick
=============================================================================
