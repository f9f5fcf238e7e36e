---------------------------- MODULE PatcherProofs ----------------------------
(***************************************************************************)
(* What apply-mods.py promises of its runs, for any lists of steps, typed  *)
(* in any way, any number of runs, and stops at any point.                 *)
(***************************************************************************)
EXTENDS Patcher, SequenceTheorems, TLAPS

\* The texts that decide about a rabbit, and by which a step knows that it has
\* been applied: each is put there by one step alone.
Owned(x, n) ==
  /\ x = <<ld, "KEEP(*(.intvec))">> => n = "linker_keep"
  /\ x = <<boot, "netSaePw">> => n = "wpa3_boot_pw"
  /\ x = sae => n = "wpa3_sae"
  /\ x = <<vbc, "OPverifySig">> => n = "vbc"
  /\ x = metal => n = "modernize_pages"
  /\ x = rom => n = "rom_pages"
  /\ x = <<"mem.c", "flash_verify_word">> => n = "flash_verify"
  /\ x = <<ld, ".extbss">> => n = "extbss"
  /\ x = <<"common.h", "nab_rand">> => n = "no_libc_malloc"
  /\ x = <<audio, "VLSI_DREQ_PETS">> => n = "bounded_waits"
  /\ x = <<"audio.h", "NAB_AUDIO_STATUS">> => n = "audio_halfduplex"
  /\ x = <<"audio.h", "NAB_AUDIO_AMPLI_PLAY_ONLY">> => n = "audio_ampli"

\* A step of which each edit looks for its own text, and only the last one may
\* end it; one that looks for its first text only; and rom_pages.
Plain(s) ==
  \A i \in 1..Len(s) :
    /\ s[i].found \in {"skip", "return", "rewrite"}
    /\ s[i].found = "return" => i = Len(s)
    /\ s[i].found = "rewrite" => s[i].needs = {} /\ s[i].lacks = {}
Guarded(s) ==
  /\ Len(s) > 1 /\ s[1].found = "return"
  /\ \A i \in 2..Len(s) : s[i].found \in {"skip", "fail"}
Probed(s) ==
  /\ Len(s) > 1 /\ s[1].found = "probe" /\ s[1].text = rom /\ s[1].lacks = {metal}
  /\ s[Len(s)].text = rom
  /\ \A i \in 2..Len(s) :
       s[i].found \in {"skip", "fail", "rewrite"} /\ (i # Len(s) => s[i].text # rom)

FormOf(s, n) ==
  /\ Len(s) \in Nat /\ DOMAIN s = 1..Len(s)
  /\ \A i \in 1..Len(s) : Owned(s[i].text, n)
  /\ n \in FirstTextOnly => Guarded(s)
  /\ n = "rom_pages" => Probed(s)
  /\ n \notin FirstTextOnly \cup {"rom_pages"} => Plain(s)

\* What an edit of the step n does where its text is there already.
Going(e, n) ==
  /\ Owned(e.text, n)
  /\ e.found = "skip" \/ (e.found = "rewrite" /\ e.needs = {} /\ e.lacks = {})
Ending(e, n) == Owned(e.text, n) /\ e.found = "return"
Failing(e, n) == Owned(e.text, n) /\ e.found = "fail"
Between(e) == Going(e, "rom_pages") /\ e.text # rom
Following(e, n) == Owned(e.text, n) /\ e.found \in {"skip", "fail"}
-----------------------------------------------------------------------------
\* The edits, by the operators that make them.
LEMMA EditForms ==
  ASSUME NEW f, NEW t, NEW n, Owned(<<f, t>>, n)
  PROVE  /\ Going(Skips(f, t), n) /\ Skips(f, t).found = "skip" /\ Going(Rewrites(f, t), n)
         /\ Ending(Returns(f, t), n) /\ Failing(Blind(f, t), n)
         /\ Following(Skips(f, t), n) /\ Following(Blind(f, t), n)
BY DEF Following, Going, Ending, Failing, Skips, Rewrites, Returns, Blind, Edit

\* Their anchors change nothing of that.
LEMMA AnchorForms ==
  ASSUME NEW f, NEW t, NEW n, Owned(<<f, t>>, n), NEW x, NEW y
  PROVE  /\ Going(After(Skips(f, t), x), n) /\ Going(Unspoiled(After(Skips(f, t), x), y), n)
         /\ Ending(After(Returns(f, t), x), n) /\ Ending(Unspoiled(Returns(f, t), y), n)
         /\ Ending(Unspoiled(After(Returns(f, t), x), y), n)
         /\ Following(Unspoiled(After(Blind(f, t), x), y), n)
BY DEF Following, Going, Ending, Failing, Skips, Returns, Blind, Edit, After, Unspoiled

Ordinary(n) == n \notin FirstTextOnly \cup {"rom_pages"}
-----------------------------------------------------------------------------
\* The lists of the modes are sequences, of whatever they are made of.
Sequence(s) == Len(s) \in Nat /\ DOMAIN s = 1..Len(s)
IsSeq(s) == \E S : s \in Seq(S)

\* A sequence over any set has a length, and is defined up to it.
LEMMA SeqForm == ASSUME NEW s, IsSeq(s) PROVE Sequence(s)
BY DEF IsSeq, Sequence

\* Two sequences make one.
LEMMA Joined == ASSUME NEW s, NEW t, IsSeq(s), IsSeq(t) PROVE IsSeq(s \o t)
<1>1. PICK S : s \in Seq(S)
  BY DEF IsSeq
<1>2. PICK T : t \in Seq(T)
  BY DEF IsSeq
<1>3. s \in Seq(S \cup T) /\ t \in Seq(S \cup T)
  BY <1>1, <1>2
<1>4. s \o t \in Seq(S \cup T)
  BY <1>3
<1> QED
  BY <1>4 DEF IsSeq

\* What is typed out is a sequence.
LEMMA Tuples ==
  ASSUME NEW a, NEW b, NEW c, NEW d
  PROVE  IsSeq(<<a>>) /\ IsSeq(<<a, b>>) /\ IsSeq(<<a, b, c>>) /\ IsSeq(<<a, b, c, d>>)
<1>1. <<a>> \in Seq({a, b, c, d}) /\ <<a, b>> \in Seq({a, b, c, d})
  OBVIOUS
<1>2. <<a, b, c>> \in Seq({a, b, c, d}) /\ <<a, b, c, d>> \in Seq({a, b, c, d})
  OBVIOUS
<1> QED
  BY <1>1, <1>2 DEF IsSeq

\* The longer ones.
LEMMA LongTuples ==
  ASSUME NEW a, NEW b, NEW c, NEW d, NEW e, NEW f, NEW g, NEW h, NEW i, NEW j
  PROVE  /\ IsSeq(<<a, b, c, d, e>>) /\ IsSeq(<<a, b, c, d, e, f, g>>)
         /\ IsSeq(<<a, b, c, d, e, f, g, h, i, j>>)
<1> DEFINE S == {a, b, c, d, e, f, g, h, i, j}
<1>1. <<a, b, c, d, e>> \in Seq(S)
  OBVIOUS
<1>2. <<a, b, c, d, e, f, g>> \in Seq(S)
  OBVIOUS
<1>3. <<a, b, c, d, e, f, g, h, i, j>> \in Seq(S)
  OBVIOUS
<1> QED
  BY <1>1, <1>2, <1>3 DEF IsSeq

\* The parts the lists of the modes are put together from.
LEMMA ModeParts ==
  /\ IsSeq(Opcodes) /\ IsSeq(Network) /\ IsSeq(Everything) /\ IsSeq(Bytecode)
  /\ IsSeq(Keep) /\ IsSeq(KeepAndPrune) /\ IsSeq(Timed)
<1>1. IsSeq(Opcodes) /\ IsSeq(Network) /\ IsSeq(Bytecode)
  BY LongTuples DEF Opcodes, Network, Bytecode
<1>2. IsSeq(Keep) /\ IsSeq(KeepAndPrune) /\ IsSeq(Timed)
  BY Tuples DEF Keep, KeepAndPrune, Timed
<1>3. IsSeq(Everything)
  BY <1>1, Tuples, Joined DEF Everything
<1> QED
  BY <1>1, <1>2, <1>3

\* Every list, of a mode or typed, is a sequence, and "none" is no list.
LEMMA ListForms ==
  ASSUME NEW l \in DOMAIN Lists
  PROVE  l # "none" /\ Sequence(Lists[l])
<1>1. CASE l \in Overrides
  <2>1. Lists[l] = StepsOf(l) /\ StepsOf(l) \in Seq(STRING)
    BY <1>1, PatcherAssumption DEF Lists
  <2> QED
    BY <2>1, <1>1, PatcherAssumption DEF Sequence
<1>2. CASE l \notin Overrides
  <2>1. l \in Modes /\ Lists[l] = default_steps(l)
    BY <1>2 DEF Lists
  <2>2. l # "none"
    BY <2>1 DEF Modes
  <2>3. IsSeq(default_steps(l))
    BY <2>1, ModeParts, Joined, Tuples, LongTuples DEF default_steps, Modes
  <2> QED
    BY <2>1, <2>2, <2>3, SeqForm
<1> QED
  BY <1>1, <1>2
\* Steps of one edit, of two, three, ... of which the last one may end the step.
LEMMA OneEdit ==
  ASSUME NEW f, NEW t, NEW n, Ordinary(n), Owned(<<f, t>>, n), NEW x, NEW y
  PROVE  /\ FormOf(<<Skips(f, t)>>, n) /\ FormOf(<<Rewrites(f, t)>>, n)
         /\ FormOf(<<Returns(f, t)>>, n) /\ FormOf(<<After(Returns(f, t), x)>>, n)
         /\ FormOf(<<Unspoiled(Returns(f, t), y)>>, n)
         /\ FormOf(<<Unspoiled(After(Returns(f, t), x), y)>>, n)
<1>1. ASSUME NEW e, Going(e, n) \/ Ending(e, n) PROVE FormOf(<<e>>, n)
  BY <1>1 DEF FormOf, Ordinary, Plain, Going, Ending
<1> QED
  BY <1>1, EditForms, AnchorForms

\* Two edits.
LEMMA TwoEdits ==
  ASSUME NEW n, Ordinary(n), NEW a, NEW b,
         Going(a, n), Going(b, n) \/ Ending(b, n)
  PROVE  FormOf(<<a, b>>, n)
BY DEF FormOf, Ordinary, Plain, Going, Ending

\* Three.
LEMMA ThreeEdits ==
  ASSUME NEW n, Ordinary(n), NEW a, NEW b, NEW c,
         Going(a, n), Going(b, n), Going(c, n) \/ Ending(c, n)
  PROVE  FormOf(<<a, b, c>>, n)
BY DEF FormOf, Ordinary, Plain, Going, Ending

\* Four.
LEMMA FourEdits ==
  ASSUME NEW n, Ordinary(n), NEW a, NEW b, NEW c, NEW d,
         Going(a, n), Going(b, n), Going(c, n), Going(d, n) \/ Ending(d, n)
  PROVE  FormOf(<<a, b, c, d>>, n)
BY DEF FormOf, Ordinary, Plain, Going, Ending

\* Five.
LEMMA FiveEdits ==
  ASSUME NEW n, Ordinary(n), NEW a, NEW b, NEW c, NEW d, NEW e,
         Going(a, n), Going(b, n), Going(c, n), Going(d, n), Going(e, n) \/ Ending(e, n)
  PROVE  FormOf(<<a, b, c, d, e>>, n)
BY DEF FormOf, Ordinary, Plain, Going, Ending

\* Six.
LEMMA SixEdits ==
  ASSUME NEW n, Ordinary(n), NEW a, NEW b, NEW c, NEW d, NEW e, NEW f,
         Going(a, n), Going(b, n), Going(c, n), Going(d, n), Going(e, n),
         Going(f, n) \/ Ending(f, n)
  PROVE  FormOf(<<a, b, c, d, e, f>>, n)
BY DEF FormOf, Ordinary, Plain, Going, Ending

\* The same, in two parts.
LEMMA OneAndThree ==
  ASSUME NEW n, Ordinary(n), NEW a, NEW b, NEW c, NEW d,
         Going(a, n), Going(b, n), Going(c, n), Going(d, n) \/ Ending(d, n)
  PROVE  FormOf(<<a>> \o <<b, c, d>>, n)
BY DEF FormOf, Ordinary, Plain, Going, Ending

\* Four edits, then three.
LEMMA FourAndThree ==
  ASSUME NEW n, Ordinary(n), NEW a, NEW b, NEW c, NEW d, NEW e, NEW f, NEW g,
         Going(a, n), Going(b, n), Going(c, n), Going(d, n), Going(e, n), Going(f, n),
         Going(g, n) \/ Ending(g, n)
  PROVE  FormOf(<<a, b, c, d>> \o <<e, f, g>>, n)
BY DEF FormOf, Ordinary, Plain, Going, Ending

\* The SAE sources are copied, then four files are edited.
LEMMA EightEdits ==
  ASSUME NEW n, Ordinary(n), NEW a, NEW b, NEW c, NEW d,
         Going(a, n), Going(b, n), Going(c, n), Going(d, n) \/ Ending(d, n),
         \A i \in 1..4 : Going(patch_sae_crypto[i], n)
  PROVE  FormOf(patch_sae_crypto \o <<a, b, c, d>>, n)
BY DEF FormOf, Ordinary, Plain, Going, Ending, patch_sae_crypto

\* Steps that look for their first text only.
LEMMA GuardedTwo ==
  ASSUME NEW n, n \in FirstTextOnly, NEW a, NEW b,
         Ending(a, n), Following(b, n)
  PROVE  FormOf(<<a, b>>, n)
BY DEF FormOf, FirstTextOnly, Guarded, Following, Ending

\* Two more texts.
LEMMA GuardedThree ==
  ASSUME NEW n, n \in FirstTextOnly, NEW a, NEW b, NEW c,
         Ending(a, n), Following(b, n), Following(c, n)
  PROVE  FormOf(<<a, b, c>>, n)
BY DEF FormOf, FirstTextOnly, Guarded, Following, Ending

\* Four more.
LEMMA GuardedFive ==
  ASSUME NEW n, n \in FirstTextOnly, NEW a, NEW b, NEW c, NEW d, NEW e,
         Ending(a, n), Following(b, n), Following(c, n), Following(d, n), Following(e, n)
  PROVE  FormOf(<<a, b, c, d, e>>, n)
BY DEF FormOf, FirstTextOnly, Guarded, Following, Ending

\* Three more, in a list of their own.
LEMMA GuardedFour ==
  ASSUME NEW n, n \in FirstTextOnly, NEW a, NEW b, NEW c, NEW d,
         Ending(a, n), Following(b, n), Following(c, n), Following(d, n)
  PROVE  FormOf(<<a>> \o <<b, c, d>>, n)
BY DEF FormOf, FirstTextOnly, Guarded, Following, Ending

\* Five more, in a list of their own.
LEMMA GuardedSix ==
  ASSUME NEW n, n \in FirstTextOnly, NEW a, NEW b, NEW c, NEW d, NEW e, NEW f,
         Ending(a, n), Following(b, n), Following(c, n), Following(d, n), Following(e, n),
         Following(f, n)
  PROVE  FormOf(<<a>> \o <<b, c, d, e, f>>, n)
BY DEF FormOf, FirstTextOnly, Guarded, Following, Ending

\* The steps with one edit.
LEMMA OneEditSteps ==
  /\ FormOf(patch_main, "patch_main")
  /\ FormOf(patch_dns, "patch_dns")
  /\ FormOf(patch_reconnect, "patch_reconnect")
  /\ FormOf(patch_softreboot, "softreboot")
  /\ FormOf(patch_eapol_replay, "eapol_replay")
  /\ FormOf(patch_vinterp_c, "vinterp")
  /\ FormOf(patch_stdlib_core, "stdlib")
  /\ FormOf(strip_tweetnacl, "strip_tweetnacl")
  /\ FormOf(modernize_pages, "modernize_pages")
  /\ FormOf(patch_makefile, "makefile")
  /\ FormOf(patch_bootloader, "bootloader")
  /\ FormOf(patch_mdns, "mdns")
  /\ FormOf(patch_wpa2_group_key, "wpa2_gtk")
  /\ FormOf(patch_eapol_group_ack, "eapol_group_ack")
  /\ FormOf(patch_eapol_ptk_rekey, "eapol_ptk_rekey")
  /\ FormOf(patch_vm_bounds, "vm_bounds")
  /\ FormOf(patch_linker_keep, "linker_keep")
  /\ FormOf(patch_gc_sections, "gc_sections")
  /\ FormOf(patch_audio_fifo_data, "audio_fifo_data")
  /\ FormOf(patch_boot_marker, "boot_marker")
  /\ FormOf(patch_inline_mkwav, "inline_mkwav")
  /\ FormOf(patch_strip_dump, "strip_dump")
  /\ FormOf(patch_strip_secho, "strip_secho")
  /\ FormOf(patch_strip_echo_funs, "strip_echo_funs")
  /\ FormOf(patch_strip_echo_opcodes, "strip_echo_opcodes")
  /\ FormOf(patch_inline_dump_calls, "inline_dump_calls")
  /\ FormOf(patch_prune_orphans, "prune_orphans")
<1> USE OneEdit DEF Ordinary, FirstTextOnly, Owned, vbc, mtl_vbc, vinterp, stdlib, boot, ieee80211_h, ieee80211,
                        eapol, audio, vaudio, ld, main_mtl, wifi_mtl, gtk, sae, rom, metal
<1>1. FormOf(patch_main, "patch_main")
  BY DEF patch_main
<1>2. FormOf(patch_dns, "patch_dns")
  BY DEF patch_dns
<1>3. FormOf(patch_reconnect, "patch_reconnect")
  BY DEF patch_reconnect
<1>4. FormOf(patch_softreboot, "softreboot")
  BY DEF patch_softreboot
<1>5. FormOf(patch_eapol_replay, "eapol_replay")
  BY DEF patch_eapol_replay
<1>6. FormOf(patch_vinterp_c, "vinterp")
  BY DEF patch_vinterp_c
<1>7. FormOf(patch_stdlib_core, "stdlib")
  BY DEF patch_stdlib_core
<1>8. FormOf(strip_tweetnacl, "strip_tweetnacl")
  BY DEF strip_tweetnacl
<1>9. FormOf(modernize_pages, "modernize_pages")
  BY DEF modernize_pages
<1>10. FormOf(patch_makefile, "makefile")
  BY DEF patch_makefile
<1>11. FormOf(patch_bootloader, "bootloader")
  BY DEF patch_bootloader
<1>12. FormOf(patch_mdns, "mdns")
  BY DEF patch_mdns
<1>13. FormOf(patch_wpa2_group_key, "wpa2_gtk")
  BY DEF patch_wpa2_group_key
<1>14. FormOf(patch_eapol_group_ack, "eapol_group_ack")
  BY DEF patch_eapol_group_ack
<1>15. FormOf(patch_eapol_ptk_rekey, "eapol_ptk_rekey")
  BY DEF patch_eapol_ptk_rekey
<1>16. FormOf(patch_vm_bounds, "vm_bounds")
  BY DEF patch_vm_bounds
<1>17. FormOf(patch_linker_keep, "linker_keep")
  BY DEF patch_linker_keep
<1>18. FormOf(patch_gc_sections, "gc_sections")
  BY DEF patch_gc_sections
<1>19. FormOf(patch_audio_fifo_data, "audio_fifo_data")
  BY DEF patch_audio_fifo_data
<1>20. FormOf(patch_boot_marker, "boot_marker")
  BY DEF patch_boot_marker
<1>21. FormOf(patch_inline_mkwav, "inline_mkwav")
  BY DEF patch_inline_mkwav
<1>22. FormOf(patch_strip_dump, "strip_dump")
  BY DEF patch_strip_dump
<1>23. FormOf(patch_strip_secho, "strip_secho")
  BY DEF patch_strip_secho
<1>24. FormOf(patch_strip_echo_funs, "strip_echo_funs")
  BY DEF patch_strip_echo_funs
<1>25. FormOf(patch_strip_echo_opcodes, "strip_echo_opcodes")
  BY DEF patch_strip_echo_opcodes
<1>26. FormOf(patch_inline_dump_calls, "inline_dump_calls")
  BY DEF patch_inline_dump_calls
<1>27. FormOf(patch_prune_orphans, "prune_orphans")
  BY DEF patch_prune_orphans
<1> QED
  BY <1>1, <1>2, <1>3, <1>4, <1>5, <1>6, <1>7, <1>8, <1>9, <1>10, <1>11, <1>12, <1>13, <1>14,
     <1>15, <1>16, <1>17, <1>18, <1>19, <1>20, <1>21, <1>22, <1>23, <1>24, <1>25, <1>26, <1>27

\* The steps with several edits, each of which looks for its own text.
LEMMA ManyEditsSteps ==
  /\ FormOf(patch_wifi_reconnect, "patch_wifi_reconnect")
  /\ FormOf(patch_cold_state, "cold_state")
  /\ FormOf(patch_vbc_h, "vbc")
  /\ FormOf(patch_group_cipher, "group_cipher")
  /\ FormOf(patch_wpa3_sae, "wpa3_sae")
  /\ FormOf(patch_wpa3_boot_password, "wpa3_boot_pw")
  /\ FormOf(patch_wpa3_timing, "wpa3_timing")
  /\ FormOf(patch_usb_robustness, "usb_robustness")
<1>1. FormOf(patch_wifi_reconnect, "patch_wifi_reconnect")
  <2> DEFINE n == "patch_wifi_reconnect"
  <2>1. Ordinary(n)
    BY DEF Ordinary, FirstTextOnly
  <2>2. /\ Owned(<<wifi_mtl, "wificrypttype">>, n)
        /\ Owned(<<wifi_mtl, "wifiAuth">>, n)
        /\ Owned(<<wifi_mtl, "gostationW">>, n)
        /\ Owned(<<main_mtl, "wifi lost">>, n)
    BY DEF Owned, vbc, mtl_vbc, vinterp, stdlib, boot, ieee80211_h, ieee80211,
               eapol, audio, vaudio, ld, main_mtl, wifi_mtl, gtk, sae, rom, metal
  <2> HIDE DEF n
  <2>3. Going(Skips(wifi_mtl, "wificrypttype"), n)
    BY <2>2, EditForms, AnchorForms
  <2>4. Going(Skips(wifi_mtl, "wifiAuth"), n)
    BY <2>2, EditForms, AnchorForms
  <2>5. Going(Skips(wifi_mtl, "gostationW"), n)
    BY <2>2, EditForms, AnchorForms
  <2>6. Going(Skips(main_mtl, "wifi lost"), n)
    BY <2>2, EditForms, AnchorForms
  <2>10. FormOf(patch_wifi_reconnect, n)
    BY <2>1, <2>3, <2>4, <2>5, <2>6, FourEdits
    DEF patch_wifi_reconnect
  <2> QED
    BY <2>10 DEF n
<1>2. FormOf(patch_cold_state, "cold_state")
  <2> DEFINE n == "cold_state"
  <2>1. Ordinary(n)
    BY DEF Ordinary, FirstTextOnly
  <2>2. /\ Owned(<<"usbhcore.c", ".data">>, n)
        /\ Owned(<<"usbctrl.c", ".data">>, n)
        /\ Owned(<<audio, ".data">>, n)
        /\ Owned(<<eapol, "eapol_state .data">>, n)
        /\ Owned(<<eapol, "replay_active .data">>, n)
        /\ Owned(<<ieee80211_h, ".data">>, n)
    BY DEF Owned, vbc, mtl_vbc, vinterp, stdlib, boot, ieee80211_h, ieee80211,
               eapol, audio, vaudio, ld, main_mtl, wifi_mtl, gtk, sae, rom, metal
  <2> HIDE DEF n
  <2>3. Going(Skips("usbhcore.c", ".data"), n)
    BY <2>2, EditForms, AnchorForms
  <2>4. Going(Skips("usbctrl.c", ".data"), n)
    BY <2>2, EditForms, AnchorForms
  <2>5. Going(Skips(audio, ".data"), n)
    BY <2>2, EditForms, AnchorForms
  <2>6. Going(Skips(eapol, "eapol_state .data"), n)
    BY <2>2, EditForms, AnchorForms
  <2>7. Going(Skips(eapol, "replay_active .data"), n)
    BY <2>2, EditForms, AnchorForms
  <2>8. Going(Skips(ieee80211_h, ".data"), n)
    BY <2>2, EditForms, AnchorForms
  <2>10. FormOf(patch_cold_state, n)
    BY <2>1, <2>3, <2>4, <2>5, <2>6, <2>7, <2>8, SixEdits
    DEF patch_cold_state
  <2> QED
    BY <2>10 DEF n
<1>3. FormOf(patch_vbc_h, "vbc")
  <2> DEFINE n == "vbc"
  <2>1. Ordinary(n)
    BY DEF Ordinary, FirstTextOnly
  <2>2. /\ Owned(<<vbc, "OPverifySig">>, n)
        /\ Owned(<<mtl_vbc, "OPverifySig">>, n)
    BY DEF Owned, vbc, mtl_vbc, vinterp, stdlib, boot, ieee80211_h, ieee80211,
               eapol, audio, vaudio, ld, main_mtl, wifi_mtl, gtk, sae, rom, metal
  <2> HIDE DEF n
  <2>3. Going(Skips(vbc, "OPverifySig"), n)
    BY <2>2, EditForms, AnchorForms
  <2>4. Going(Skips(mtl_vbc, "OPverifySig"), n)
    BY <2>2, EditForms, AnchorForms
  <2>10. FormOf(patch_vbc_h, n)
    BY <2>1, <2>3, <2>4, TwoEdits
    DEF patch_vbc_h
  <2> QED
    BY <2>10 DEF n
<1>4. FormOf(patch_group_cipher, "group_cipher")
  <2> DEFINE n == "group_cipher"
  <2>1. Ordinary(n)
    BY DEF Ordinary, FirstTextOnly
  <2>2. /\ Owned(<<ieee80211_h, "ieee80211_group_cipher">>, n)
        /\ Owned(<<ieee80211, "ieee80211_group_cipher">>, n)
        /\ Owned(<<eapol, "ieee80211_group_cipher">>, n)
    BY DEF Owned, vbc, mtl_vbc, vinterp, stdlib, boot, ieee80211_h, ieee80211,
               eapol, audio, vaudio, ld, main_mtl, wifi_mtl, gtk, sae, rom, metal
  <2> HIDE DEF n
  <2>3. Going(Skips(ieee80211_h, "ieee80211_group_cipher"), n)
    BY <2>2, EditForms, AnchorForms
  <2>4. Going(Skips(ieee80211, "ieee80211_group_cipher"), n)
    BY <2>2, EditForms, AnchorForms
  <2>5. Ending(After(Returns(eapol, "ieee80211_group_cipher"), {gtk}), n)
    BY <2>2, EditForms, AnchorForms
  <2>10. FormOf(patch_group_cipher, n)
    BY <2>1, <2>3, <2>4, <2>5, ThreeEdits
    DEF patch_group_cipher
  <2> QED
    BY <2>10 DEF n
<1>5. FormOf(patch_wpa3_sae, "wpa3_sae")
  <2> DEFINE n == "wpa3_sae"
  <2>1. Ordinary(n)
    BY DEF Ordinary, FirstTextOnly
  <2>2. /\ Owned(<<ieee80211_h, "IEEE80211_AUTH_ALG_SAE">>, n)
        /\ Owned(<<"vnet.c", "ieee80211_sae_password">>, n)
        /\ Owned(<<sae[1], sae[2]>>, n)
        /\ Owned(<<eapol, "ieee80211_install_igtk">>, n)
    BY DEF Owned, vbc, mtl_vbc, vinterp, stdlib, boot, ieee80211_h, ieee80211,
               eapol, audio, vaudio, ld, main_mtl, wifi_mtl, gtk, sae, rom, metal
  <2> HIDE DEF n
  <2>3. Going(Skips(ieee80211_h, "IEEE80211_AUTH_ALG_SAE"), n)
    BY <2>2, EditForms, AnchorForms
  <2>4. Going(Skips("vnet.c", "ieee80211_sae_password"), n)
    BY <2>2, EditForms, AnchorForms
  <2>5. Going(Skips(sae[1], sae[2]), n)
    BY <2>2, EditForms, AnchorForms
  <2>6. Going(After(Skips(eapol, "ieee80211_install_igtk"), {gtk}), n)
    BY <2>2, EditForms, AnchorForms
  <2>7. \A i \in 1..4 : Going(patch_sae_crypto[i], n)
    <3> TAKE i \in 1..4
    <3> DEFINE f == <<"p256.c", "sha256.c", "cmac.c", "sae.c">>[i]
    <3>1. Owned(<<f, "staged">>, n)
      BY DEF Owned, vbc, mtl_vbc, vinterp, stdlib, boot, ieee80211_h, ieee80211,
                 eapol, audio, vaudio, ld, main_mtl, wifi_mtl, gtk, sae, rom, metal
    <3> QED
      BY <3>1, EditForms DEF patch_sae_crypto
  <2>10. FormOf(patch_wpa3_sae, n)
    BY <2>1, <2>3, <2>4, <2>5, <2>6, <2>7, EightEdits
    DEF patch_wpa3_sae, patch_sae_driver
  <2> QED
    BY <2>10 DEF n
<1>6. FormOf(patch_wpa3_boot_password, "wpa3_boot_pw")
  <2> DEFINE n == "wpa3_boot_pw"
  <2>1. Ordinary(n)
    BY DEF Ordinary, FirstTextOnly
  <2>2. /\ Owned(<<vbc, "OPnetSaePw">>, n)
        /\ Owned(<<mtl_vbc, "OPnetSaePw">>, n)
        /\ Owned(<<vinterp, "OPnetSaePw">>, n)
        /\ Owned(<<stdlib, "netSaePw">>, n)
        /\ Owned(<<boot, "netSaePw">>, n)
    BY DEF Owned, vbc, mtl_vbc, vinterp, stdlib, boot, ieee80211_h, ieee80211,
               eapol, audio, vaudio, ld, main_mtl, wifi_mtl, gtk, sae, rom, metal
  <2> HIDE DEF n
  <2>3. Going(After(Skips(vbc, "OPnetSaePw"), {<<vbc, "OPverifySig">>}), n)
    BY <2>2, EditForms, AnchorForms
  <2>4. Going(After(Skips(mtl_vbc, "OPnetSaePw"), {<<mtl_vbc, "OPverifySig">>}), n)
    BY <2>2, EditForms, AnchorForms
  <2>5. Going(After(Skips(vinterp, "OPnetSaePw"), {<<vinterp, "OPverifySig">>}), n)
    BY <2>2, EditForms, AnchorForms
  <2>6. Going(Unspoiled(After(Skips(stdlib, "netSaePw"), NBcore120), {<<stdlib, "pageRender">>}), n)
    BY <2>2, EditForms, AnchorForms
  <2>7. Ending(Unspoiled(Returns(boot, "netSaePw"), {<<boot, "echo-opcodes-stripped">>}), n)
    BY <2>2, EditForms, AnchorForms
  <2>10. FormOf(patch_wpa3_boot_password, n)
    BY <2>1, <2>3, <2>4, <2>5, <2>6, <2>7, FiveEdits
    DEF patch_wpa3_boot_password
  <2> QED
    BY <2>10 DEF n
<1>7. FormOf(patch_wpa3_timing, "wpa3_timing")
  <2> DEFINE n == "wpa3_timing"
  <2>1. Ordinary(n)
    BY DEF Ordinary, FirstTextOnly
  <2>2. /\ Owned(<<vbc, "OPnetSaeMs">>, n)
        /\ Owned(<<mtl_vbc, "OPnetSaeMs">>, n)
        /\ Owned(<<ieee80211, "ieee80211_sae_time_commit">>, n)
        /\ Owned(<<ieee80211_h, "ieee80211_sae_time_commit">>, n)
        /\ Owned(<<vinterp, "OPnetSaeMs">>, n)
        /\ Owned(<<stdlib, "netSaeMs">>, n)
        /\ Owned(<<boot, "netSaeMs">>, n)
    BY DEF Owned, vbc, mtl_vbc, vinterp, stdlib, boot, ieee80211_h, ieee80211,
               eapol, audio, vaudio, ld, main_mtl, wifi_mtl, gtk, sae, rom, metal
  <2> HIDE DEF n
  <2>3. Going(After(Skips(vbc, "OPnetSaeMs"), {<<vbc, "OPnetSaePw">>}), n)
    BY <2>2, EditForms, AnchorForms
  <2>4. Going(After(Skips(mtl_vbc, "OPnetSaeMs"), {<<mtl_vbc, "OPnetSaePw">>}), n)
    BY <2>2, EditForms, AnchorForms
  <2>5. Going(After(Skips(ieee80211, "ieee80211_sae_time_commit"), {sae}), n)
    BY <2>2, EditForms, AnchorForms
  <2>6. Going(After(Skips(ieee80211_h, "ieee80211_sae_time_commit"), {<<ieee80211_h, "IEEE80211_AUTH_ALG_SAE">>}), n)
    BY <2>2, EditForms, AnchorForms
  <2>7. Going(After(Skips(vinterp, "OPnetSaeMs"), {<<vinterp, "OPnetSaePw">>}), n)
    BY <2>2, EditForms, AnchorForms
  <2>8. Going(After(Skips(stdlib, "netSaeMs"), NBcore121), n)
    BY <2>2, EditForms, AnchorForms
  <2>9. Ending(Unspoiled(Returns(boot, "netSaeMs"), {<<boot, "&z=">>}), n)
    BY <2>2, EditForms, AnchorForms
  <2>10. FormOf(patch_wpa3_timing, n)
    BY <2>1, <2>3, <2>4, <2>5, <2>6, <2>7, <2>8, <2>9, FourAndThree
    DEF patch_wpa3_timing, patch_timing_driver, patch_timing_bytecode
  <2> QED
    BY <2>10 DEF n
<1>8. FormOf(patch_usb_robustness, "usb_robustness")
  <2> DEFINE n == "usb_robustness"
  <2>1. Ordinary(n)
    BY DEF Ordinary, FirstTextOnly
  <2>2. /\ Owned(<<"rt2501usb.c", "robust start">>, n)
        /\ Owned(<<"usbhcore.c", "enumeration">>, n)
        /\ Owned(<<"hcd.c", "status kept">>, n)
        /\ Owned(<<ieee80211, "comram_tries">>, n)
    BY DEF Owned, vbc, mtl_vbc, vinterp, stdlib, boot, ieee80211_h, ieee80211,
               eapol, audio, vaudio, ld, main_mtl, wifi_mtl, gtk, sae, rom, metal
  <2> HIDE DEF n
  <2>3. Going(Skips("rt2501usb.c", "robust start"), n)
    BY <2>2, EditForms, AnchorForms
  <2>4. Going(Skips("usbhcore.c", "enumeration"), n)
    BY <2>2, EditForms, AnchorForms
  <2>5. Going(Skips("hcd.c", "status kept"), n)
    BY <2>2, EditForms, AnchorForms
  <2>6. Going(Skips(ieee80211, "comram_tries"), n)
    BY <2>2, EditForms, AnchorForms
  <2>10. FormOf(patch_usb_robustness, n)
    BY <2>1, <2>3, <2>4, <2>5, <2>6, OneAndThree
    DEF patch_usb_robustness, patch_usb_firmware, patch_usb_rest
  <2> QED
    BY <2>10 DEF n
<1> QED
  BY <1>1, <1>2, <1>3, <1>4, <1>5, <1>6, <1>7, <1>8

\* The steps that look for their first text only.
LEMMA GuardedSteps ==
  /\ FormOf(patch_audio_halfduplex, "audio_halfduplex")
  /\ FormOf(patch_bounded_waits, "bounded_waits")
  /\ FormOf(patch_flash_verify, "flash_verify")
  /\ FormOf(patch_extbss, "extbss")
  /\ FormOf(patch_no_libc_malloc, "no_libc_malloc")
  /\ FormOf(patch_audio_ampli, "audio_ampli")
<1>1. FormOf(patch_audio_halfduplex, "audio_halfduplex")
  <2> DEFINE n == "audio_halfduplex"
  <2>1. n \in FirstTextOnly
    BY DEF Ordinary, FirstTextOnly
  <2>2. /\ Owned(<<"audio.h", "NAB_AUDIO_STATUS">>, n)
        /\ Owned(<<audio, "refusals">>, n)
        /\ Owned(<<"vaudio.h", "status">>, n)
        /\ Owned(<<vaudio, "status">>, n)
        /\ Owned(<<vinterp, "status">>, n)
    BY DEF Owned, vbc, mtl_vbc, vinterp, stdlib, boot, ieee80211_h, ieee80211,
               eapol, audio, vaudio, ld, main_mtl, wifi_mtl, gtk, sae, rom, metal
  <2> HIDE DEF n
  <2>3. Ending(Returns("audio.h", "NAB_AUDIO_STATUS"), n)
    BY <2>2, EditForms, AnchorForms
  <2>4. Following(Blind(audio, "refusals"), n)
    BY <2>2, EditForms, AnchorForms
  <2>5. Following(Blind("vaudio.h", "status"), n)
    BY <2>2, EditForms, AnchorForms
  <2>6. Following(Blind(vaudio, "status"), n)
    BY <2>2, EditForms, AnchorForms
  <2>7. Following(Blind(vinterp, "status"), n)
    BY <2>2, EditForms, AnchorForms
  <2>10. FormOf(patch_audio_halfduplex, n)
    BY <2>1, <2>3, <2>4, <2>5, <2>6, <2>7, GuardedFive
    DEF patch_audio_halfduplex
  <2> QED
    BY <2>10 DEF n
<1>2. FormOf(patch_bounded_waits, "bounded_waits")
  <2> DEFINE n == "bounded_waits"
  <2>1. n \in FirstTextOnly
    BY DEF Ordinary, FirstTextOnly
  <2>2. /\ Owned(<<audio, "VLSI_DREQ_PETS">>, n)
        /\ Owned(<<"rt2501usb.c", "bounded loops">>, n)
    BY DEF Owned, vbc, mtl_vbc, vinterp, stdlib, boot, ieee80211_h, ieee80211,
               eapol, audio, vaudio, ld, main_mtl, wifi_mtl, gtk, sae, rom, metal
  <2> HIDE DEF n
  <2>3. Ending(Returns(audio, "VLSI_DREQ_PETS"), n)
    BY <2>2, EditForms, AnchorForms
  <2>4. Following(Blind("rt2501usb.c", "bounded loops"), n)
    BY <2>2, EditForms, AnchorForms
  <2>10. FormOf(patch_bounded_waits, n)
    BY <2>1, <2>3, <2>4, GuardedTwo
    DEF patch_bounded_waits
  <2> QED
    BY <2>10 DEF n
<1>3. FormOf(patch_flash_verify, "flash_verify")
  <2> DEFINE n == "flash_verify"
  <2>1. n \in FirstTextOnly
    BY DEF Ordinary, FirstTextOnly
  <2>2. /\ Owned(<<"mem.c", "flash_verify_word">>, n)
        /\ Owned(<<"mem.h", "int32_t flash_uc">>, n)
        /\ Owned(<<"vlog.h", "int32_t sysFlash">>, n)
        /\ Owned(<<"vlog.c", "int32_t sysFlash">>, n)
        /\ Owned(<<vinterp, "OPflashFirmware result">>, n)
        /\ Owned(<<boot, "flash failed">>, n)
    BY DEF Owned, vbc, mtl_vbc, vinterp, stdlib, boot, ieee80211_h, ieee80211,
               eapol, audio, vaudio, ld, main_mtl, wifi_mtl, gtk, sae, rom, metal
  <2> HIDE DEF n
  <2>3. Ending(Returns("mem.c", "flash_verify_word"), n)
    BY <2>2, EditForms, AnchorForms
  <2>4. Following(Blind("mem.h", "int32_t flash_uc"), n)
    BY <2>2, EditForms, AnchorForms
  <2>5. Following(Blind("vlog.h", "int32_t sysFlash"), n)
    BY <2>2, EditForms, AnchorForms
  <2>6. Following(Blind("vlog.c", "int32_t sysFlash"), n)
    BY <2>2, EditForms, AnchorForms
  <2>7. Following(Blind(vinterp, "OPflashFirmware result"), n)
    BY <2>2, EditForms, AnchorForms
  <2>8. Following(Unspoiled(After(Blind(boot, "flash failed"), {<<boot, "verifySig">>}), stripped), n)
    BY <2>2, EditForms, AnchorForms
  <2>10. FormOf(patch_flash_verify, n)
    BY <2>1, <2>3, <2>4, <2>5, <2>6, <2>7, <2>8, GuardedSix
    DEF patch_flash_verify, patch_flash_mem, patch_flash_users
  <2> QED
    BY <2>10 DEF n
<1>4. FormOf(patch_extbss, "extbss")
  <2> DEFINE n == "extbss"
  <2>1. n \in FirstTextOnly
    BY DEF Ordinary, FirstTextOnly
  <2>2. /\ Owned(<<ld, ".extbss">>, n)
        /\ Owned(<<vaudio, ".extbss">>, n)
        /\ Owned(<<"vlog.c", ".extbss">>, n)
    BY DEF Owned, vbc, mtl_vbc, vinterp, stdlib, boot, ieee80211_h, ieee80211,
               eapol, audio, vaudio, ld, main_mtl, wifi_mtl, gtk, sae, rom, metal
  <2> HIDE DEF n
  <2>3. Ending(Returns(ld, ".extbss"), n)
    BY <2>2, EditForms, AnchorForms
  <2>4. Following(Skips(vaudio, ".extbss"), n)
    BY <2>2, EditForms, AnchorForms
  <2>5. Following(Skips("vlog.c", ".extbss"), n)
    BY <2>2, EditForms, AnchorForms
  <2>10. FormOf(patch_extbss, n)
    BY <2>1, <2>3, <2>4, <2>5, GuardedThree
    DEF patch_extbss
  <2> QED
    BY <2>10 DEF n
<1>5. FormOf(patch_no_libc_malloc, "no_libc_malloc")
  <2> DEFINE n == "no_libc_malloc"
  <2>1. n \in FirstTextOnly
    BY DEF Ordinary, FirstTextOnly
  <2>2. /\ Owned(<<"common.h", "nab_rand">>, n)
        /\ Owned(<<"sys.c", "nab_rand">>, n)
        /\ Owned(<<eapol, "nab_rand">>, n)
        /\ Owned(<<ieee80211, "nab_rand">>, n)
    BY DEF Owned, vbc, mtl_vbc, vinterp, stdlib, boot, ieee80211_h, ieee80211,
               eapol, audio, vaudio, ld, main_mtl, wifi_mtl, gtk, sae, rom, metal
  <2> HIDE DEF n
  <2>3. Ending(Returns("common.h", "nab_rand"), n)
    BY <2>2, EditForms, AnchorForms
  <2>4. Following(Blind("sys.c", "nab_rand"), n)
    BY <2>2, EditForms, AnchorForms
  <2>5. Following(Blind(eapol, "nab_rand"), n)
    BY <2>2, EditForms, AnchorForms
  <2>6. Following(Blind(ieee80211, "nab_rand"), n)
    BY <2>2, EditForms, AnchorForms
  <2>10. FormOf(patch_no_libc_malloc, n)
    BY <2>1, <2>3, <2>4, <2>5, <2>6, GuardedFour
    DEF patch_no_libc_malloc, patch_nab_rand_h, patch_nab_rand
  <2> QED
    BY <2>10 DEF n
<1>6. FormOf(patch_audio_ampli, "audio_ampli")
  <2> DEFINE n == "audio_ampli"
  <2>1. n \in FirstTextOnly
    BY DEF Ordinary, FirstTextOnly
  <2>2. /\ Owned(<<"audio.h", "NAB_AUDIO_AMPLI_PLAY_ONLY">>, n)
        /\ Owned(<<audio, "volume-alone">>, n)
    BY DEF Owned, vbc, mtl_vbc, vinterp, stdlib, boot, ieee80211_h, ieee80211,
               eapol, audio, vaudio, ld, main_mtl, wifi_mtl, gtk, sae, rom, metal
  <2> HIDE DEF n
  <2>3. Ending(Returns("audio.h", "NAB_AUDIO_AMPLI_PLAY_ONLY"), n)
    BY <2>2, EditForms, AnchorForms
  <2>4. Following(Blind(audio, "volume-alone"), n)
    BY <2>2, EditForms, AnchorForms
  <2>10. FormOf(patch_audio_ampli, n)
    BY <2>1, <2>3, <2>4, GuardedTwo
    DEF patch_audio_ampli
  <2> QED
    BY <2>10 DEF n
<1> QED
  BY <1>1, <1>2, <1>3, <1>4, <1>5, <1>6

\* rom_pages looks at boot.mtl first and writes it last.
LEMMA ProbedEight ==
  ASSUME NEW a, NEW b, NEW c, NEW d, NEW e, NEW f, NEW g, NEW h,
         a.found = "probe", a.text = rom, a.lacks = {metal}, Failing(h, "rom_pages"), h.text = rom,
         Between(b), Between(c), Between(d), Between(e), Between(f), Between(g),
         Owned(rom, "rom_pages")
  PROVE  FormOf(<<a, b, c, d, e, f, g>> \o <<h>>, "rom_pages")
BY DEF FormOf, FirstTextOnly, Probed, Between, Going, Failing

\* So rom_pages ends with the text that tells a rerun all of it is done.
LEMMA RomPagesForm == FormOf(patch_rom_pages, "rom_pages")
<1> DEFINE n == "rom_pages"
<1>1. /\ Owned(<<"rom_pages_data.h", "pages">>, n) /\ Owned(<<"rom_pages.c", "pages">>, n)
      /\ Owned(<<vbc, "OPpageRender">>, n) /\ Owned(<<mtl_vbc, "OPpageRender">>, n)
      /\ Owned(<<vinterp, "OPpageRender">>, n) /\ Owned(<<stdlib, "pageRender">>, n)
      /\ Owned(rom, n)
  BY DEF Owned, vbc, mtl_vbc, vinterp, stdlib, boot, ieee80211, audio, ld, sae, rom, metal
<1>2. /\ rom # <<"rom_pages_data.h", "pages">> /\ rom # <<"rom_pages.c", "pages">>
      /\ rom # <<vbc, "OPpageRender">> /\ rom # <<mtl_vbc, "OPpageRender">>
      /\ rom # <<vinterp, "OPpageRender">> /\ rom # <<stdlib, "pageRender">>
      /\ rom = <<rom[1], rom[2]>>
  BY DEF vbc, mtl_vbc, vinterp, stdlib, boot, rom
<1>3. /\ patch_rom_pages_looks.found = "probe" /\ patch_rom_pages_looks.text = rom
      /\ patch_rom_pages_looks.lacks = {metal}
  BY <1>2 DEF patch_rom_pages_looks, Unspoiled, Returns, Edit
<1> HIDE DEF n
<1>4. /\ Going(Rewrites("rom_pages_data.h", "pages"), n) /\ Going(Rewrites("rom_pages.c", "pages"), n)
  BY <1>1, EditForms
<1>5. /\ Going(After(Skips(vbc, "OPpageRender"), {<<vbc, "OPverifySig">>}), n)
      /\ Going(After(Skips(mtl_vbc, "OPpageRender"), {<<mtl_vbc, "OPverifySig">>}), n)
      /\ Going(After(Skips(vinterp, "OPpageRender"), {<<vinterp, "OPverifySig">>}), n)
  BY <1>1, AnchorForms
<1>6. Going(Unspoiled(After(Skips(stdlib, "pageRender"), NBcore120), {<<stdlib, "netSaePw">>}), n)
  BY <1>1, AnchorForms
<1>7. Failing(Blind(rom[1], rom[2]), n) /\ Blind(rom[1], rom[2]).text = rom
  <2>1. Owned(<<rom[1], rom[2]>>, n)
    BY <1>1, <1>2
  <2> QED
    BY <2>1, <1>2, EditForms DEF Blind, Edit
<1>8. /\ Between(Rewrites("rom_pages_data.h", "pages")) /\ Between(Rewrites("rom_pages.c", "pages"))
  BY <1>4, <1>2 DEF Between, Rewrites, Edit, n
<1>9. /\ Between(After(Skips(vbc, "OPpageRender"), {<<vbc, "OPverifySig">>}))
      /\ Between(After(Skips(mtl_vbc, "OPpageRender"), {<<mtl_vbc, "OPverifySig">>}))
      /\ Between(After(Skips(vinterp, "OPpageRender"), {<<vinterp, "OPverifySig">>}))
  BY <1>5, <1>2 DEF Between, Skips, Edit, After, n
<1>10. Between(Unspoiled(After(Skips(stdlib, "pageRender"), NBcore120), {<<stdlib, "netSaePw">>}))
  BY <1>6, <1>2 DEF Between, Skips, Edit, After, Unspoiled, n
<1> QED
  BY <1>1, <1>3, <1>7, <1>8, <1>9, <1>10, ProbedEight
  DEF patch_rom_pages, _rewrite_boot_for_rom_pages, n

\* Every step has the form its name tells.
LEMMA StepForms == \A n \in DOMAIN fns : FormOf(fns[n], n)
<1>1. \A n \in DOMAIN fns :
        n \in {"patch_main", "patch_dns", "patch_reconnect", "softreboot",
               "patch_wifi_reconnect", "eapol_replay", "cold_state", "vbc", "vinterp", "stdlib",
               "strip_tweetnacl", "modernize_pages", "makefile", "bootloader", "mdns",
               "wpa2_gtk", "eapol_group_ack", "group_cipher", "eapol_ptk_rekey", "vm_bounds",
               "linker_keep", "gc_sections", "audio_fifo_data", "audio_halfduplex",
               "bounded_waits", "wpa3_sae", "wpa3_boot_pw", "wpa3_timing", "boot_marker",
               "flash_verify", "usb_robustness", "extbss", "no_libc_malloc", "audio_ampli",
               "rom_pages", "inline_mkwav", "strip_dump", "strip_secho", "strip_echo_funs",
               "strip_echo_opcodes", "inline_dump_calls", "prune_orphans"}
  BY DEF fns
<1>2. FormOf(fns["patch_main"], "patch_main")
  <2>1. fns["patch_main"] = patch_main
    BY DEF fns
  <2> QED
    BY <2>1, OneEditSteps
<1>3. FormOf(fns["patch_dns"], "patch_dns")
  <2>1. fns["patch_dns"] = patch_dns
    BY DEF fns
  <2> QED
    BY <2>1, OneEditSteps
<1>4. FormOf(fns["patch_reconnect"], "patch_reconnect")
  <2>1. fns["patch_reconnect"] = patch_reconnect
    BY DEF fns
  <2> QED
    BY <2>1, OneEditSteps
<1>5. FormOf(fns["softreboot"], "softreboot")
  <2>1. fns["softreboot"] = patch_softreboot
    BY DEF fns
  <2> QED
    BY <2>1, OneEditSteps
<1>6. FormOf(fns["patch_wifi_reconnect"], "patch_wifi_reconnect")
  <2>1. fns["patch_wifi_reconnect"] = patch_wifi_reconnect
    BY DEF fns
  <2> QED
    BY <2>1, ManyEditsSteps
<1>7. FormOf(fns["eapol_replay"], "eapol_replay")
  <2>1. fns["eapol_replay"] = patch_eapol_replay
    BY DEF fns
  <2> QED
    BY <2>1, OneEditSteps
<1>8. FormOf(fns["cold_state"], "cold_state")
  <2>1. fns["cold_state"] = patch_cold_state
    BY DEF fns
  <2> QED
    BY <2>1, ManyEditsSteps
<1>9. FormOf(fns["vbc"], "vbc")
  <2>1. fns["vbc"] = patch_vbc_h
    BY DEF fns
  <2> QED
    BY <2>1, ManyEditsSteps
<1>10. FormOf(fns["vinterp"], "vinterp")
  <2>1. fns["vinterp"] = patch_vinterp_c
    BY DEF fns
  <2> QED
    BY <2>1, OneEditSteps
<1>11. FormOf(fns["stdlib"], "stdlib")
  <2>1. fns["stdlib"] = patch_stdlib_core
    BY DEF fns
  <2> QED
    BY <2>1, OneEditSteps
<1>12. FormOf(fns["strip_tweetnacl"], "strip_tweetnacl")
  <2>1. fns["strip_tweetnacl"] = strip_tweetnacl
    BY DEF fns
  <2> QED
    BY <2>1, OneEditSteps
<1>13. FormOf(fns["modernize_pages"], "modernize_pages")
  <2>1. fns["modernize_pages"] = modernize_pages
    BY DEF fns
  <2> QED
    BY <2>1, OneEditSteps
<1>14. FormOf(fns["makefile"], "makefile")
  <2>1. fns["makefile"] = patch_makefile
    BY DEF fns
  <2> QED
    BY <2>1, OneEditSteps
<1>15. FormOf(fns["bootloader"], "bootloader")
  <2>1. fns["bootloader"] = patch_bootloader
    BY DEF fns
  <2> QED
    BY <2>1, OneEditSteps
<1>16. FormOf(fns["mdns"], "mdns")
  <2>1. fns["mdns"] = patch_mdns
    BY DEF fns
  <2> QED
    BY <2>1, OneEditSteps
<1>17. FormOf(fns["wpa2_gtk"], "wpa2_gtk")
  <2>1. fns["wpa2_gtk"] = patch_wpa2_group_key
    BY DEF fns
  <2> QED
    BY <2>1, OneEditSteps
<1>18. FormOf(fns["eapol_group_ack"], "eapol_group_ack")
  <2>1. fns["eapol_group_ack"] = patch_eapol_group_ack
    BY DEF fns
  <2> QED
    BY <2>1, OneEditSteps
<1>19. FormOf(fns["group_cipher"], "group_cipher")
  <2>1. fns["group_cipher"] = patch_group_cipher
    BY DEF fns
  <2> QED
    BY <2>1, ManyEditsSteps
<1>20. FormOf(fns["eapol_ptk_rekey"], "eapol_ptk_rekey")
  <2>1. fns["eapol_ptk_rekey"] = patch_eapol_ptk_rekey
    BY DEF fns
  <2> QED
    BY <2>1, OneEditSteps
<1>21. FormOf(fns["vm_bounds"], "vm_bounds")
  <2>1. fns["vm_bounds"] = patch_vm_bounds
    BY DEF fns
  <2> QED
    BY <2>1, OneEditSteps
<1>22. FormOf(fns["linker_keep"], "linker_keep")
  <2>1. fns["linker_keep"] = patch_linker_keep
    BY DEF fns
  <2> QED
    BY <2>1, OneEditSteps
<1>23. FormOf(fns["gc_sections"], "gc_sections")
  <2>1. fns["gc_sections"] = patch_gc_sections
    BY DEF fns
  <2> QED
    BY <2>1, OneEditSteps
<1>24. FormOf(fns["audio_fifo_data"], "audio_fifo_data")
  <2>1. fns["audio_fifo_data"] = patch_audio_fifo_data
    BY DEF fns
  <2> QED
    BY <2>1, OneEditSteps
<1>25. FormOf(fns["audio_halfduplex"], "audio_halfduplex")
  <2>1. fns["audio_halfduplex"] = patch_audio_halfduplex
    BY DEF fns
  <2> QED
    BY <2>1, GuardedSteps
<1>26. FormOf(fns["bounded_waits"], "bounded_waits")
  <2>1. fns["bounded_waits"] = patch_bounded_waits
    BY DEF fns
  <2> QED
    BY <2>1, GuardedSteps
<1>27. FormOf(fns["wpa3_sae"], "wpa3_sae")
  <2>1. fns["wpa3_sae"] = patch_wpa3_sae
    BY DEF fns
  <2> QED
    BY <2>1, ManyEditsSteps
<1>28. FormOf(fns["wpa3_boot_pw"], "wpa3_boot_pw")
  <2>1. fns["wpa3_boot_pw"] = patch_wpa3_boot_password
    BY DEF fns
  <2> QED
    BY <2>1, ManyEditsSteps
<1>29. FormOf(fns["wpa3_timing"], "wpa3_timing")
  <2>1. fns["wpa3_timing"] = patch_wpa3_timing
    BY DEF fns
  <2> QED
    BY <2>1, ManyEditsSteps
<1>30. FormOf(fns["boot_marker"], "boot_marker")
  <2>1. fns["boot_marker"] = patch_boot_marker
    BY DEF fns
  <2> QED
    BY <2>1, OneEditSteps
<1>31. FormOf(fns["flash_verify"], "flash_verify")
  <2>1. fns["flash_verify"] = patch_flash_verify
    BY DEF fns
  <2> QED
    BY <2>1, GuardedSteps
<1>32. FormOf(fns["usb_robustness"], "usb_robustness")
  <2>1. fns["usb_robustness"] = patch_usb_robustness
    BY DEF fns
  <2> QED
    BY <2>1, ManyEditsSteps
<1>33. FormOf(fns["extbss"], "extbss")
  <2>1. fns["extbss"] = patch_extbss
    BY DEF fns
  <2> QED
    BY <2>1, GuardedSteps
<1>34. FormOf(fns["no_libc_malloc"], "no_libc_malloc")
  <2>1. fns["no_libc_malloc"] = patch_no_libc_malloc
    BY DEF fns
  <2> QED
    BY <2>1, GuardedSteps
<1>35. FormOf(fns["audio_ampli"], "audio_ampli")
  <2>1. fns["audio_ampli"] = patch_audio_ampli
    BY DEF fns
  <2> QED
    BY <2>1, GuardedSteps
<1>36. FormOf(fns["rom_pages"], "rom_pages")
  <2>1. fns["rom_pages"] = patch_rom_pages
    BY DEF fns
  <2> QED
    BY <2>1, RomPagesForm
<1>37. FormOf(fns["inline_mkwav"], "inline_mkwav")
  <2>1. fns["inline_mkwav"] = patch_inline_mkwav
    BY DEF fns
  <2> QED
    BY <2>1, OneEditSteps
<1>38. FormOf(fns["strip_dump"], "strip_dump")
  <2>1. fns["strip_dump"] = patch_strip_dump
    BY DEF fns
  <2> QED
    BY <2>1, OneEditSteps
<1>39. FormOf(fns["strip_secho"], "strip_secho")
  <2>1. fns["strip_secho"] = patch_strip_secho
    BY DEF fns
  <2> QED
    BY <2>1, OneEditSteps
<1>40. FormOf(fns["strip_echo_funs"], "strip_echo_funs")
  <2>1. fns["strip_echo_funs"] = patch_strip_echo_funs
    BY DEF fns
  <2> QED
    BY <2>1, OneEditSteps
<1>41. FormOf(fns["strip_echo_opcodes"], "strip_echo_opcodes")
  <2>1. fns["strip_echo_opcodes"] = patch_strip_echo_opcodes
    BY DEF fns
  <2> QED
    BY <2>1, OneEditSteps
<1>42. FormOf(fns["inline_dump_calls"], "inline_dump_calls")
  <2>1. fns["inline_dump_calls"] = patch_inline_dump_calls
    BY DEF fns
  <2> QED
    BY <2>1, OneEditSteps
<1>43. FormOf(fns["prune_orphans"], "prune_orphans")
  <2>1. fns["prune_orphans"] = patch_prune_orphans
    BY DEF fns
  <2> QED
    BY <2>1, OneEditSteps
<1> QED
  BY <1>1, <1>2, <1>3, <1>4, <1>5, <1>6, <1>7, <1>8, <1>9, <1>10, <1>11, <1>12, <1>13, <1>14,
     <1>15, <1>16, <1>17, <1>18, <1>19, <1>20, <1>21, <1>22, <1>23, <1>24, <1>25, <1>26, <1>27,
     <1>28, <1>29, <1>30, <1>31, <1>32, <1>33, <1>34, <1>35, <1>36, <1>37, <1>38, <1>39, <1>40,
     <1>41, <1>42, <1>43

-----------------------------------------------------------------------------
\* The texts of the first k - 1 edits of the step n are in the sources; all of
\* them; and what a rerun takes for all of them.
Upto(n, k) ==
  \A i \in 1..Len(fns[n]) : i < k /\ fns[n][i].found # "probe" => fns[n][i].text \in tree
All(n) == Upto(n, Len(fns[n]) + 1)
First(n) == fns[n][1].text
Looks == FirstTextOnly \cup {"rom_pages"}
Applied(n) == IF n \in Looks THEN First(n) \in tree ELSE All(n)

\* The step names of the list l up to the k-th are known, and applied, or blank.
Through(l, k) ==
  \A i \in 1..Len(Lists[l]) :
    (i < k /\ Strip(Lists[l][i]) # NoName)
      => Strip(Lists[l][i]) \in DOMAIN fns /\ Applied(Strip(Lists[l][i]))

Live == Running \/ outcome = "ok"
Inside == Running /\ Known /\ edit > 1 /\ edit <= Len(Edits)

Types ==
  /\ at \in Nat \ {0} /\ edit \in Nat \ {0} /\ runs \in Nat
  /\ Live => list \in DOMAIN Lists /\ at <= Len(steps) + 1

\* What the run has gone through so far, and is in the middle of.
Taken == Live => Through(list, at) /\ (outcome = "ok" => at > Len(steps))
Begun ==
  (Running /\ Known) =>
    /\ edit <= Len(Edits) + 1
    /\ Step \in Looks /\ edit > Len(Edits) => First(Step) \in tree
    /\ Step \in FirstTextOnly /\ edit > 1 => First(Step) \in tree
    /\ Step = "rom_pages" /\ edit > 1 /\ edit <= Len(Edits) => metal \notin tree /\ Upto(Step, edit)
    /\ Step \notin Looks => Upto(Step, edit)

\* A first text stands for the whole step, unless the step was stopped inside.
FirstInv ==
  \A n \in FirstTextOnly :
    First(n) \in tree => All(n) \/ n \in broken \/ (Inside /\ Step = n /\ Upto(n, edit))
RomInv == rom \in tree => All("rom_pages") /\ metal \notin tree

\* The lists that went through, while all did.
WentThrough(l) ==
  /\ l \in DOMAIN Lists /\ ~Refuses(Lists[l])
  /\ Through(l, Len(Lists[l]) + 1)
DoneInv ==
  /\ \A l \in done \ {"none"} : WentThrough(l)
  /\ Running /\ Known /\ list \in done /\ Step \in Looks => edit = 1 \/ edit > Len(Edits)

\* Every text comes from a step of one of them, or of the one that runs.
Sowed(x, l) == \E i \in 1..Len(Lists[l]) : Owned(x, Strip(Lists[l][i]))
Sources ==
  /\ Running => ~Refuses(steps)
  /\ done # {} =>
       /\ broken = {} /\ "none" \in done
       /\ outcome = "ok" => list \in done
       /\ \A x \in tree : \E l \in DOMAIN Lists :
            (l \in done \/ (Running /\ l = list)) /\ Sowed(x, l)
FirstRun ==
  /\ runs = 0 => ~Running /\ done \subseteq {"none"}
  /\ runs = 1 => done \subseteq {"none", list}

PatcherInv ==
  Types /\ Taken /\ Begun /\ FirstInv /\ RomInv /\ DoneInv /\ Sources /\ FirstRun

\* What a step of each form is made of.
LEMMA StepFacts ==
  ASSUME NEW n \in DOMAIN fns
  PROVE  /\ Len(fns[n]) \in Nat /\ DOMAIN fns[n] = 1..Len(fns[n])
         /\ \A i \in 1..Len(fns[n]) : Owned(fns[n][i].text, n)
         /\ n \in FirstTextOnly => Guarded(fns[n])
         /\ n = "rom_pages" => Probed(fns[n])
         /\ n \notin Looks => Plain(fns[n])
BY StepForms DEF FormOf, Looks

\* The text a guarded step looks for is no other step's.
LEMMA FirstTexts ==
  ASSUME NEW n \in FirstTextOnly, NEW m, Owned(First(n), m)
  PROVE  m = n
<1>1. CASE n = "flash_verify"
  <2>1. First(n) = <<"mem.c", "flash_verify_word">>
    BY <1>1 DEF First, fns, patch_flash_verify, patch_flash_mem, patch_flash_users, Returns, Edit
  <2> QED
    BY <2>1, <1>1 DEF Owned
<1>2. CASE n = "extbss"
  <2>1. First(n) = <<ld, ".extbss">>
    BY <1>2 DEF First, fns, patch_extbss, Returns, Edit
  <2> QED
    BY <2>1, <1>2 DEF Owned
<1>3. CASE n = "no_libc_malloc"
  <2>1. First(n) = <<"common.h", "nab_rand">>
    BY <1>3 DEF First, fns, patch_no_libc_malloc, patch_nab_rand_h, patch_nab_rand, Returns, Edit
  <2> QED
    BY <2>1, <1>3 DEF Owned
<1>4. CASE n = "bounded_waits"
  <2>1. First(n) = <<audio, "VLSI_DREQ_PETS">>
    BY <1>4 DEF First, fns, patch_bounded_waits, Returns, Edit
  <2> QED
    BY <2>1, <1>4 DEF Owned
<1>5. CASE n = "audio_halfduplex"
  <2>1. First(n) = <<"audio.h", "NAB_AUDIO_STATUS">>
    BY <1>5 DEF First, fns, patch_audio_halfduplex, Returns, Edit
  <2> QED
    BY <2>1, <1>5 DEF Owned
<1>6. CASE n = "audio_ampli"
  <2>1. First(n) = <<"audio.h", "NAB_AUDIO_AMPLI_PLAY_ONLY">>
    BY <1>6 DEF First, fns, patch_audio_ampli, Returns, Edit
  <2> QED
    BY <2>1, <1>6 DEF Owned
<1> QED
  BY <1>1, <1>2, <1>3, <1>4, <1>5, <1>6 DEF FirstTextOnly

\* A blank name is no step's.
LEMMA NoBlankStep == NoName \notin DOMAIN fns
BY Zenon DEF NoName, fns

\* The guarded steps are steps.
LEMMA GuardedKnown == FirstTextOnly \cup {"rom_pages"} \subseteq DOMAIN fns
BY DEF FirstTextOnly, fns

\* The pages are not modernized where they are in the ROM.
LEMMA ModernizeForm ==
  ASSUME NEW i \in 1..Len(fns["modernize_pages"])
  PROVE  "modernize_pages" \notin Looks /\ fns["modernize_pages"][i].lacks = {rom}
<1>1. fns["modernize_pages"] = << Unspoiled(Returns(metal[1], metal[2]), {rom}) >>
  BY DEF fns, modernize_pages
<1>2. i = 1
  BY <1>1
<1>3. fns["modernize_pages"][1].lacks = {rom}
  BY <1>1 DEF Unspoiled, Returns, Edit
<1> QED
  BY <1>2, <1>3 DEF Looks, FirstTextOnly

\* Only rom_pages writes the pages of the ROM, and only modernize_pages the others.
LEMMA PagesOwned ==
  ASSUME NEW n
  PROVE  /\ Owned(rom, n) => n = "rom_pages"
         /\ Owned(metal, n) => n = "modernize_pages"
BY DEF Owned
-----------------------------------------------------------------------------
\* No text is ever taken out of the sources: what is applied stays applied.
LEMMA TreeGrows ==
  ASSUME tree \subseteq tree'
  PROVE  /\ \A n, k : Upto(n, k) => Upto(n, k)'
         /\ \A n : (All(n) => All(n)') /\ (Applied(n) => Applied(n)')
         /\ \A l, k : Through(l, k) => Through(l, k)'
         /\ \A l : WentThrough(l) => WentThrough(l)'
<1>1. \A n, k : Upto(n, k) => Upto(n, k)'
  BY DEF Upto
<1>2. \A n : All(n) => All(n)'
  BY <1>1 DEF All
<1>3. \A n : Applied(n) => Applied(n)'
  BY <1>2 DEF Applied
<1>4. \A l, k : Through(l, k) => Through(l, k)'
  BY <1>3 DEF Through
<1>5. \A l : WentThrough(l) => WentThrough(l)'
  BY <1>4 DEF WentThrough
<1> QED
  BY <1>1, <1>2, <1>3, <1>4, <1>5

\* The same step of the same list.
LEMMA SameStep ==
  ASSUME list' = list, at' = at
  PROVE  steps' = steps /\ Step' = Step /\ Edits' = Edits /\ Known' = Known
BY DEF steps, Step, Edits, Known

\* The edit that is looked at.
LEMMA EditFacts ==
  ASSUME PatcherInv, Editing
  PROVE  /\ Step \in DOMAIN fns /\ Running /\ Known
         /\ at \in 1..Len(steps) /\ list \in DOMAIN Lists
         /\ edit \in 1..Len(fns[Step]) /\ Len(fns[Step]) \in Nat
         /\ E = fns[Step][edit] /\ Edits = fns[Step]
         /\ Owned(E.text, Step)
<1>1. /\ Step \in DOMAIN fns /\ Running /\ Known /\ at <= Len(steps) /\ edit <= Len(fns[Step])
      /\ Edits = fns[Step] /\ E = fns[Step][edit]
  BY DEF Editing, Known, Edits, E
<1>2. list \in DOMAIN Lists /\ at \in Nat \ {0} /\ edit \in Nat \ {0}
  BY <1>1 DEF PatcherInv, Types, Live
<1>3. Len(steps) \in Nat
  BY <1>2, ListForms DEF Sequence, steps
<1> QED
  BY <1>1, <1>2, <1>3, StepFacts

\* There is at most one.
LEMMA NowIs == \A e \in Now : Editing /\ e = E
BY DEF Now

\* Nothing is in the sources before the first run.
LEMMA InitPatcher == Init => PatcherInv
<1> SUFFICES ASSUME Init PROVE PatcherInv
  OBVIOUS
<1> USE DEF Init
<1>1. Types /\ Taken /\ Begun
  BY DEF Types, Taken, Begun, Live, Running
<1>2. FirstInv /\ RomInv /\ DoneInv
  BY DEF FirstInv, RomInv, DoneInv, Running
<1>3. Sources /\ FirstRun
  BY DEF Sources, FirstRun, Running
<1> QED
  BY <1>1, <1>2, <1>3 DEF PatcherInv

\* A new run begins with the first edit of its list.
LEMMA BeginPatcher ==
  ASSUME PatcherInv, NEW l \in DOMAIN Lists, Begin(l)
  PROVE  PatcherInv'
<1> USE DEF PatcherInv, Begin
<1>1. tree \subseteq tree'
  OBVIOUS
<1>2. Sequence(steps') /\ steps' = Lists[l]
  BY ListForms DEF steps
<1>3. Types'
  BY <1>2 DEF Types, Live, Running, Sequence
<1>4. Taken'
  BY <1>2 DEF Taken, Through, Live, Running, Sequence
<1>5. Begun'
  <2> SUFFICES ASSUME Running', Known' PROVE Begun'
    BY DEF Begun
  <2>1. Step' \in DOMAIN fns /\ Edits' = fns[Step']
    BY DEF Known, Edits
  <2>2. Len(fns[Step']) \in Nat /\ (Step' \in Looks => Len(fns[Step']) > 1)
    BY <2>1, StepFacts DEF Looks, Guarded, Probed
  <2>3. Upto(Step, edit)'
    BY <2>2 DEF Upto
  <2> QED
    BY <2>1, <2>2, <2>3 DEF Begun, Looks
<1>6. FirstInv'
  BY <1>1, TreeGrows DEF FirstInv, First, Inside
<1>7. RomInv'
  BY <1>1, TreeGrows DEF RomInv
<1>8. DoneInv'
  BY <1>1, TreeGrows DEF DoneInv
<1>9. Sources'
  BY <1>2, ListForms DEF Sources, Running, Sowed
<1>10. FirstRun'
  BY DEF FirstRun, Types
<1> QED
  BY <1>3, <1>4, <1>5, <1>6, <1>7, <1>8, <1>9, <1>10

\* A run that ends, well or not.
LEMMA StopPatcher ==
  ASSUME PatcherInv, Running, NEW how, Stop(how), how # "running",
         how = "ok" => at > Len(steps),
         UNCHANGED <<tree, list, at, edit, runs>>
  PROVE  PatcherInv'
<1> USE DEF PatcherInv, Stop
<1>1. tree \subseteq tree' /\ ~Running'
  BY DEF Running
<1>2. list \in DOMAIN Lists /\ Len(steps) \in Nat /\ steps = Lists[list]
  BY ListForms DEF Types, Live, steps, Sequence
<1>3. steps' = steps
  BY SameStep
<1>4. Types'
  BY <1>1, <1>3 DEF Types, Live
<1>5. Taken'
  BY <1>1, <1>3, TreeGrows DEF Taken, Live
<1>6. Begun'
  BY <1>1 DEF Begun
<1>7. FirstInv'
  BY <1>1, TreeGrows DEF FirstInv, First, Inside
<1>8. RomInv'
  BY <1>1, TreeGrows DEF RomInv
<1>9. DoneInv'
  <2>1. how = "ok" => WentThrough(list)
    <3> SUFFICES ASSUME how = "ok" PROVE WentThrough(list)
      OBVIOUS
    <3>1. at = Len(steps) + 1
      BY <1>2 DEF Types, Live
    <3>2. Through(list, Len(Lists[list]) + 1)
      BY <1>2, <3>1 DEF Taken, Live
    <3> QED
      BY <1>2, <3>2 DEF WentThrough, Sources
  <2> QED
    BY <1>1, <2>1, TreeGrows DEF DoneInv
<1>10. Sources'
  <2>1. how = "ok" => ~Known
    BY <1>2 DEF Known, Types
  <2> QED
    BY <1>1, <1>2, <2>1 DEF Sources, Sowed
<1>11. FirstRun'
  BY DEF FirstRun
<1> QED
  BY <1>4, <1>5, <1>6, <1>7, <1>8, <1>9, <1>10, <1>11

\* A name nobody knows ends the run.
LEMMA UnknownStepPatcher == ASSUME PatcherInv, UnknownStep PROVE PatcherInv'
BY StopPatcher DEF UnknownStep

\* So does an anchor that is not there.
LEMMA FailPatcher == ASSUME PatcherInv, Editing, Fail(E) PROVE PatcherInv'
BY StopPatcher DEF Fail, Editing

\* The end of the list ends it well.
LEMMA AllStepsOKPatcher == ASSUME PatcherInv, AllStepsOK PROVE PatcherInv'
BY StopPatcher DEF AllStepsOK

\* A run can be killed anywhere.
LEMMA KilledPatcher == ASSUME PatcherInv, Killed PROVE PatcherInv'
BY StopPatcher DEF Killed

\* The next step of the list, once all edits of this one are done with.
LEMMA NextStepPatcher == ASSUME PatcherInv, NextStep PROVE PatcherInv'
<1> USE DEF PatcherInv, NextStep
<1>1. tree \subseteq tree' /\ steps' = steps /\ Running'
  BY DEF steps, Running
<1>2. /\ list \in DOMAIN Lists /\ Len(steps) \in Nat /\ steps = Lists[list]
      /\ Step = Strip(Lists[list][at])
      /\ at <= Len(steps) /\ at \in Nat \ {0}
  BY ListForms DEF Types, Live, Sequence, Known, Blank, steps, Step
<1>3. Step # NoName =>
        /\ Known /\ Step \in DOMAIN fns /\ Edits = fns[Step]
        /\ Len(fns[Step]) \in Nat /\ edit = Len(fns[Step]) + 1
  BY <1>2, StepFacts DEF Begun, Types, Blank, Known, Edits
<1>4. Step # NoName => Applied(Step)
  BY <1>2, <1>3 DEF Begun, Applied, All
<1>5. Types'
  BY <1>1, <1>2 DEF Types, Live
<1>6. Taken'
  <2>1. Through(list, at)
    BY DEF Taken, Live
  <2>2. Through(list, at + 1)
    BY <1>2, <1>3, <1>4, <2>1 DEF Through
  <2> QED
    BY <1>1, <2>2, TreeGrows DEF Taken, Live, Running
<1>7. Begun'
  <2> SUFFICES ASSUME Running', Known' PROVE Begun'
    BY DEF Begun
  <2>1. Step' \in DOMAIN fns /\ Edits' = fns[Step']
    BY DEF Known, Edits
  <2>2. Len(fns[Step']) \in Nat /\ (Step' \in Looks => Len(fns[Step']) > 1)
    BY <2>1, StepFacts DEF Looks, Guarded, Probed
  <2>3. Upto(Step, edit)'
    BY <2>2 DEF Upto
  <2> QED
    BY <2>1, <2>2, <2>3 DEF Begun, Looks
<1>8. FirstInv'
  BY <1>1, <1>2, <1>3, NoBlankStep, TreeGrows DEF FirstInv, First, Inside, Known
<1>9. RomInv'
  BY <1>1, TreeGrows DEF RomInv
<1>10. DoneInv'
  BY <1>1, TreeGrows DEF DoneInv
<1>11. Sources'
  BY <1>1 DEF Sources, Running, Sowed
<1>12. FirstRun'
  BY DEF FirstRun, Running
<1> QED
  BY <1>5, <1>6, <1>7, <1>8, <1>9, <1>10, <1>11, <1>12

\* In a list that went through before, each text is there already: no step that
\* looks for one text only gets beyond it, no anchor is missed.
LEMMA WriteRerun ==
  ASSUME PatcherInv, Editing, list \in done
  PROVE  /\ Step \notin Looks => E.text \in tree /\ (Anchored(E) \/ E.found \in {"return", "skip"})
         /\ Step \in Looks => E.text \in tree /\ E.found \in {"return", "probe"}
<1>1. /\ Step \in DOMAIN fns /\ Running /\ Known
      /\ at \in 1..Len(steps) /\ list \in DOMAIN Lists
      /\ edit \in 1..Len(fns[Step]) /\ Len(fns[Step]) \in Nat
      /\ E = fns[Step][edit] /\ Edits = fns[Step]
  BY EditFacts
<1>2. Step = Strip(Lists[list][at]) /\ steps = Lists[list] /\ Len(steps) \in Nat
  BY <1>1, ListForms DEF Step, steps, Sequence
<1>3. WentThrough(list)
  BY <1>1, ListForms DEF PatcherInv, DoneInv
<1>4. Applied(Step)
  BY <1>1, <1>2, <1>3, NoBlankStep DEF WentThrough, Through
<1>5. CASE Step \in Looks
  <2>1. edit = 1
    BY <1>1, <1>5 DEF PatcherInv, DoneInv
  <2>2. E.text \in tree
    BY <1>1, <1>4, <1>5, <2>1 DEF Applied, First
  <2> QED
    BY <1>1, <1>5, <2>1, <2>2, StepFacts DEF Looks, Guarded, Probed
<1>6. CASE Step \notin Looks
  <2>1. E.found \in {"skip", "return", "rewrite"} /\ (E.found = "rewrite" => E.needs = {} /\ E.lacks = {})
    BY <1>1, <1>6, StepFacts DEF Plain
  <2>2. E.text \in tree
    BY <1>1, <1>4, <1>6, <2>1 DEF Applied, All, Upto
  <2> QED
    BY <1>6, <2>1, <2>2 DEF Anchored, Applies
<1> QED
  BY <1>5, <1>6

\* The step leaves it at a text that is there, or goes on to its next file.
LEMMA FoundPatcher == ASSUME PatcherInv, Editing, Found(E) PROVE PatcherInv'
<1> USE DEF PatcherInv, Found
<1>1. tree \subseteq tree' /\ Running' /\ steps' = steps /\ Step' = Step /\ Edits' = Edits
      /\ Known' = Known
  BY SameStep DEF Running, Editing
<1>2. /\ Step \in DOMAIN fns /\ Known /\ edit \in 1..Len(fns[Step]) /\ Len(fns[Step]) \in Nat
      /\ E = fns[Step][edit] /\ Edits = fns[Step] /\ E.text \in tree
      /\ E.found \in {"return", "probe", "skip"}
  BY EditFacts DEF There
<1>3. Types'
  <2>1. edit' \in Nat \ {0}
    BY <1>2
  <2> QED
    BY <1>1, <2>1 DEF Types, Live, Running
<1>4. Taken'
  BY <1>1, TreeGrows DEF Taken, Live, Running
<1>5. CASE E.found = "skip"
  <2>1. edit' = edit + 1
    BY <1>5
  <2>2. Upto(Step, edit) => Upto(Step, edit)'
    BY <1>1, <1>2, <2>1 DEF Upto
  <2>3. Step \in Looks => edit > 1
    BY <1>2, <1>5, StepFacts DEF Looks, Guarded, Probed
  <2>4. Step = "rom_pages" /\ edit = Len(fns[Step]) => First(Step) \in tree
    BY <1>2, StepFacts DEF Probed, First
  <2>5. Begun'
    <3>1. edit' <= Len(Edits') + 1
      BY <1>1, <1>2, <2>1
    <3>2. (Step \in Looks /\ edit' > Len(Edits)) => First(Step) \in tree
      BY <1>1, <1>2, <2>1, <2>3, <2>4, EditFacts DEF Begun, Looks
    <3>3. (Step \in FirstTextOnly /\ edit' > 1) => First(Step) \in tree
      BY <1>2, <2>3, EditFacts DEF Begun, Looks
    <3>4. (Step = "rom_pages" /\ edit' > 1 /\ edit' <= Len(Edits)) =>
            metal \notin tree /\ Upto(Step, edit)'
      BY <1>2, <2>1, <2>2, <2>3, EditFacts DEF Begun, Looks
    <3>5. Step \notin Looks => Upto(Step, edit)'
      BY <1>2, <2>2, EditFacts DEF Begun
    <3> QED
      BY <1>1, <1>2, <3>1, <3>2, <3>3, <3>4, <3>5 DEF Begun, First
  <2>6. FirstInv'
    <3> SUFFICES ASSUME NEW n \in FirstTextOnly, First(n)' \in tree', ~All(n)', n \notin broken'
                 PROVE  (Inside /\ Step = n /\ Upto(n, edit))'
      BY DEF FirstInv
    <3>1. Inside /\ Step = n /\ Upto(n, edit)
      BY <1>1, TreeGrows DEF FirstInv, First
    <3>2. Upto(n, edit)'
      BY <1>1, <2>1, <2>2, <3>1
    <3>3. edit + 1 <= Len(fns[Step])
      BY <1>2, <3>1, <3>2 DEF All
    <3> QED
      BY <1>1, <1>2, <2>1, <3>1, <3>2, <3>3 DEF Inside
  <2>7. DoneInv'
    <3>1. \A l \in done \ {"none"} : WentThrough(l)'
      BY <1>1, TreeGrows DEF DoneInv
    <3>2. ~(list \in done /\ Step \in Looks)
      BY <1>2, <2>3, EditFacts DEF DoneInv
    <3> QED
      BY <1>1, <3>1, <3>2 DEF DoneInv
  <2> QED
    BY <1>1, <1>3, <1>4, <2>5, <2>6, <2>7, TreeGrows DEF RomInv, Sources, FirstRun, Running, Sowed
<1>6. CASE E.found # "skip"
  <2>1. edit' = Len(fns[Step]) + 1
    BY <1>2, <1>6
  <2>2. Step \in Looks => edit = 1
    BY <1>2, <1>6, StepFacts DEF Looks, Guarded, Probed
  <2>3. Step \notin Looks => edit = Len(fns[Step])
    BY <1>2, <1>6, StepFacts DEF Plain
  <2>4. Begun'
    <3>1. Step \in Looks => First(Step) \in tree
      BY <1>2, <2>2 DEF First
    <3>2. Step \notin Looks => Upto(Step, edit)'
      BY <1>1, <1>2, <2>1, <2>3, EditFacts DEF Begun, Upto
    <3> QED
      BY <1>1, <1>2, <2>1, <3>1, <3>2 DEF Begun, First, Looks
  <2>5. FirstInv'
    <3> SUFFICES ASSUME NEW n \in FirstTextOnly, First(n)' \in tree', ~All(n)', n \notin broken'
                 PROVE  FALSE
      BY DEF FirstInv
    <3>1. Inside /\ Step = n
      BY <1>1, TreeGrows DEF FirstInv, First
    <3> QED
      BY <2>2, <3>1 DEF Inside, Looks
  <2>6. DoneInv'
    BY <1>1, <1>2, <2>1, TreeGrows DEF DoneInv
  <2> QED
    BY <1>1, <1>3, <1>4, <2>4, <2>5, <2>6, TreeGrows DEF RomInv, Sources, FirstRun, Running, Sowed
<1> QED
  BY <1>5, <1>6

\* An edit that is made, or rom_pages looking at boot.mtl.
LEMMA WritePatcher == ASSUME PatcherInv, Editing, Write(E) PROVE PatcherInv'
<1> USE DEF PatcherInv, Write
<1>1. tree \subseteq tree' /\ Running' /\ steps' = steps /\ Step' = Step /\ Edits' = Edits
      /\ Known' = Known /\ edit' = edit + 1
  BY SameStep DEF Running, Editing
<1>2. /\ Step \in DOMAIN fns /\ Known /\ edit \in 1..Len(fns[Step]) /\ Len(fns[Step]) \in Nat
      /\ E = fns[Step][edit] /\ Edits = fns[Step] /\ Owned(E.text, Step)
      /\ list \in DOMAIN Lists /\ at \in 1..Len(steps)
  BY EditFacts
<1>3. /\ tree' \subseteq tree \cup {E.text} /\ E.found # "probe" => E.text \in tree'
      /\ E.found = "probe" => tree' = tree
  OBVIOUS
<1>4. E.lacks \cap tree = {} /\ (E.text \in tree => E.found = "rewrite")
  BY DEF Anchored, Applies, There
<1>6. Types'
  BY <1>1, <1>2 DEF Types, Live
<1>7. Taken'
  BY <1>1, TreeGrows DEF Taken, Live, Running
<1>8. Upto(Step, edit) => Upto(Step, edit)'
  BY <1>1, <1>2, <1>3, TreeGrows DEF Upto
<1>9. Step = "rom_pages" =>
        /\ First(Step) = rom /\ Len(fns[Step]) > 1
        /\ edit = 1 => E.found = "probe" /\ E.lacks = {metal}
        /\ edit > 1 => E.found # "probe" /\ (E.text = rom <=> edit = Len(fns[Step]))
  BY <1>2, StepFacts DEF Probed, First
<1>10. Step \in FirstTextOnly =>
        /\ Len(fns[Step]) > 1 /\ E.found # "probe"
        /\ edit = 1 => First(Step) = E.text
  BY <1>2, StepFacts DEF Guarded, First
<1>11. metal \notin tree /\ metal \in tree' => Step = "modernize_pages" /\ rom \notin tree
  <2> SUFFICES ASSUME metal \notin tree, metal \in tree' PROVE Step = "modernize_pages" /\ rom \notin tree
    OBVIOUS
  <2>1. E.text = metal
    BY <1>3
  <2>2. Step = "modernize_pages"
    BY <1>2, <2>1, PagesOwned
  <2> QED
    BY <1>2, <1>4, <2>2, ModernizeForm
<1>12. Begun'
  <2>1. edit' <= Len(Edits') + 1
    BY <1>1, <1>2
  <2>2. (Step \in FirstTextOnly /\ edit' > 1) => First(Step) \in tree'
    BY <1>1, <1>2, <1>3, <1>10, EditFacts DEF Begun
  <2>3. (Step \in Looks /\ edit' > Len(Edits)) => First(Step) \in tree'
    BY <1>1, <1>2, <1>3, <1>9, <2>2 DEF Looks
  <2>4. (Step = "rom_pages" /\ edit' > 1 /\ edit' <= Len(Edits)) => metal \notin tree' /\ Upto(Step, edit)'
    <3> SUFFICES ASSUME Step = "rom_pages", edit' <= Len(Edits)
                 PROVE  metal \notin tree' /\ Upto(Step, edit)'
      OBVIOUS
    <3>1. CASE edit = 1
      <4>1. metal \notin tree'
        BY <1>3, <1>4, <1>9, <3>1
      <4>2. Upto(Step, edit)'
        BY <1>1, <1>2, <1>9, <3>1 DEF Upto
      <4> QED
        BY <4>1, <4>2
    <3>2. CASE edit # 1
      <4>1. metal \notin tree /\ Upto(Step, edit)
        BY <1>1, <1>2, <3>2, EditFacts DEF Begun
      <4>2. metal \notin tree'
        BY <1>11, <4>1
      <4> QED
        BY <1>8, <4>1, <4>2
    <3> QED
      BY <3>1, <3>2
  <2>5. Step \notin Looks => Upto(Step, edit)'
    BY <1>8, EditFacts DEF Begun
  <2> QED
    BY <1>1, <1>2, <2>1, <2>2, <2>3, <2>4, <2>5 DEF Begun, First
<1>13. FirstInv'
  <2> SUFFICES ASSUME NEW n \in FirstTextOnly, First(n)' \in tree', ~All(n)', n \notin broken'
               PROVE  (Inside /\ Step = n /\ Upto(n, edit))'
    BY DEF FirstInv
  <2>1. Step = n /\ Upto(n, edit)
    <3>1. CASE First(n) \in tree
      BY <1>1, <3>1, TreeGrows DEF FirstInv
    <3>2. CASE First(n) \notin tree
      <4>1. E.text = First(n)
        BY <1>3, <3>2 DEF First
      <4>2. Step = n
        BY <1>2, <4>1, FirstTexts
      <4>3. edit = 1
        BY <1>2, <3>2, <4>2, EditFacts DEF Begun
      <4>4. Upto(n, 1)
        BY <1>2, <4>2 DEF Upto
      <4> QED
        BY <4>2, <4>3, <4>4
    <3> QED
      BY <3>1, <3>2
  <2>2. Upto(n, edit)'
    BY <1>1, <1>8, <2>1
  <2>3. edit + 1 <= Len(fns[Step])
    BY <1>2, <2>1, <2>2 DEF All
  <2> QED
    BY <1>1, <1>2, <2>1, <2>2, <2>3 DEF Inside
<1>14. RomInv'
  <2> SUFFICES ASSUME rom \in tree' PROVE (All("rom_pages") /\ metal \notin tree)'
    BY DEF RomInv
  <2>1. CASE rom \in tree
    BY <1>1, <1>11, <2>1, TreeGrows DEF RomInv
  <2>2. CASE rom \notin tree
    <3>1. E.text = rom /\ E.found # "probe"
      BY <1>3, <2>2
    <3>2. Step = "rom_pages"
      BY <1>2, <3>1, PagesOwned
    <3>3. edit = Len(fns[Step]) /\ edit > 1
      BY <1>2, <1>9, <3>1, <3>2
    <3>4. metal \notin tree /\ Upto(Step, edit)
      BY <1>2, <3>2, <3>3, EditFacts DEF Begun
    <3>5. metal \notin tree'
      BY <1>11, <3>2, <3>4
    <3>6. All(Step)'
      BY <1>1, <1>8, <3>3, <3>4 DEF All
    <3> QED
      BY <1>1, <3>2, <3>5, <3>6 DEF All
  <2> QED
    BY <2>1, <2>2
<1>15. DoneInv'
  <2>1. \A l \in done \ {"none"} : WentThrough(l)'
    BY <1>1, TreeGrows DEF DoneInv
  <2>2. ~(list \in done /\ Step \in Looks)
    BY <1>2, WriteRerun DEF Anchored, Applies, There
  <2> QED
    BY <1>1, <2>1, <2>2 DEF DoneInv
<1>16. Sources'
  <2>1. Sowed(E.text, list)
    BY <1>2 DEF Sowed, Step, steps
  <2> QED
    BY <1>1, <1>2, <1>3, <2>1 DEF Sources, Running, Sowed, steps
<1> QED
  BY <1>6, <1>7, <1>12, <1>13, <1>14, <1>15, <1>16 DEF FirstRun, Running, Editing

\* Nothing happens.
LEMMA IdlePatcher == ASSUME PatcherInv, UNCHANGED vars PROVE PatcherInv'
<1> USE DEF PatcherInv, vars
<1>1. tree \subseteq tree' /\ steps' = steps /\ Step' = Step /\ Edits' = Edits /\ Known' = Known
  BY SameStep
<1>2. Types' /\ Taken'
  BY <1>1, TreeGrows DEF Types, Taken, Live, Running
<1>3. Begun'
  BY <1>1, TreeGrows DEF Begun, Running, First
<1>4. FirstInv' /\ RomInv'
  BY <1>1, TreeGrows DEF FirstInv, First, Inside, Running, RomInv
<1>5. DoneInv'
  BY <1>1, TreeGrows DEF DoneInv, Running
<1>6. Sources' /\ FirstRun'
  BY <1>1 DEF Sources, Running, Sowed, FirstRun
<1> QED
  BY <1>2, <1>3, <1>4, <1>5, <1>6
-----------------------------------------------------------------------------
\* The invariant of every run of the script.
THEOREM PatcherInvariant == Spec => []PatcherInv
<1>1. PatcherInv /\ [Next]_vars => PatcherInv'
  <2> SUFFICES ASSUME PatcherInv, [Next]_vars PROVE PatcherInv'
    OBVIOUS
  <2>1. ASSUME NEW l \in DOMAIN Lists, Begin(l) PROVE PatcherInv'
    BY <2>1, BeginPatcher
  <2>2. CASE UnknownStep \/ AllStepsOK \/ Killed
    BY <2>2, UnknownStepPatcher, AllStepsOKPatcher, KilledPatcher
  <2>3. ASSUME NEW e \in Now, Found(e) \/ Write(e) \/ Fail(e) PROVE PatcherInv'
    <3>1. Editing /\ e = E
      BY NowIs
    <3> QED
      BY <2>3, <3>1, FoundPatcher, WritePatcher, FailPatcher
  <2>4. CASE NextStep
    BY <2>4, NextStepPatcher
  <2>5. CASE UNCHANGED vars
    BY <2>5, IdlePatcher
  <2> QED
    BY <2>1, <2>2, <2>3, <2>4, <2>5 DEF Next
<1> QED
  BY <1>1, InitPatcher, PTL DEF Spec

\* A list that went through goes through again, and changes nothing: "repeated
\* runs are safe", for lists and runs of any number.
THEOREM RerunsAreSafe == Spec => RerunIsSafe
<1>1. PatcherInv /\ [Next]_vars =>
        [(Running /\ list \in done) => tree' = tree /\ outcome' # "failed"]_vars
  <2> SUFFICES ASSUME PatcherInv, Next, Running, list \in done
               PROVE  tree' = tree /\ outcome' # "failed"
    OBVIOUS
  <2>1. ASSUME NEW l \in DOMAIN Lists, Begin(l) PROVE FALSE
    BY <2>1 DEF Begin
  <2>2. CASE UnknownStep
    <3>1. list \in DOMAIN Lists /\ at \in Nat \ {0} /\ Sequence(steps) /\ steps = Lists[list]
      BY ListForms DEF PatcherInv, Types, Live, steps
    <3>2. WentThrough(list)
      BY <3>1, ListForms DEF PatcherInv, DoneInv
    <3>3. at \in 1..Len(steps) /\ Step \notin DOMAIN fns /\ Step # NoName
      BY <2>2, <3>1 DEF UnknownStep, Known, Blank, Sequence
    <3> QED
      BY <3>1, <3>2, <3>3 DEF WentThrough, Through, Step, Sequence
  <2>3. ASSUME NEW e \in Now, Found(e) \/ Write(e) \/ Fail(e)
        PROVE  tree' = tree /\ outcome' # "failed"
    <3>1. Editing /\ e = E
      BY NowIs
    <3>2. CASE Fail(E)
      BY <3>1, <3>2, WriteRerun DEF Fail, There
    <3>3. CASE Write(E)
      BY <3>1, <3>3, WriteRerun DEF Write, Running
    <3>4. CASE Found(E)
      BY <3>4 DEF Found, Running
    <3> QED
      BY <2>3, <3>1, <3>2, <3>3, <3>4
  <2>4. CASE NextStep
    BY <2>4 DEF NextStep, Running
  <2>5. CASE AllStepsOK \/ Killed
    BY <2>5 DEF AllStepsOK, Killed, Stop
  <2> QED
    BY <2>1, <2>2, <2>3, <2>4, <2>5 DEF Next
<1> QED
  BY <1>1, PatcherInvariant, PTL DEF Spec, RerunIsSafe

\* What the names of a list put into the sources.
LEMMA TextsOf ==
  ASSUME NEW n \in DOMAIN fns
  PROVE  (Texts({n}) \subseteq tree) <=> All(n)
<1>1. Texts({n}) = {e.text : e \in {x \in ToSet(fns[n]) : x.found # "probe"}}
  BY DEF Texts
<1>2. ToSet(fns[n]) = {fns[n][i] : i \in 1..Len(fns[n])}
  BY StepFacts DEF ToSet
<1>3. Len(fns[n]) \in Nat
  BY StepFacts
<1>4. (\A e \in ToSet(fns[n]) : e.found # "probe" => e.text \in tree) <=> All(n)
  BY <1>2, <1>3 DEF All, Upto
<1> QED
  BY <1>1, <1>4

\* "all steps OK": every text of the list is in the sources, but for what a stopped
\* run left of the steps that look for their first text only.
THEOREM OKIsApplied == Spec => []OKMeansApplied
<1>1. PatcherInv => OKMeansApplied
  <2> SUFFICES ASSUME PatcherInv, outcome = "ok", NEW i \in DOMAIN steps
               PROVE  \/ Texts({Strip(steps[i])}) \subseteq tree
                      \/ Strip(steps[i]) \in broken \cap FirstTextOnly
    BY DEF OKMeansApplied
  <2> DEFINE n == Strip(steps[i])
  <2>1. /\ list \in DOMAIN Lists /\ Sequence(steps) /\ steps = Lists[list]
        /\ at \in Nat /\ at > Len(steps) /\ Through(list, at)
    BY ListForms DEF PatcherInv, Types, Taken, Live, steps
  <2>2. n # NoName => n \in DOMAIN fns /\ Applied(n)
    BY <2>1 DEF Through, Sequence
  <2> HIDE DEF n
  <2>3. n \in Looks => n # NoName
    BY GuardedKnown, NoBlankStep DEF Looks
  <2>4. CASE n = NoName
    <3>1. Texts({n}) = {}
      BY <2>4, NoBlankStep DEF Texts
    <3> QED
      BY <3>1 DEF n
  <2>5. CASE n \in FirstTextOnly
    <3>1. n \in DOMAIN fns /\ First(n) \in tree
      BY <2>2, <2>5, <2>3 DEF Applied, Looks
    <3>2. ~Inside
      BY DEF Inside, Running
    <3>3. All(n) \/ n \in broken
      BY <2>5, <3>1, <3>2 DEF PatcherInv, FirstInv
    <3> QED
      BY <2>5, <3>1, <3>3, TextsOf DEF n
  <2>6. CASE n = "rom_pages"
    <3>1. n \in Looks /\ n \in DOMAIN fns /\ Applied(n)
      BY <2>2, <2>6, <2>3 DEF Looks
    <3>2. First(n) = rom
      BY <2>6, <3>1, StepFacts DEF Probed, First
    <3>3. All(n)
      BY <2>6, <3>1, <3>2 DEF Applied, PatcherInv, RomInv
    <3> QED
      BY <3>1, <3>3, TextsOf DEF n
  <2>7. CASE n \notin Looks /\ n # NoName
    BY <2>2, <2>7, TextsOf DEF Applied, n
  <2> QED
    BY <2>5, <2>6, <2>7, <2>4 DEF Looks, n
<1> QED
  BY <1>1, PatcherInvariant, PTL

\* Of the texts that decide about a rabbit, where each stands in its step.
LEMMA DecidingTexts ==
  /\ All("audio_fifo_data") => Present(<<vaudio, "play_w in .data">>)
  /\ First("extbss") = <<ld, ".extbss">>
  /\ All("wpa3_sae") => Present(sae)
  /\ All("wpa2_gtk") => Present(gtk)
  /\ All("no_libc_malloc") => Present(<<"sys.c", "nab_rand">>)
  /\ All("wpa3_boot_pw") => Present(<<boot, "netSaePw">>)
<1> USE DEF All, Upto, Present
<1>1. All("audio_fifo_data") => Present(<<vaudio, "play_w in .data">>)
  <2> DEFINE text == "play_w in .data"
  <2>1. fns["audio_fifo_data"] = << Returns(vaudio, text) >>
    BY DEF fns, patch_audio_fifo_data
  <2> HIDE DEF text
  <2>2. All("audio_fifo_data") => Present(<<vaudio, text>>)
    BY <2>1 DEF Returns, Edit
  <2> QED
    BY <2>2 DEF text
<1>2. First("extbss") = <<ld, ".extbss">>
  BY DEF First, fns, patch_extbss, Returns, Edit
<1>3. All("wpa3_sae") => Present(sae)
  <2>1. fns["wpa3_sae"] = patch_sae_crypto \o patch_sae_driver
    BY DEF fns, patch_wpa3_sae
  <2>2. Len(fns["wpa3_sae"]) = 8 /\ fns["wpa3_sae"][7] = Skips(sae[1], sae[2])
    BY <2>1 DEF patch_sae_crypto, patch_sae_driver
  <2>3. <<sae[1], sae[2]>> = sae
    BY DEF sae
  <2> QED
    BY <2>2, <2>3 DEF Skips, Edit
<1>4. All("wpa2_gtk") => Present(gtk)
  <2>1. fns["wpa2_gtk"] = << Returns(eapol, gtk[2]) >>
    BY DEF fns, patch_wpa2_group_key
  <2>2. <<eapol, gtk[2]>> = gtk
    BY DEF gtk
  <2> QED
    BY <2>1, <2>2 DEF Returns, Edit
<1>5. All("no_libc_malloc") => Present(<<"sys.c", "nab_rand">>)
  <2>1. fns["no_libc_malloc"] = patch_nab_rand_h \o patch_nab_rand
    BY DEF fns, patch_no_libc_malloc
  <2>2. Len(fns["no_libc_malloc"]) = 4 /\ fns["no_libc_malloc"][2] = Blind("sys.c", "nab_rand")
    BY <2>1 DEF patch_nab_rand_h, patch_nab_rand
  <2> QED
    BY <2>2 DEF Blind, Edit
<1>6. All("wpa3_boot_pw") => Present(<<boot, "netSaePw">>)
  <2>1. /\ Len(fns["wpa3_boot_pw"]) = 5
        /\ fns["wpa3_boot_pw"][5] =
             Unspoiled(Returns(boot, "netSaePw"), {<<boot, "echo-opcodes-stripped">>})
    BY DEF fns, patch_wpa3_boot_password
  <2> QED
    BY <2>1 DEF Unspoiled, Returns, Edit
<1> QED
  BY <1>1, <1>2, <1>3, <1>4, <1>5, <1>6

\* What a list that went through names, is applied; what it was refused without, it names.
LEMMA NamedIsApplied ==
  ASSUME NEW l, WentThrough(l), Typed(Lists[l]), NEW n, n \in ToSet(Lists[l]), n # NoName
  PROVE  Applied(n)
<1>1. PICK i \in 1..Len(Lists[l]) : n = Lists[l][i]
  BY ListForms DEF WentThrough, Sequence, ToSet
<1>2. Strip(n) = n
  BY DEF Typed, Strip
<1>3. Len(Lists[l]) \in Nat
  BY ListForms DEF WentThrough, Sequence
<1> QED
  BY <1>1, <1>2, <1>3 DEF WentThrough, Through

\* Runs that all went through leave none of the combinations that bricked rabbits,
\* or fell back to WPA2, whatever the lists were, if no name has a blank.
THEOREM NoBrick == Spec => []NoKnownBrick
<1>1. PatcherInv => NoKnownBrick
  <2> SUFFICES ASSUME PatcherInv, outcome = "ok", \A l \in done \ {"none"} : Typed(Lists[l]),
                      done # {}, Brick
               PROVE  FALSE
    BY DEF NoKnownBrick
  <2>1. broken = {} /\ \A l \in done \ {"none"} : WentThrough(l)
    BY DEF PatcherInv, Sources, DoneInv
  <2>2. \A x \in tree : \E l \in done \ {"none"} : \E n \in ToSet(Lists[l]) : Owned(x, n)
    <3> SUFFICES ASSUME NEW x \in tree
                 PROVE  \E l \in done \ {"none"} : \E n \in ToSet(Lists[l]) : Owned(x, n)
      OBVIOUS
    <3>1. PICK l \in DOMAIN Lists : l \in done /\ Sowed(x, l)
      BY DEF PatcherInv, Sources, Running
    <3>2. l # "none" /\ Sequence(Lists[l])
      BY ListForms
    <3>3. PICK i \in 1..Len(Lists[l]) : Owned(x, Strip(Lists[l][i]))
      BY <3>1 DEF Sowed
    <3>4. Lists[l][i] \in ToSet(Lists[l])
      BY <3>2, <3>3 DEF Sequence, ToSet
    <3>5. Strip(Lists[l][i]) = Lists[l][i]
      BY <3>1, <3>2, <3>4 DEF Typed, Strip
    <3> QED
      BY <3>1, <3>2, <3>3, <3>4, <3>5
  <2>3. \A n \in FirstTextOnly : First(n) \in tree => All(n)
    BY <2>1 DEF PatcherInv, FirstInv, Inside, Running
  <2>4. ~(Present(metal) /\ Present(rom))
    BY DEF PatcherInv, RomInv, Present
  <2>5. ASSUME NEW n, NEW x \in tree, \A m : Owned(x, m) => m = n
        PROVE  \E l \in done \ {"none"} : n \in ToSet(Lists[l])
    BY <2>2, <2>5
  <2>6. \A l \in done \ {"none"} : \A n \in ToSet(Lists[l]) \ {NoName} : Applied(n)
    BY <2>1, NamedIsApplied
  <2>12. \A n \in {"audio_fifo_data", "extbss", "wpa3_sae", "wpa2_gtk", "no_libc_malloc",
                    "wpa3_boot_pw"} : n # NoName
    BY Zenon DEF NoName
  <2>7. Present(<<ld, "KEEP(*(.intvec))">>) => Present(<<vaudio, "play_w in .data">>)
    <3> SUFFICES ASSUME Present(<<ld, "KEEP(*(.intvec))">>) PROVE Present(<<vaudio, "play_w in .data">>)
      OBVIOUS
    <3>1. PICK l \in done \ {"none"} : "linker_keep" \in ToSet(Lists[l])
      BY <2>5 DEF Present, Owned
    <3>2. "audio_fifo_data" \in ToSet(Lists[l])
      BY <2>1, <3>1 DEF WentThrough, Refuses
    <3>3. All("audio_fifo_data")
      BY <2>6, <2>12, <3>2 DEF Applied, Looks, FirstTextOnly
    <3> QED
      BY <3>3, DecidingTexts
  <2>8. Present(<<"common.h", "nab_rand">>) => Present(<<ld, ".extbss">>)
    <3> SUFFICES ASSUME Present(<<"common.h", "nab_rand">>) PROVE Present(<<ld, ".extbss">>)
      OBVIOUS
    <3>1. PICK l \in done \ {"none"} : "no_libc_malloc" \in ToSet(Lists[l])
      BY <2>5 DEF Present, Owned
    <3>2. "extbss" \in ToSet(Lists[l])
      BY <2>1, <3>1 DEF WentThrough, Refuses
    <3>3. First("extbss") \in tree
      BY <2>6, <2>12, <3>2 DEF Applied, Looks, FirstTextOnly
    <3> QED
      BY <3>3, DecidingTexts DEF Present
  <2>9. Present(<<boot, "netSaePw">>) => Present(sae)
    <3> SUFFICES ASSUME Present(<<boot, "netSaePw">>) PROVE Present(sae)
      OBVIOUS
    <3>1. PICK l \in done \ {"none"} : "wpa3_boot_pw" \in ToSet(Lists[l])
      BY <2>5 DEF Present, Owned
    <3>2. "wpa3_sae" \in ToSet(Lists[l])
      BY <2>1, <3>1 DEF WentThrough, Refuses
    <3>3. All("wpa3_sae")
      BY <2>6, <2>12, <3>2 DEF Applied, Looks, FirstTextOnly
    <3> QED
      BY <3>3, DecidingTexts
  <2>10. Present(sae) => Present(gtk) /\ Present(<<"sys.c", "nab_rand">>)
    <3> SUFFICES ASSUME Present(sae) PROVE Present(gtk) /\ Present(<<"sys.c", "nab_rand">>)
      OBVIOUS
    <3>1. PICK l \in done \ {"none"} : "wpa3_sae" \in ToSet(Lists[l])
      BY <2>5 DEF Present, Owned
    <3>2. {"no_libc_malloc", "wpa2_gtk"} \subseteq ToSet(Lists[l])
      BY <2>1, <3>1 DEF WentThrough, Refuses
    <3>3. All("wpa2_gtk")
      BY <2>6, <2>12, <3>2 DEF Applied, Looks, FirstTextOnly
    <3>4. First("no_libc_malloc") \in tree
      BY <2>6, <2>12, <3>2 DEF Applied, Looks, FirstTextOnly
    <3>5. All("no_libc_malloc")
      BY <2>3, <3>4 DEF FirstTextOnly
    <3> QED
      BY <3>3, <3>5, DecidingTexts
  <2>11. runs = 1 /\ Present(sae) /\ Present(<<vbc, "OPverifySig">>) => Present(<<boot, "netSaePw">>)
    <3> SUFFICES ASSUME runs = 1, Present(sae), Present(<<vbc, "OPverifySig">>)
                 PROVE  Present(<<boot, "netSaePw">>)
      OBVIOUS
    <3>1. PICK l \in done \ {"none"} : "wpa3_sae" \in ToSet(Lists[l])
      BY <2>5 DEF Present, Owned
    <3>2. PICK k \in done \ {"none"} : "vbc" \in ToSet(Lists[k])
      BY <2>5 DEF Present, Owned
    <3>3. k = l
      BY DEF PatcherInv, FirstRun
    <3>4. "wpa3_boot_pw" \in ToSet(Lists[l])
      BY <2>1, <3>1, <3>2, <3>3 DEF WentThrough, Refuses
    <3>5. All("wpa3_boot_pw")
      BY <2>6, <2>12, <3>4 DEF Applied, Looks, FirstTextOnly
    <3> QED
      BY <3>5, DecidingTexts
  <2> QED
    BY <2>4, <2>7, <2>8, <2>9, <2>10, <2>11 DEF Brick
<1> QED
  BY <1>1, PatcherInvariant, PTL
=============================================================================
