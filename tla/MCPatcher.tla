------------------------------ MODULE MCPatcher ------------------------------
(***************************************************************************)
(* Lists that are given to apply-mods.py by --steps: the one the emulator  *)
(* is built with, the same without the steps it is made to measure, and    *)
(* lists in which something is missing, out of order or misspelt.          *)
(***************************************************************************)
EXTENDS Patcher

MCBlanked == (" linker_keep" :> "linker_keep")

Emulator ==
  << "wpa2_gtk", "eapol_group_ack", "group_cipher", "eapol_ptk_rekey", "audio_halfduplex",
     "extbss", "no_libc_malloc", "wpa3_sae" >>

MCStepsOf(l) ==
  CASE l = "emulator" -> Emulator
    [] l = "emulator without GTK" -> SelectSeq(Emulator, LAMBDA s : s # "wpa2_gtk")
    [] l = "amplifier" -> << "audio_ampli", "mdns" >>
    [] l = "misspelt" -> << "vbc", "vinterp", "stdlb" >>
    [] l = "no data" -> << "linker_keep" >>
    [] l = "no data, with a blank" -> << "vbc", " linker_keep" >>
    [] l = "data last" -> << "linker_keep", "", "audio_fifo_data" >>
    [] l = "prune alone" -> << "gc_sections" >>
    [] l = "ROM first" -> << "vbc", "vinterp", "stdlib", "rom_pages", "bootloader" >>
    [] l = "flash first" -> << "flash_verify", "bootloader" >>
    [] l = "malloc first" -> << "no_libc_malloc", "extbss" >>
    [] l = "stripped first" -> << "strip_echo_opcodes", "modernize_pages" >>

MCOverrides ==
  { "emulator", "emulator without GTK", "amplifier", "misspelt", "no data", "data last", "no data, with a blank",
    "prune alone", "ROM first", "flash first", "malloc first", "stripped first" }

\* Every step of the script is in one of these, so each is come back to.
MCReruns == MCOverrides \cup {"lean-wpa3-timed", "phase8-rom", "bytecode"}
=============================================================================
