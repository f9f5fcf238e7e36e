--------------------------- MODULE StateFileProofs ---------------------------
(***************************************************************************)
(* What state.json promises, for any number of clients, any levels and any *)
(* number of restarts and refusals of the disk.                            *)
(***************************************************************************)
EXTENDS StateFile, TLAPS

\* The parts TypeOK leaves open: threads and texts are functions, the file a record.
Shapes ==
  /\ pc \in [Threads -> {"idle", "open", "dump", "close"}]
  /\ text \in [Threads -> Texts]
  /\ file \in [text : Texts, size : 0..9]

\* Saves that overlap know it, all of them.
OverlapsAreCrossed ==
  \A t, u \in Threads : Within(t) /\ Within(u) /\ t # u => t \in crossed

\* Since a save that overlaps with none has truncated the file, nobody has
\* written to it.
AloneOnEmptyFile == \A t \in Threads : Within(t) /\ t \notin crossed => file.size = 0

\* Who sets the memory saves it afterwards: a text made before is out of date
\* only while that thread still has its own save to do.
TextIsFresh ==
  \A t \in Threads :
    (pc[t] = "close" /\ t \notin crossed /\ \A u \in Threads \ {t} : pc[u] = "idle")
      => text[t] = Snapshot

\* The user's word is in memory, and on record as soon as its save has ended.
WordIsKept ==
  /\ said = "on" => on
  /\ said = "off" => ~on
  /\ said \in {"on", "off"} => hasListen \/ \E t \in Threads : pc[t] # "idle"

Inv ==
  /\ TypeOK /\ Shapes /\ OverlapsAreCrossed /\ AloneOnEmptyFile /\ TextIsFresh
  /\ FileIsCurrent /\ WordIsKept
-----------------------------------------------------------------------------
\* The attenuation of any level is one the VS1003 knows, loudest at 0.
LEMMA AttenuationRange == ASSUME NEW level \in Int PROVE Attenuation(level) \in 0..120
BY DEF Attenuation

\* A text has between five and nine variable characters.
LEMMA SizeRange == ASSUME NEW t \in Texts PROVE Size(t) \in 5..9
<1>1. t.listen \in BOOLEAN /\ (t.volume_hw = NotSet \/ t.volume_hw \in 0..120)
  BY DEF Texts
<1> DEFINE a == IF t.listen THEN 4 ELSE 5
<1> DEFINE b == IF t.volume_hw = NotSet THEN 4
                ELSE IF t.volume_hw < 10 THEN 1 ELSE IF t.volume_hw < 100 THEN 2 ELSE 3
<1>2. a \in 4..5
  BY <1>1
<1>3. b \in 1..4
  BY <1>1
<1>4. Size(t) = a + b
  BY DEF Size
<1> HIDE DEF a, b
<1> QED  BY <1>2, <1>3, <1>4

\* What memory holds can be written.
LEMMA SnapshotType == ASSUME TypeOK PROVE Snapshot \in Texts
BY DEF TypeOK, Snapshot, Texts

\* A text written to an empty file is the one that is read back.
LEMMA WrittenIsLoaded ==
  ASSUME NEW f \in [text : Texts, size : 0..9], f.size = 0, NEW t \in Texts
  PROVE  Loaded(Overwrite(f, t)) = [on |-> t.listen, volume |-> t.volume_hw, hasListen |-> TRUE]
<1>1. Size(t) \in 5..9
  BY SizeRange
<1>2. Overwrite(f, t) = [text |-> t, size |-> Size(t)]
  BY <1>1 DEF Overwrite
<1>3. Valid(Overwrite(f, t))
  BY <1>2 DEF Valid
<1>4. t.listen \in BOOLEAN /\ Overwrite(f, t).text = t
  BY <1>2 DEF Texts
<1>5. Valid(Overwrite(f, t)) = TRUE
  BY <1>3, Zenon DEF Valid
<1>6. (Valid(Overwrite(f, t)) /\ t.listen) = t.listen
  BY <1>4, <1>5, Zenon
<1>7. (IF Valid(Overwrite(f, t)) THEN t.volume_hw ELSE NotSet) = t.volume_hw
  BY <1>5, Zenon
<1> QED  BY <1>4, <1>5, <1>6, <1>7, Zenon DEF Loaded

\* What the file yields has the types of the memory.
LEMMA LoadedType ==
  ASSUME NEW f \in [text : Texts, size : 0..9]
  PROVE  /\ Loaded(f).on \in BOOLEAN /\ Loaded(f).hasListen \in BOOLEAN
         /\ Loaded(f).volume \in {NotSet} \cup 0..120
<1>1. f.text \in Texts
  OBVIOUS
<1> QED  BY <1>1 DEF Loaded, Valid, Texts, NotSet
-----------------------------------------------------------------------------
\* There is no file at first, and memory holds the defaults.
LEMMA InitInv == Init => Inv
<1> SUFFICES ASSUME Init PROVE Inv
  OBVIOUS
<1>1. NoFile.text \in Texts /\ NoFile.text = [listen |-> FALSE, volume_hw |-> NotSet]
      /\ NoFile.size = 0
  BY DEF NoFile, Texts
<1>2. Size(NoFile.text) \in 5..9
  BY <1>1, SizeRange
<1>3. ~Valid(NoFile)
  BY <1>1, <1>2 DEF Valid
<1>4. TypeOK /\ Shapes
  <2>1. /\ pc \in [Threads -> {"idle", "open", "dump", "close"}]
        /\ text \in [Threads -> Texts]
        /\ file.text \in Texts /\ file.size = 0
        /\ file = [text |-> NoFile.text, size |-> 0]
    BY <1>1 DEF Init, NoFile
  <2>2. volume \in {NotSet} \cup 0..120 /\ {on, hasListen, option, timer, spoiled} \subseteq BOOLEAN
    BY DEF Init
  <2>3. TypeOK
    <3>1. \A t \in Threads : pc[t] \in {"idle", "open", "dump", "close"} /\ text[t] \in Texts
      BY <2>1
    <3>2. file.size \in 0..9 /\ crossed \subseteq {t \in Threads : Within(t)}
      BY <2>1 DEF Init
    <3>3. said \in {"nothing", "on", "off", "overruled", "unsaved"}
      BY DEF Init
    <3> QED  BY <2>1, <2>2, <3>1, <3>2, <3>3 DEF TypeOK
  <2>4. Shapes
    <3>1. file \in [text : Texts, size : 0..9]
      BY <1>1, <2>1
    <3> QED  BY <2>1, <3>1 DEF Shapes
  <2> QED  BY <2>3, <2>4
<1>5. FileIsCurrent
  <2>1. Valid(file) = FALSE
    BY <1>3 DEF Init, Valid
  <2>2. Loaded(file) = [on |-> FALSE, volume |-> NotSet, hasListen |-> FALSE]
    BY <2>1, Zenon DEF Loaded
  <2> QED  BY <2>2 DEF Init, FileIsCurrent
<1>6. OverlapsAreCrossed /\ AloneOnEmptyFile /\ TextIsFresh /\ WordIsKept
  BY DEF Init, OverlapsAreCrossed, AloneOnEmptyFile, TextIsFresh, WordIsKept, Within
<1> QED  BY <1>4, <1>5, <1>6 DEF Inv

\* A thread that sets the memory has its save to do from then on: the three calls
\* of the clients, the timer and the re-arming are of this form.
LEMMA SettingInv ==
  ASSUME Inv, NEW c \in Threads, pc[c] = "idle", Saves(c),
         on' \in BOOLEAN, volume' \in {NotSet} \cup 0..120, timer' \in BOOLEAN,
         said' \in {"nothing", "on", "off", "overruled", "unsaved"},
         said' = "on" => on', said' = "off" => ~on',
         UNCHANGED <<hasListen, option, file, text, crossed, spoiled>>
  PROVE  Inv'
<1>1. /\ pc' \in [Threads -> {"idle", "open", "dump", "close"}]
      /\ pc'[c] = "open" /\ \A t \in Threads : t # c => pc'[t] = pc[t]
  BY DEF Inv, Shapes, Saves
<1>2. \A t \in Threads : Within(t)' <=> Within(t)
  BY <1>1 DEF Within
<1>3. Shapes'
  BY <1>1 DEF Inv, Shapes
<1>4. TypeOK'
  BY <1>1, <1>2 DEF Inv, TypeOK
<1>5. OverlapsAreCrossed' /\ AloneOnEmptyFile'
  BY <1>2 DEF Inv, OverlapsAreCrossed, AloneOnEmptyFile
<1>6. TextIsFresh'
  BY <1>1 DEF TextIsFresh
<1>7. FileIsCurrent' /\ WordIsKept'
  BY <1>1 DEF FileIsCurrent, Quiet, WordIsKept
<1> QED  BY <1>3, <1>4, <1>5, <1>6, <1>7 DEF Inv

\* Arming the timer changes nothing that is saved.
LEMMA BindInv == ASSUME Inv, Bind PROVE Inv'
<1>1. /\ UNCHANGED <<on, volume, hasListen, option, file, pc, text, said, crossed, spoiled>>
      /\ timer' = TRUE
  BY DEF Bind, memory, ghosts
<1>2. TypeOK' /\ Shapes' /\ OverlapsAreCrossed' /\ AloneOnEmptyFile' /\ TextIsFresh' /\ WordIsKept'
  BY <1>1 DEF Inv, TypeOK, Shapes, OverlapsAreCrossed, AloneOnEmptyFile, TextIsFresh,
              WordIsKept, Within, Snapshot
<1>3. FileIsCurrent'
  BY <1>1 DEF Inv, FileIsCurrent, Quiet
<1> QED  BY <1>2, <1>3 DEF Inv

\* Opening truncates the file, and makes known to every save that it is not alone.
LEMMA OpenInv == ASSUME Inv, NEW t \in Threads, Open(t) PROVE Inv'
<1>1. /\ pc[t] = "open" /\ pc' = [pc EXCEPT ![t] = "dump"]
      /\ file' = [file EXCEPT !.size = 0] /\ crossed' = Crossing(t)
      /\ UNCHANGED <<on, volume, hasListen, option, text, timer, said, spoiled>>
  BY DEF Open, memory
<1>2. /\ pc' \in [Threads -> {"idle", "open", "dump", "close"}]
      /\ pc'[t] = "dump" /\ \A u \in Threads : u # t => pc'[u] = pc[u]
  BY <1>1 DEF Inv, Shapes
<1>3. Shapes' /\ file'.size = 0 /\ file'.text = file.text
  BY <1>1, <1>2 DEF Inv, Shapes
<1>4. /\ Within(t)' /\ ~Within(t)
      /\ \A u \in Threads : u # t => (Within(u)' <=> Within(u))
  BY <1>1, <1>2 DEF Within
<1>5. crossed \subseteq {u \in Threads : Within(u)}
  BY DEF Inv, TypeOK
<1>6. /\ crossed' \subseteq {u \in Threads : Within(u)'}
      /\ \A u \in Threads : Within(u) => u \in crossed' /\ t \in crossed'
  BY <1>1, <1>4, <1>5 DEF Crossing
<1>7. TypeOK'
  BY <1>1, <1>2, <1>3, <1>6 DEF Inv, TypeOK
<1>8. OverlapsAreCrossed' /\ AloneOnEmptyFile'
  BY <1>3, <1>4, <1>6 DEF OverlapsAreCrossed, AloneOnEmptyFile
<1>9. TextIsFresh' /\ FileIsCurrent' /\ WordIsKept'
  BY <1>1, <1>2 DEF Inv, TextIsFresh, FileIsCurrent, Quiet, WordIsKept
<1> QED  BY <1>3, <1>7, <1>8, <1>9 DEF Inv

\* The text is made from the memory of the moment.
LEMMA DumpInv == ASSUME Inv, NEW t \in Threads, Dump(t) PROVE Inv'
<1>1. /\ pc[t] = "dump" /\ pc' = [pc EXCEPT ![t] = "close"]
      /\ text' = [text EXCEPT ![t] = Snapshot]
      /\ UNCHANGED <<on, volume, hasListen, option, file, timer, said, crossed, spoiled>>
  BY DEF Dump, memory, ghosts
<1>2. Snapshot \in Texts /\ Snapshot' = Snapshot
  BY <1>1, SnapshotType DEF Inv, Snapshot
<1>3. /\ pc' \in [Threads -> {"idle", "open", "dump", "close"}]
      /\ pc'[t] = "close" /\ \A u \in Threads : u # t => pc'[u] = pc[u]
      /\ text' \in [Threads -> Texts]
      /\ text'[t] = Snapshot /\ \A u \in Threads : u # t => text'[u] = text[u]
  BY <1>1, <1>2 DEF Inv, Shapes
<1>4. \A u \in Threads : Within(u)' <=> Within(u)
  BY <1>1, <1>3 DEF Within
<1>5. Shapes' /\ TypeOK'
  BY <1>1, <1>3, <1>4 DEF Inv, Shapes, TypeOK
<1>6. OverlapsAreCrossed' /\ AloneOnEmptyFile'
  BY <1>1, <1>4 DEF Inv, OverlapsAreCrossed, AloneOnEmptyFile
<1>7. TextIsFresh'
  BY <1>2, <1>3 DEF TextIsFresh
<1>8. FileIsCurrent' /\ WordIsKept'
  BY <1>1, <1>3 DEF Inv, FileIsCurrent, Quiet, WordIsKept
<1> QED  BY <1>5, <1>6, <1>7, <1>8 DEF Inv

\* However a save ends, its thread is idle, the listen flag is on record, and the
\* saves beside it know of each other.
LEMMA EndsInv ==
  ASSUME Inv, NEW t \in Threads, pc[t] \in {"open", "close"}, NEW success \in BOOLEAN,
         success => Within(t), Ends(t, success),
         UNCHANGED <<on, volume, option, timer, said>>,
         file' = IF success THEN Overwrite(file, text[t]) ELSE file
  PROVE  Inv'
<1>1. /\ pc' = [pc EXCEPT ![t] = "idle"] /\ text' = [text EXCEPT ![t] = NoFile.text]
      /\ hasListen' = TRUE
      /\ crossed' = (IF success THEN crossed ELSE crossed \cup {u \in Threads : Within(u)}) \ {t}
      /\ spoiled' = (t \in crossed \/ ~success)
  BY DEF Ends
<1>2. NoFile.text \in Texts
  BY DEF NoFile, Texts
<1>3. /\ pc' \in [Threads -> {"idle", "open", "dump", "close"}]
      /\ pc'[t] = "idle" /\ \A u \in Threads : u # t => pc'[u] = pc[u]
      /\ text' \in [Threads -> Texts]
      /\ \A u \in Threads : u # t => text'[u] = text[u]
  BY <1>1, <1>2 DEF Inv, Shapes
<1>4. ~Within(t)' /\ \A u \in Threads : u # t => (Within(u)' <=> Within(u))
  BY <1>3 DEF Within
<1>5. Overwrite(file, text[t]) \in [text : Texts, size : 0..9]
  <2>1. text[t] \in Texts /\ file.size \in 0..9
    BY DEF Inv, Shapes
  <2>2. Size(text[t]) \in 5..9
    BY <2>1, SizeRange
  <2> QED  BY <2>1, <2>2 DEF Overwrite
<1>6. Shapes'
  BY <1>3, <1>5 DEF Inv, Shapes
<1>7. crossed' \subseteq {u \in Threads : Within(u)'}
  <2>1. crossed \subseteq {u \in Threads : Within(u)}
    BY DEF Inv, TypeOK
  <2> QED  BY <2>1, <1>1, <1>4
<1>8. TypeOK'
  <2>1. file'.text \in Texts /\ file'.size \in 0..9
    BY <1>6 DEF Shapes
  <2>2. spoiled' \in BOOLEAN /\ hasListen' \in BOOLEAN
    BY <1>1
  <2> QED  BY <2>1, <2>2, <1>3, <1>7 DEF Inv, TypeOK
\* Any other save in progress is crossed: by this one, if it was, or marked by it.
<1>9. \A u \in Threads : u # t /\ Within(u) => u \in crossed'
  <2>1. CASE success
    BY <2>1, <1>1 DEF Inv, OverlapsAreCrossed
  <2>2. CASE ~success
    BY <2>2, <1>1
  <2> QED  BY <2>1, <2>2
<1>10. OverlapsAreCrossed' /\ AloneOnEmptyFile'
  BY <1>4, <1>9 DEF OverlapsAreCrossed, AloneOnEmptyFile
<1>11. TextIsFresh'
  <2>1. \A u \in Threads : pc'[u] = "close" => u # t /\ Within(u)
    BY <1>3 DEF Within
  <2> QED  BY <2>1, <1>9 DEF TextIsFresh
<1>12. FileIsCurrent'
  <2> SUFFICES ASSUME Quiet'
               PROVE  Loaded(file') = [on |-> on', volume |-> volume', hasListen |-> hasListen']
    BY DEF FileIsCurrent
  <2>1. success /\ t \notin crossed /\ pc[t] = "close"
    BY <1>1 DEF Quiet, Within
  <2>2. \A u \in Threads \ {t} : pc[u] = "idle"
    BY <1>3 DEF Quiet
  <2>3. text[t] = Snapshot /\ file.size = 0
    BY <2>1, <2>2 DEF Inv, TextIsFresh, AloneOnEmptyFile, Within
  <2>4. file \in [text : Texts, size : 0..9] /\ text[t] \in Texts
    BY DEF Inv, Shapes
  <2>5. Loaded(file') = [on |-> text[t].listen, volume |-> text[t].volume_hw, hasListen |-> TRUE]
    BY <2>1, <2>3, <2>4, WrittenIsLoaded
  <2> QED  BY <2>3, <2>5, <1>1 DEF Snapshot
<1>13. WordIsKept'
  BY <1>1 DEF Inv, WordIsKept
<1> QED  BY <1>6, <1>8, <1>10, <1>11, <1>12, <1>13 DEF Inv

\* After a restart memory is what the file yields; if nothing was being saved, that
\* is what it was before, the user's word included.
LEMMA RestartInv == ASSUME Inv, Restart PROVE Inv'
<1>1. /\ on' = Loaded(file).on /\ volume' = Loaded(file).volume
      /\ hasListen' = Loaded(file).hasListen /\ option' \in BOOLEAN
      /\ pc' = [t \in Threads |-> "idle"] /\ text' = [t \in Threads |-> NoFile.text]
      /\ timer' = FALSE /\ crossed' = {} /\ spoiled' = FALSE
      /\ said' = IF Quiet \/ said = "nothing" THEN said ELSE "unsaved"
      /\ file' = file
  BY DEF Restart
<1>2. file \in [text : Texts, size : 0..9] /\ NoFile.text \in Texts
  BY DEF Inv, Shapes, NoFile, Texts
<1>3. /\ on' \in BOOLEAN /\ hasListen' \in BOOLEAN /\ volume' \in {NotSet} \cup 0..120
  BY <1>1, <1>2, LoadedType
<1>4. Shapes'
  BY <1>1, <1>2 DEF Shapes
<1>5. TypeOK'
  BY <1>1, <1>2, <1>3 DEF Inv, TypeOK
<1>6. OverlapsAreCrossed' /\ AloneOnEmptyFile' /\ TextIsFresh'
  BY <1>1 DEF OverlapsAreCrossed, AloneOnEmptyFile, TextIsFresh, Within
<1>7. FileIsCurrent'
  <2>1. Loaded(file) = [on |-> Loaded(file).on, volume |-> Loaded(file).volume,
                        hasListen |-> Loaded(file).hasListen]
    BY DEF Loaded
  <2> QED  BY <2>1, <1>1 DEF FileIsCurrent
<1>8. WordIsKept'
  <2>1. CASE Quiet
    <3>1. Loaded(file) = [on |-> on, volume |-> volume, hasListen |-> hasListen]
      BY <2>1 DEF Inv, FileIsCurrent
    <3>2. on' = on /\ hasListen' = hasListen
      BY <3>1, <1>1
    <3>3. said \in {"on", "off"} => hasListen
      BY <2>1 DEF Inv, WordIsKept, Quiet
    <3> QED  BY <2>1, <3>2, <3>3, <1>1 DEF Inv, WordIsKept
  <2>2. CASE ~Quiet
    BY <2>2, <1>1 DEF WordIsKept
  <2> QED  BY <2>1, <2>2
<1> QED  BY <1>4, <1>5, <1>6, <1>7, <1>8 DEF Inv
-----------------------------------------------------------------------------
\* Every step of the server, of the disk and of the add-on keeps the invariant.
LEMMA NextInv == Inv /\ [Next]_vars => Inv'
<1> SUFFICES ASSUME Inv, [Next]_vars PROVE Inv'
  OBVIOUS
<1>1. Clients \subseteq Threads /\ Session \in Threads
  BY DEF Threads
<1>2. on \in BOOLEAN /\ volume \in {NotSet} \cup 0..120 /\ timer \in BOOLEAN
      /\ said \in {"nothing", "on", "off", "overruled", "unsaved"}
      /\ (said = "on" => on) /\ (said = "off" => ~on)
  BY DEF Inv, TypeOK, WordIsKept
<1>3. ASSUME NEW c \in Clients, NEW level \in Levels, SetVolume(c, level) PROVE Inv'
  <2>1. Attenuation(level) \in 0..120
    BY AttenuationRange, StateFileAssumption
  <2> QED  BY <2>1, <1>1, <1>2, <1>3, SettingInv DEF SetVolume, Request
<1>4. ASSUME NEW c \in Clients, MicOn(c) PROVE Inv'
  BY <1>1, <1>2, <1>4, SettingInv DEF MicOn, Request
<1>5. ASSUME NEW c \in Clients, MicOff(c) PROVE Inv'
  BY <1>1, <1>2, <1>5, SettingInv DEF MicOff, Request
<1>6. CASE Bind
  BY <1>6, BindInv
<1>7. CASE TimerFires
  BY <1>1, <1>2, <1>7, SettingInv DEF TimerFires
<1>8. CASE Rearm
  BY <1>1, <1>2, <1>8, SettingInv DEF Rearm, memory, ghosts
<1>9. ASSUME NEW t \in Threads, Open(t) \/ Dump(t) PROVE Inv'
  BY <1>9, OpenInv, DumpInv
<1>10. ASSUME NEW t \in Threads, Close(t) PROVE Inv'
  BY <1>10, EndsInv DEF Close, Within
<1>11. ASSUME NEW t \in Threads, DiskRefuses(t) PROVE Inv'
  BY <1>11, EndsInv DEF DiskRefuses
<1>12. CASE Restart
  BY <1>12, RestartInv
<1>13. CASE UNCHANGED vars
  <2>1. UNCHANGED <<on, volume, hasListen, option, file, pc, text, timer, said, crossed, spoiled>>
    BY <1>13 DEF vars
  <2>2. TypeOK' /\ Shapes' /\ OverlapsAreCrossed' /\ AloneOnEmptyFile' /\ TextIsFresh' /\ WordIsKept'
    BY <2>1 DEF Inv, TypeOK, Shapes, OverlapsAreCrossed, AloneOnEmptyFile, TextIsFresh,
                WordIsKept, Within, Snapshot
  <2>3. FileIsCurrent'
    BY <2>1 DEF Inv, FileIsCurrent, Quiet
  <2> QED  BY <2>2, <2>3 DEF Inv
<1> QED
  BY <1>3, <1>4, <1>5, <1>6, <1>7, <1>8, <1>9, <1>10, <1>11, <1>12, <1>13 DEF Next

\* The inductive invariant of the state file.
THEOREM StateFileInvariant == Spec => []Inv
BY InitInv, NextInv, PTL DEF Spec

\* Every variable of the settings and the file keeps its type: no level asked for
\* makes an attenuation out of range.
THEOREM StateFileTypes == Spec => []TypeOK
<1>1. Inv => TypeOK
  BY DEF Inv
<1> QED  BY <1>1, StateFileInvariant, PTL

\* _save_state and _load_state: when nothing is being saved, and the last save ran
\* alone and was not refused, a restart finds what memory holds.
THEOREM FileIsCurrentHolds == Spec => []FileIsCurrent
<1>1. Inv => FileIsCurrent
  BY DEF Inv
<1> QED  BY <1>1, StateFileInvariant, PTL

\* has_listen: what the user said at run time wins over AUTO_LISTEN ever after,
\* however many saves the disk refuses.
THEOREM UserDecidesHolds == Spec => []UserDecides
<1>1. Inv => UserDecides
  BY DEF Inv, UserDecides, WordIsKept, WantListen
<1> QED  BY <1>1, StateFileInvariant, PTL
=============================================================================
