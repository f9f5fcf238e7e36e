------------------------------ MODULE StateFile ------------------------------
(***************************************************************************)
(* state.json: the listen flag and the volume across restarts of the       *)
(* add-on, and who decides whether the rabbit listens when it connects.    *)
(*                                                                         *)
(* Every request has a thread of its own and _save_state no lock: open     *)
(* truncates the file, the text is made from what memory holds at that     *)
(* moment, and it is written over the start of the file at the close.  The *)
(* add-on may stop between any two steps, and the disk may refuse.         *)
(***************************************************************************)
EXTENDS Integers

CONSTANTS Clients,       \* threads of /api requests
          Session,       \* the thread of the rabbit's session and its timers
          Levels,        \* values of ?level= the clients ask for
          MaxCalls, MaxStops, MaxFailures      \* bounds of the exploration

ASSUME StateFileAssumption ==
  /\ Session \notin Clients
  /\ Levels \subseteq Int
  /\ {MaxCalls, MaxStops, MaxFailures} \subseteq Nat

VARIABLES on, volume, hasListen,   \* WAKE["on"], VOLUME["hw"], has_listen
          option,      \* auto_listen in the add-on's configuration
          file,        \* state.json: the text written last, and the file's size
          pc, text,    \* per thread: where _save_state is, and what it will write
          timer,       \* an idle bind has armed _start_listen
          said,        \* the user's last word on listening, at run time: "nothing" as
                       \*   long as there was none, "unsaved" if it may be lost
          crossed,     \* the saves that have had another one beside them
          spoiled,     \* the last save was crossed, or failed
          calls, stops, failures

vars == <<on, volume, hasListen, option, file, pc, text, timer, said, crossed, spoiled, calls, stops, failures>>
memory == <<on, volume, hasListen>>
ghosts == <<said, crossed, spoiled>>
bounds == <<calls, stops, failures>>

Threads == Clients \cup {Session}

-----------------------------------------------------------------------------
(* What is written and what is read back. *)

NotSet == -1

AttenuationUnclamped(level) == ((100 - level) * 12 + 5) \div 10

\* The VS1003's attenuation for ?level=: 0 is loudest.
Attenuation(level) ==
  LET clamped == IF level < 0 THEN 0 ELSE IF level > 100 THEN 100 ELSE level
  IN  ((100 - clamped) * 12 + 5) \div 10

Snapshot == [listen |-> on, volume_hw |-> volume]

\* The characters of a snapshot whose number varies: true or false, and the
\* volume, null when it was never set.
Size(t) ==
  (IF t.listen THEN 4 ELSE 5)
  + (IF t.volume_hw = NotSet THEN 4
     ELSE IF t.volume_hw < 10 THEN 1 ELSE IF t.volume_hw < 100 THEN 2 ELSE 3)

\* Missing or truncated; nothing but one text can be parsed.
NoFile == [text |-> [listen |-> FALSE, volume_hw |-> NotSet], size |-> 0]
Valid(f) == f.size = Size(f.text)

\* A text written from the start of the file leaves what was longer behind it.
Overwrite(f, t) == [text |-> t, size |-> IF f.size > Size(t) THEN f.size ELSE Size(t)]

\* What _load_state makes of the file: of one it cannot parse, the defaults.
Loaded(f) ==
  [on |-> Valid(f) /\ f.text.listen,
   volume |-> IF Valid(f) THEN f.text.volume_hw ELSE NotSet,
   hasListen |-> Valid(f)]

Init ==
  /\ file = NoFile
  /\ on = FALSE /\ volume = NotSet /\ hasListen = FALSE
  /\ option \in BOOLEAN
  /\ pc = [t \in Threads |-> "idle"]
  /\ text = [t \in Threads |-> NoFile.text]
  /\ timer = FALSE
  /\ said = "nothing" /\ crossed = {} /\ spoiled = FALSE
  /\ calls = 0 /\ stops = 0 /\ failures = 0

-----------------------------------------------------------------------------
(* What sets the listen flag or the volume, each with a save to follow. *)

Saves(t) == pc' = [pc EXCEPT ![t] = "open"]

Request(c, word) ==
  /\ pc[c] = "idle"
  /\ calls < MaxCalls /\ calls' = calls + 1
  /\ said' = word
  /\ UNCHANGED <<hasListen, option, file, text, timer, crossed, spoiled, stops, failures>>

\* /api/volume: the attenuation is kept, to be sent again when the rabbit is back.
SetVolume(c, level) ==
  /\ Request(c, said)
  /\ volume' = Attenuation(level)
  /\ Saves(c)
  /\ UNCHANGED on

\* /api/mic?on=1, through _start_listen.
MicOn(c) ==
  /\ Request(c, "on")
  /\ on' = TRUE
  /\ Saves(c)
  /\ UNCHANGED volume

\* /api/mic?on=0.
MicOff(c) ==
  /\ Request(c, "off")
  /\ on' = FALSE
  /\ Saves(c)
  /\ UNCHANGED volume

\* At the idle bind of a session: the saved flag, or the configured default.
WantListen == IF hasListen THEN on ELSE option

\* The idle bind of a session: it arms the timer that starts the microphone.
Bind ==
  /\ ~timer
  /\ WantListen
  /\ timer' = TRUE
  /\ UNCHANGED <<memory, option, file, pc, text, ghosts, bounds>>

\* _start_listen, four seconds later, whatever the user has said meanwhile.
TimerFires ==
  /\ timer /\ pc[Session] = "idle"
  /\ timer' = FALSE
  /\ on' = TRUE
  /\ said' = IF said = "off" THEN "overruled" ELSE said
  /\ Saves(Session)
  /\ UNCHANGED <<volume, hasListen, option, file, text, crossed, spoiled, bounds>>

\* _rearm_mic_if_owed: the microphone comes back after a sound, and each time
\* the settings are saved again.
Rearm ==
  /\ on /\ pc[Session] = "idle"
  /\ Saves(Session)
  /\ UNCHANGED <<memory, option, file, text, timer, ghosts, bounds>>

-----------------------------------------------------------------------------
(* _save_state. *)

Within(t) == pc[t] \in {"dump", "close"}

\* The saves that have had another beside them, now that t's begins.
Crossing(t) ==
  LET others == {u \in Threads : Within(u)}
  IN  IF others = {} THEN crossed ELSE crossed \cup others \cup {t}

EndsRecordedIfSaved(t, success) ==
  /\ pc' = [pc EXCEPT ![t] = "idle"]
  /\ text' = [text EXCEPT ![t] = NoFile.text]
  /\ hasListen' = (hasListen \/ success)
  /\ crossed' = (IF success THEN crossed ELSE crossed \cup {u \in Threads : Within(u)}) \ {t}
  /\ spoiled' = (t \in crossed \/ ~success)

\* It ends the same way when the disk refused, but for a line in the log: the
\* flag counts as recorded.
Ends(t, success) ==
  /\ pc' = [pc EXCEPT ![t] = "idle"]
  /\ text' = [text EXCEPT ![t] = NoFile.text]
  /\ hasListen' = TRUE
  /\ crossed' = (IF success THEN crossed ELSE crossed \cup {u \in Threads : Within(u)}) \ {t}
  /\ spoiled' = (t \in crossed \/ ~success)

OpenWithoutTruncating(t) ==
  /\ pc[t] = "open"
  /\ pc' = [pc EXCEPT ![t] = "dump"]
  /\ crossed' = Crossing(t)
  /\ UNCHANGED <<memory, option, file, text, timer, said, spoiled, bounds>>

Open(t) ==
  /\ pc[t] = "open"
  /\ pc' = [pc EXCEPT ![t] = "dump"]
  /\ file' = [file EXCEPT !.size = 0]
  /\ crossed' = Crossing(t)
  /\ UNCHANGED <<memory, option, text, timer, said, spoiled, bounds>>

\* json.dump fills the buffer of the file object.
Dump(t) ==
  /\ pc[t] = "dump"
  /\ pc' = [pc EXCEPT ![t] = "close"]
  /\ text' = [text EXCEPT ![t] = Snapshot]
  /\ UNCHANGED <<memory, option, file, timer, ghosts, bounds>>

Close(t) ==
  /\ pc[t] = "close"
  /\ file' = Overwrite(file, text[t])
  /\ Ends(t, TRUE)
  /\ UNCHANGED <<on, volume, option, timer, said, bounds>>

\* An OSError, of the open or of the flush.
DiskRefuses(t) ==
  /\ pc[t] \in {"open", "close"}
  /\ failures < MaxFailures /\ failures' = failures + 1
  /\ Ends(t, FALSE)
  /\ UNCHANGED <<on, volume, option, file, timer, said, calls, stops>>

-----------------------------------------------------------------------------
(* The add-on stops wherever its threads are, and starts again, perhaps with *)
(* another configuration.                                                    *)

Quiet == (\A t \in Threads : pc[t] = "idle") /\ ~spoiled

Restart ==
  /\ stops < MaxStops /\ stops' = stops + 1
  /\ on' = Loaded(file).on
  /\ volume' = Loaded(file).volume
  /\ hasListen' = Loaded(file).hasListen
  /\ option' \in BOOLEAN
  /\ pc' = [t \in Threads |-> "idle"]
  /\ text' = [t \in Threads |-> NoFile.text]
  /\ timer' = FALSE
  /\ said' = IF Quiet \/ said = "nothing" THEN said ELSE "unsaved"
  /\ crossed' = {} /\ spoiled' = FALSE
  /\ UNCHANGED <<file, calls, failures>>

Next ==
  \/ \E c \in Clients : MicOn(c) \/ MicOff(c) \/ \E level \in Levels : SetVolume(c, level)
  \/ Bind \/ TimerFires \/ Rearm
  \/ \E t \in Threads : Open(t) \/ Dump(t) \/ Close(t) \/ DiskRefuses(t)
  \/ Restart

Spec == Init /\ [][Next]_vars

-----------------------------------------------------------------------------
(* What the state file promises. *)

Texts == [listen : BOOLEAN, volume_hw : {NotSet} \cup 0..120]

TypeOK ==
  /\ {on, hasListen, option, timer, spoiled} \subseteq BOOLEAN
  /\ volume \in {NotSet} \cup 0..120
  /\ file.text \in Texts /\ file.size \in 0..9
  /\ \A t \in Threads : pc[t] \in {"idle", "open", "dump", "close"} /\ text[t] \in Texts
  /\ said \in {"nothing", "on", "off", "overruled", "unsaved"}
  /\ crossed \subseteq {t \in Threads : Within(t)}

\* Toggling the listening and setting the volume survive a restart of the add-on,
\* unless it stops before a save has ended, or the last one was refused by the disk
\* or had another one beside it: when nothing is being saved, what would be loaded
\* is what memory holds.  A save that ran alone makes good whatever crossed or failed
\* saves have left behind, however long the text they left.
FileIsCurrent ==
  Quiet => Loaded(file) = [on |-> on, volume |-> volume, hasListen |-> hasListen]

\* The user's word at run time wins over the configured default at every later
\* connection and over restarts, even on a disk that refuses every save.
UserDecides ==
  (\A t \in Threads : pc[t] = "idle") =>
    /\ said = "on" => WantListen
    /\ said = "off" => ~WantListen

\* With the option off, no connection starts the microphone for a user who has never
\* said a word about it at run time.
OptionOffIsOff == [][Bind /\ said = "nothing" => option]_vars
=============================================================================
