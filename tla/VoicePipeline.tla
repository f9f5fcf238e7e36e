---------------------------- MODULE VoicePipeline ----------------------------
(***************************************************************************)
(* From a button recording to a spoken reply (BootHandler.do_POST,         *)
(* handle_voice, stt_transcribe, conversation_ask, run_action_tags,        *)
(* _speak, synth_tts and the ffmpeg helpers of server.py), beside an API   *)
(* client whose requests fill the same resource store, and the rabbit      *)
(* that fetches what it is told to.                                        *)
(*                                                                         *)
(* A thread is the sequence of steps it still has to take, each with its   *)
(* arguments; a try ... finally leaves its cleaning step in the sequence.  *)
(* External programs, the network and the disk may fail.  Audio is known   *)
(* by its format: "raw" is what Home Assistant's engine returned.          *)
(***************************************************************************)
EXTENDS ResourceStore, FiniteSets, SequencesExt

CONSTANTS Voices,        \* the threads of button recordings
          Client,        \* an API client
          Engines,       \* the values of TTS_ENGINE: "ha", "espeak"
          MaxSegments,   \* segments of a phrase, the parts between [pause] marks
          MaxBurst,      \* requests of the client
          MaxFaults,     \* failures of external programs, network or disk
          MaxClock

ASSUME VoicePipelineAssumption ==
  /\ Writers = Voices \cup {Client} /\ Client \notin Voices
  /\ Engines \subseteq {"ha", "espeak"}
  /\ MaxSegments \in Nat \ {0} /\ {MaxBurst, MaxFaults, MaxClock} \subseteq Nat

VARIABLES TTS_ENGINE,
          todo,      \* per thread: the steps it still has to take
          text,      \* per voice: heard, then to be said: "nothing", "words" or "tags"
          audio,     \* per voice: the format of the audio in hand
          steps,     \* per voice: the segments of the phrase that are synthesized
          temps,     \* per voice: its temporary files on disk
          segments,  \* per voice: the segments its phrase has; a history
          why,       \* per voice: what went wrong; a history
          spoken,    \* per voice: the formats pushed to the rabbit; a history
          faults, burst,
          programs,  \* tokens of the programs on their way to the rabbit
          missed     \* tokens the rabbit was refused; a history

speech == <<text, audio, steps, segments>>
histories == <<why, spoken>>
world == <<burst, programs, missed>>
vars == <<storeVars, TTS_ENGINE, todo, speech, temps, histories, faults, world>>

Cue == 1                   \* the sizes that matter: a choreography,
Sound == 2                 \* a sound,
Podcast == MaxBytes + 1    \* and a body posted to /api/play

Init ==
  /\ StoreInit
  /\ TTS_ENGINE \in Engines
  /\ todo = [t \in Writers |-> IF t = Client THEN <<>> ELSE << <<"bunny">> >>]
  /\ text = [v \in Voices |-> "nothing"] /\ audio = [v \in Voices |-> "none"]
  /\ steps = [v \in Voices |-> <<>>] /\ temps = [v \in Voices |-> {}]
  /\ segments = [v \in Voices |-> 0]
  /\ why = [v \in Voices |-> {}] /\ spoken = [v \in Voices |-> <<>>]
  /\ faults = 0 /\ burst = 0 /\ programs = {} /\ missed = {}
-----------------------------------------------------------------------------
At(t, step) == todo[t] # <<>> /\ Head(todo[t])[1] = step
Arg(t) == Head(todo[t])[2]
Then(t, s) == todo' = [todo EXCEPT ![t] = s \o Tail(@)]
Return(t) == todo' = [todo EXCEPT ![t] = <<>>]

Fault(t, what) ==
  /\ faults < MaxFaults /\ faults' = faults + 1
  /\ why' = [why EXCEPT ![t] = @ \cup {what}]
Fine == UNCHANGED <<faults, why>>

\* NamedTemporaryFile(delete=False): a name nobody uses, left on disk.
FreshFile(t) == CHOOSE n \in 1..(Cardinality(temps[t]) + 1) : n \notin temps[t]
Creates(t) == temps' = [temps EXCEPT ![t] = @ \cup {FreshFile(t)}]
Unlinks(t, f) == temps' = [temps EXCEPT ![t] = @ \ {f}]
-----------------------------------------------------------------------------
\* Mutant: the bytes of the engine go to the rabbit untouched.
FromHomeAssistantUntouched == << <<"filter", "pitch">>, <<"keep">> >>

\* The programs for one more segment, from the audio that starts them.
FromHomeAssistant == << <<"filter", "pitch">>, <<"filter", "encode">>, <<"keep">> >>
FromEspeak(f) == << <<"filter", "resample8">>, <<"filter", "pitch">>, <<"unlink", f>>, <<"keep">> >>

\* What an ffmpeg filter makes of the audio.
Filtered(filter, a) ==
  CASE filter = "encode" -> "mp3" [] filter = "resample8" -> "wav8" [] OTHER -> a

\* _pitch, _to_rabbit_audio, _resample_wav, _fade: the input file.  The finally
\* clause knows the file only once it is written.
OpenFilter(t) ==
  /\ At(t, "filter") /\ Creates(t)
  /\ \/ Then(t, << <<"run", FreshFile(t), Arg(t)>> >>) /\ Fine
     \/ Fault(t, "disk") /\ Then(t, <<>>)
  /\ UNCHANGED <<storeVars, TTS_ENGINE, speech, spoken, world>>

\* Mutant: a filter that fails leaves its files behind.
RunFilterWithoutFinally(t) ==
  /\ At(t, "run") /\ Then(t, <<>>)
  /\ \/ /\ audio' = [audio EXCEPT ![t] = Filtered(Head(todo[t])[3], @)]
        /\ Unlinks(t, Arg(t)) /\ Fine
     \/ Fault(t, "ffmpeg") /\ UNCHANGED <<audio, temps>>
  /\ UNCHANGED <<storeVars, TTS_ENGINE, text, steps, segments, spoken, world>>

\* The program itself: a failure leaves the audio as it was.
RunFilter(t) ==
  /\ At(t, "run") /\ Unlinks(t, Arg(t)) /\ Then(t, <<>>)
  /\ \/ audio' = [audio EXCEPT ![t] = Filtered(Head(todo[t])[3], @)] /\ Fine
     \/ Fault(t, "ffmpeg") /\ UNCHANGED audio
  /\ UNCHANGED <<storeVars, TTS_ENGINE, text, steps, segments, spoken, world>>

\* A finally clause of stt_transcribe or synth_tts.
Unlink(t) ==
  /\ At(t, "unlink") /\ Unlinks(t, Arg(t)) /\ Then(t, <<>>)
  /\ UNCHANGED <<storeVars, TTS_ENGINE, speech, spoken, faults, why, world>>
-----------------------------------------------------------------------------
\* handle_voice, up to the cue that it is thinking.
FindBunny(t) ==
  /\ At(t, "bunny")
  /\ \/ Then(t, << <<"store", Cue>>, <<"transcribe">> >>) /\ Fine
     \/ Fault(t, "offline") /\ Return(t)
  /\ UNCHANGED <<storeVars, TTS_ENGINE, speech, temps, spoken, world>>

\* stt_transcribe: the file for whisper, and the recording at 16 kHz for it.
OpenForWhisper(t) ==
  /\ At(t, "transcribe") /\ Creates(t)
  /\ Then(t, << <<"filter", "resample16">>, <<"write", FreshFile(t)>> >>)
  /\ UNCHANGED <<storeVars, TTS_ENGINE, speech, spoken, faults, why, world>>

\* The write stands before the try: an exception here ends the thread.
WriteForWhisper(t) ==
  /\ At(t, "write")
  /\ \/ Then(t, << <<"whisper">>, <<"unlink", Arg(t)>>, <<"ask">> >>) /\ Fine
     \/ Fault(t, "disk") /\ Return(t)
  /\ UNCHANGED <<storeVars, TTS_ENGINE, speech, temps, spoken, world>>

\* whisper.cpp: nothing heard when it fails, or when nothing was said.
Whisper(t) ==
  /\ At(t, "whisper") /\ Then(t, <<>>)
  /\ \/ text' = [text EXCEPT ![t] = "words"] /\ Fine
     \/ Fault(t, "unheard") /\ UNCHANGED text
  /\ UNCHANGED <<storeVars, TTS_ENGINE, audio, steps, segments, temps, spoken, world>>

\* Mutant: what the agent says is said, be it nothing.
AskWithoutEcho(t) ==
  /\ At(t, "ask")
  /\ \/ text[t] = "nothing" /\ Return(t) /\ Fine /\ UNCHANGED text
     \/ /\ text[t] # "nothing" /\ Then(t, << <<"tags">> >>)
        /\ \/ Fault(t, "agent") /\ text' = [text EXCEPT ![t] = "nothing"]
           \/ \E reply \in {"words", "tags"} : text' = [text EXCEPT ![t] = reply] /\ Fine
  /\ UNCHANGED <<storeVars, TTS_ENGINE, audio, steps, segments, temps, spoken, world>>

\* conversation_ask; an agent that fails or says nothing leaves the echo of what
\* was heard, as no agent does.
Ask(t) ==
  /\ At(t, "ask")
  /\ \/ text[t] = "nothing" /\ Return(t) /\ Fine /\ UNCHANGED text
     \/ /\ text[t] # "nothing" /\ Then(t, << <<"tags">> >>)
        /\ \/ Fault(t, "agent") /\ UNCHANGED text
           \/ \E reply \in {"words", "tags"} : text' = [text EXCEPT ![t] = reply] /\ Fine
  /\ UNCHANGED <<storeVars, TTS_ENGINE, audio, steps, segments, temps, spoken, world>>

\* run_action_tags: what is between the tags is the phrase, cut at its pauses;
\* a reply of tags alone ends here.
RunTags(t) ==
  /\ At(t, "tags")
  /\ \/ /\ text[t] = "words"
        /\ \E n \in 1..MaxSegments :
             /\ segments' = [segments EXCEPT ![t] = n]
             /\ Then(t, [i \in 1..n |-> <<"synth">>] \o << <<"play">> >>)
     \/ text[t] = "tags" /\ Then(t, << <<"store", Cue>> >>) /\ UNCHANGED segments
     \/ text[t] = "nothing" /\ Return(t) /\ UNCHANGED segments
  /\ UNCHANGED <<storeVars, TTS_ENGINE, text, audio, steps, temps, spoken, faults, why, world>>
-----------------------------------------------------------------------------
\* synth_tts: Home Assistant's engine, or espeak when it fails or is not wanted.
Synthesize(t) ==
  /\ At(t, "synth")
  /\ \/ /\ TTS_ENGINE = "ha" /\ audio' = [audio EXCEPT ![t] = "raw"]
        /\ Then(t, FromHomeAssistant) /\ Fine /\ UNCHANGED temps
     \/ /\ TTS_ENGINE = "espeak" \/ faults < MaxFaults
        /\ faults' = IF TTS_ENGINE = "ha" THEN faults + 1 ELSE faults
        /\ Creates(t) /\ Then(t, << <<"espeak", FreshFile(t)>> >>)
        /\ UNCHANGED <<audio, why>>
  /\ UNCHANGED <<storeVars, TTS_ENGINE, text, steps, segments, spoken, world>>

\* espeak-ng: a failure goes up through _speak to handle_voice.
Espeak(t) ==
  /\ At(t, "espeak")
  /\ \/ audio' = [audio EXCEPT ![t] = "wav22"] /\ Then(t, FromEspeak(Arg(t))) /\ Fine
     \/ /\ Fault(t, "espeak") /\ UNCHANGED audio
        /\ todo' = [todo EXCEPT ![t] = << <<"unlink", Arg(t)>> >>]
  /\ UNCHANGED <<storeVars, TTS_ENGINE, text, steps, segments, temps, spoken, world>>

\* Mutant: a segment is played as soon as it is there.
KeepAndPlay(t) ==
  /\ At(t, "keep")
  /\ Then(t, << <<"store", Sound>> >>)
  /\ UNCHANGED <<storeVars, TTS_ENGINE, speech, temps, spoken, faults, why, world>>

\* _speak: one more segment is ready.
Keep(t) ==
  /\ At(t, "keep")
  /\ steps' = [steps EXCEPT ![t] = Append(@, audio[t])] /\ Then(t, <<>>)
  /\ UNCHANGED <<storeVars, TTS_ENGINE, text, audio, segments, temps, spoken, faults, why, world>>

\* Only then they are played, one program each.
Play(t) ==
  /\ At(t, "play")
  /\ \/ steps[t] = <<>> /\ Return(t) /\ UNCHANGED <<audio, steps>>
     \/ /\ steps[t] # <<>>
        /\ audio' = [audio EXCEPT ![t] = Head(steps[t])]
        /\ steps' = [steps EXCEPT ![t] = Tail(@)]
        /\ todo' = [todo EXCEPT ![t] =
             (IF segments[t] > 1 THEN << <<"filter", "fade">> >> ELSE <<>>)
               \o << <<"store", Sound>>, <<"play">> >>]
  /\ UNCHANGED <<storeVars, TTS_ENGINE, text, segments, temps, spoken, faults, why, world>>
-----------------------------------------------------------------------------
\* Mutant: the rabbit is told before the resource is stored.
StoreAfterPush(t) ==
  /\ At(t, "store")
  /\ \/ /\ Stamp(t, Arg(t)) /\ programs' = programs \cup {tokens'}
        /\ UNCHANGED todo
     \/ /\ \/ Insert(t) \/ Evict(t)
        /\ UNCHANGED <<todo, programs>>
     \/ Release(t) /\ Then(t, <<>>) /\ UNCHANGED programs
  /\ UNCHANGED <<TTS_ENGINE, speech, temps, spoken, faults, why, burst, missed>>

\* store_resource, and the program that names the token.
Store(t) ==
  /\ At(t, "store")
  /\ \/ /\ \/ Stamp(t, Arg(t)) \/ Insert(t) \/ Evict(t)
        /\ UNCHANGED todo
     \/ /\ Release(t)
        /\ Then(t, << <<"push", pending[t][1].token, Arg(t)>> >>)
  /\ UNCHANGED <<TTS_ENGINE, speech, temps, spoken, faults, why, world>>

\* send_program: ST for a sound, CH for a choreography.
Push(t) ==
  /\ At(t, "push") /\ Then(t, <<>>)
  /\ programs' = programs \cup {Arg(t)}
  /\ spoken' = IF t \in Voices /\ Head(todo[t])[3] = Sound
               THEN [spoken EXCEPT ![t] = Append(@, audio[t])] ELSE spoken
  /\ UNCHANGED <<storeVars, TTS_ENGINE, speech, temps, faults, why, burst, missed>>

\* A request of the API client: a light, a sound, an audio file of its own.
Request ==
  /\ todo[Client] = <<>> /\ burst < MaxBurst /\ burst' = burst + 1
  /\ \E size \in {Cue, Sound, Podcast} :
       todo' = [todo EXCEPT ![Client] = << <<"store", size>> >>]
  /\ UNCHANGED <<storeVars, TTS_ENGINE, speech, temps, spoken, faults, why, programs, missed>>

\* GET /res/<token>: the entry is read under the lock.
Fetch(token) ==
  /\ token \in programs /\ RES_LOCK = "free"
  /\ programs' = programs \ {token}
  /\ missed' = IF Holds(token) THEN missed ELSE missed \cup {token}
  /\ UNCHANGED <<storeVars, TTS_ENGINE, todo, speech, temps, spoken, faults, why, burst>>

TimePasses ==
  /\ clock < MaxClock /\ Tick
  /\ UNCHANGED <<TTS_ENGINE, todo, speech, temps, spoken, faults, why, world>>

Voice(t) ==
  \/ OpenFilter(t) \/ RunFilter(t) \/ Unlink(t)
  \/ FindBunny(t) \/ OpenForWhisper(t) \/ WriteForWhisper(t) \/ Whisper(t) \/ Ask(t) \/ RunTags(t)
  \/ Synthesize(t) \/ Espeak(t) \/ Keep(t) \/ Play(t)

Next ==
  \/ \E v \in Voices : Voice(v)
  \/ \E t \in Writers : Store(t) \/ Push(t)
  \/ Request \/ TimePasses
  \/ \E token \in programs : Fetch(token)

Spec == Init /\ [][Next]_vars
-----------------------------------------------------------------------------
Finished(v) == todo[v] = <<>>

\* However a recording's thread ends, and whatever failed it on the way, none of
\* its temporary files stays on disk; unless the disk was full, when the file that
\* could not be written is nobody's (stt_transcribe, _resample_wav and the like).
TempsCleaned ==
  \A v \in Voices : Finished(v) /\ "disk" \notin why[v] => temps[v] = {}

\* The rabbit is not mute without a reason: no failure of the agent, of Home
\* Assistant's engine or of ffmpeg costs the reply, each has its fallback.
SilenceHasAReason ==
  \A v \in Voices : Finished(v) /\ spoken[v] = <<>> =>
    \/ why[v] \cap {"offline", "unheard", "espeak", "disk"} # {}
    \/ text[v] = "tags"

\* A phrase is spoken whole or not at all: the synthesis that fails on its last
\* segment does not leave the rabbit in the middle of the sentence.
PhraseWhole ==
  \A v \in Voices : Finished(v) => Len(spoken[v]) \in {0, segments[v]}

\* What the rabbit's decoder cannot play reaches it only if ffmpeg failed, or the
\* disk was full: "a rabbit that played the built-in jingles perfectly stayed mute
\* on every spoken word".
SpeechIsPlayable ==
  \A v \in Voices :
    why[v] \cap {"ffmpeg", "disk"} = {} => ToSet(spoken[v]) \subseteq {"mp3", "wav8"}

\* The rabbit is never told to fetch what is not there yet: a token it is refused
\* is one the store has held and dropped.
MissedWasDropped == missed \subseteq {stored[i].token : i \in 1..RES_DROPPED}
=============================================================================
