# Verification of the Nabaztag server

TLA+ models of the Nabaztag add-on (`src/nabaztag-violet`) and of the parts of
the rabbit's firmware it works with, TLC configurations that check them on small
instances, and TLAPS proofs of what holds on every instance.

## 1. Inventory

The repository revives a 2006 Nabaztag:tag. Its own code is a Python server that
plays Violet's infrastructure, additions to the rabbit's bytecode (Metal, `.mtl`)
and to its ARM firmware (C), an emulator to run that firmware on a PC, and tools.

| Part | State it keeps | Operations | Speaks to |
|---|---|---|---|
| XMPP sessions, `server.py` `XmppSession`, `xmpp_server` | per session: `resource`, `bound`, `mac`, `_alive`, timers; shared: `BUNNIES`, `LAST_SEEN` | accept, the handshake's stanzas, register, displace, time out, close, clean up | the rabbit (TCP 5222), the API |
| Microphone arbitration, `server.py` | `WAKE` (on, streaming, rearm, hold, capturing, cooldown), `_STATE_LOADED`, `_sound_at` | free the speaker, send a sound, hold, re-arm, the timers of a connection, the wake loop | sessions, the API, the rabbit's codec |
| Stream parser, `_feed`, `_handle_stanza` | the unread bytes | split stanzas, answer them | sessions |
| Packets and choreographies | `_CHOR_CACHE` | frame, pack, obfuscate, build | every push |
| Resource store | `RESOURCES` in order, `RES_BYTES`, three bounds | store, evict, serve | `/res/`, every sound |
| State file | `state.json` | load at start, save at every toggle | microphone |
| Boot server | the staged firmware | `bc.jsp`, `locate.jsp`, `record.jsp`, OTA upload and download | the rabbit (HTTP 80) |
| API | none | pushes, microphone, status | sessions, store |
| Speech, conversation | none | HTTP calls | wake loop |
| Personality loop | a timer | random movements and sounds | sessions |
| Rabbit's bytecode additions | `g_stream_on`, mDNS and OTA states | `micstream`, `mdns`, `mdnsresolve`, `fwota` | the server |
| Rabbit's codec, `stubs/audio.c` and the HAL it stands for | `play_state`, `rec_state` | start and stop of both | bytecode |
| Emulator | access point, gateway, USB, flash, scheduler | 802.11, WPA2/3, DHCP, NAT | firmware |
| Firmware modifications | the patched sources | `apply-mods.py` (37 steps in twelve lists), the bytecode's five patch scripts, `preflight.py` | build |
| Signing | the seed, the header with the public key | `gen_key.py`, `sign_sim.py`, `verify_sim.py` | build, update |
| Crypto, compiler, JTAG tools | none that outlives a call | SAE, P-256, Metal | build |

What is hard in it:

* **Threads.** Each session has a thread; API requests, timers, the wake loop
  and spoken phrases have theirs. Only `BUNNIES` and the socket have a lock;
  `WAKE` has none.
* **Time.** A rabbit that loses its Wi-Fi sends nothing; its server side socket
  lives on until a timeout. Timers armed by one session fire in the next one's
  time. The agent's reply takes seconds.
* **Silence.** The firmware refuses a sound while it records and a recording
  while it plays, and reports neither. The server has to believe.
* **Order.** The bind that says "a sound has begun" arrives after the server
  may already have pushed something else.
* **Cuts.** TCP cuts the stream anywhere; the add-on may stop in the middle of
  its one file; the power may fail between two sectors of the flash; a build may
  be stopped between two files, and run again.
* **Combinations.** Thirty-odd patches whose anchors are texts of one another,
  some of them harmless alone and a brick together.

What makes each part correct: the registry names only live sessions and the
newest of a rabbit; the parser hands over every stanza once, and the handshake
ends with a rabbit that obeys; every sound gets the codec; what the server
believes of the microphone is so; the microphone is where the user put it, and
comes back; the store never exceeds its bounds and keeps what a rabbit is about
to fetch; a phrase is spoken whole, failures have their fallback and leave no
files; the state file agrees with memory; a rabbit runs a whole firmware it
trusted; a run of the patches that was stopped can be run again, patching twice is
patching once, and no list of patches makes a brick.
`PROJECT.json` lists the hazards one by one, each at its line, with the
properties that cover it or the reason none does.

## 2. Modules

In the order of the plan, the most shared state first.

| Module | Part of the system | Checked by | Proved in |
|---|---|---|---|
| `Presence` | abstract: what the registry promises | | |
| `SessionRegistry`, `SessionRegistryProps`, `MCSessionRegistry` | sessions and `BUNNIES` | `Registry` | `SessionRegistryProofs` |
| `SpeakerMic`, `SpeakerMicProps`, `MCSpeakerMic` | microphone and loudspeaker, with the rabbit's `micstream.mtl` and codec | `Speaker`, `VoiceLosesMic` | `SpeakerMicProofs`, `SpeakerPatientProofs` |
| `XmppStream`, `XmppStreamProps` | `_feed`, `_handle_stanza`, and the rabbit's side of the handshake | `StreamHandshake` | `XmppStreamProofs` |
| `ResourceStore` | `store_resource`, eviction, `/res/` | within `Sounds` | `VoicePipelineProofs` |
| `VoicePipeline` (extends `ResourceStore`) | `record.jsp`, `handle_voice`, speech, agent, synthesis, an API client, the rabbit's downloads | `Sounds` | `VoicePipelineProofs` |
| `StateFile` | `state.json` and who decides on listening | `StateFile`, `OptionTurnedOff` | `StateFileProofs` |
| `Firmware` | abstract: what updates promise | | |
| `Update` | keys, signing, `/api/ota`, `/ota/`, `fwota.mtl`, the flash writer | `Update`, `MultipartUpload`, `FlashFailsHalfway` | `UpdateProofs` |
| `Patcher`, `MCPatcher` | `apply-mods.py` and the bytecode's patch scripts | `Patcher`, `SpacedSteps` | `PatcherProofs` |

Composition: `VoicePipeline` runs its threads on `ResourceStore`'s; `SpeakerMic`
composes the server's threads, timers and sessions with the rabbit's bytecode and
codec; `XmppStream` the parser with the rabbit's handshake; `Update` the tools,
the server and the rabbit. Refinements: `SessionRegistry` implements `Presence`,
`Update` implements `Firmware`.

Deadlock is checked in no run: the bounds end every behaviour, and a server
nobody speaks to, a finished build or a dead rabbit stop by right.

## 3. The registry: `Presence`, `SessionRegistry`

`Presence` is the abstract specification: a rabbit is online through at most one
session, is taken over only by a later one, and is listed in `last_seen` from
the moment it goes offline until it is back.

`SessionRegistry` is the code. A session is its number (`_SID`). `pc[s]` is
where its thread is:

| `pc` | In `server.py` |
|---|---|
| `recv` | in the loop of `run`, before the next `recv` or stanza |
| `bind` | in `_handle_stanza`, before `_register` |
| `evict`, `stale` | in `_register`, after `BUNNIES_LOCK`, before `prev.close()` or its own |
| `final` | out of the loop, before the `finally` clause |
| `done` | `run` has returned |

`bunnies`, `lastSeen` are `BUNNIES` and `LAST_SEEN`; `alive`, `bound`, `mac` the
attributes; `connected` says that `_register` went through. Each step under
`BUNNIES_LOCK` is one action, and what follows the unlock is another, so that
everything other threads can do in between is explored. `inbox` holds what the
rabbit said and the thread has not read; it may still be read after the rabbit
has gone, which is how a late bind comes about. `RabbitSays`, `RabbitLeaves`
stand for the rabbit's bytecode, which is not in the repository; a rabbit closes
its socket or vanishes, and dials again only then. `SendFails`, `SoundAckDrop`
are the other threads that clear `_alive`.

Properties (`SessionRegistryProps`):

* `NoGhost`, `NewestWins`, `LastSeenAgrees`: state invariants, see the module.
* `ImplementsPresence`: the refinement of `Presence`.
* `DisplacedEnds`, `LostRabbitGoesOffline`, `BindIsServed`: liveness under
  `WF(ThreadStep(s))`, an operating-system thread per session that is
  always scheduled. Nothing is assumed of the rabbit, nor of the other threads.
  `LostRabbitGoesOffline` is stated for bound sessions only, because the code
  exempts the others from the timeout.

Run `Registry`: 2 rabbits, 2 connections in all, 1 unread stanza each, so that
one session is displaced while the other binds, or each rabbit has its own. It
checks the invariants, the refinement and the liveness. That longer chains of
displaced sessions are safe too is left to the proofs, which have no bound.

### Proofs: `SessionRegistryProofs`

The safety properties are theorems for any set of rabbits, any number of
connections and of unread stanzas: `TypeCorrect`, `NoGhostHolds`,
`NewestWinsHolds`, `LastSeenHolds`, `PresenceImplemented`, from
`SessionRegistryAssumption` alone.

`NewestWins` is not inductive: whether a session may be shadowed depends on how
it was displaced. `IInv` adds that numbers not yet handed out are untouched
(`Allocated`), that a session that talks knows its rabbit (`KnowsItsRabbit`),
that one about to close another remembers an earlier session of the same rabbit
(`RemembersPrev`), that whoever is registered has been through `_register`
(`RegisteredHasEntered`), and that a session that has been through it, and is
alive and not ending, is registered or about to be closed
(`EnteredIsRegistered`). One lemma per action proves that the action preserves
each conjunct; `NextPreserves` puts them together; the theorems follow with PTL.
The refinement is proved step by step: `Register` is `Online`, `Cleanup` is
`Offline` or a stutter, every other action leaves the registry alone.

The liveness properties are checked by TLC only.

## 4. Microphone and loudspeaker: `SpeakerMic`

One rabbit, its connections in turn, and the threads of the server. A thread is
the sequence of steps it has still to take (`ctl`); an operation such as `Speak`
or `Answer` is written as its sequence, in the order the code takes it, and a
step may prepend others (`_free_the_speaker` puts an `RT` before a sound if the
microphone streams). `ref` is the session a thread works for, which need not be
the current one.

| TLA+ | Code |
|---|---|
| `WAKE` | `WAKE`; `cooling` stands for `time.time() < WAKE["cooldown"]` |
| `hasListen` | `_STATE_LOADED["has_listen"]` |
| `session[s]` | `resource`, `bound`, `_session_inited`, `_sound_at` |
| threads `session`, `api`, `voice`, `wake` | the session's thread, an API request, `_speak` in its thread, `wake_loop` |
| threads `clear`, `jingle`, `listen` | the `threading.Timer`s of the first session on `idle`: 1.5, 3.5 and 4.0 s |
| `RS`, `RT`, `ST` in `toRabbit` | the pushed programs: record, stop recording, stream a sound |
| `idle`, `streaming`, `session` in `toServer` | binds and session stanzas |
| `rabbit` | `micstream.mtl` (`streamOn`, `arp`), the codec of `audio.c` (`rec`, `play`) |
| `deaf` | the rabbit seen binding `idle` and applying nothing for 32 minutes |

Simplifications: what is in flight at a drop is lost; the sounds of the
personality loop and `/api/play` are both `play`; a phrase has one or two
segments; the connect jingle always renders; one API thread at a time; the
emulator's `audio.c` stands for the HAL; what the user last asked for (`wanted`)
is a history variable.

**Time** is not counted. `SecondsPass` guards what takes seconds (a timer, a
sleep, the end of a sound, the cooldown): every runnable thread has run by
then, and on a prompt network everything sent has arrived. Without that
anything may be delayed beyond any timer. `Connect` happens after the previous
connection's timers: a rabbit takes at least five seconds to come back
(CHANGELOG 0.15.7), the longest timer is four. Patient requests come one at a
time, when the last one's effects are over (`Settled`); this is the use the
documentation has in mind; the last list of this section says what happens outside it.
Without `preempt`, threads switch where they send or sleep, the places where the
interpreter releases its lock for long; with it, at every step.

Properties (`SpeakerMicProps`): `SoundGetsSpeaker`, `BeliefIsTrue`,
`MicFollowsUser`, `HoldIsCounted` are invariants; `MicComesBack`
and `DeafRabbitIsDropped` are liveness under fairness of each thread, of the
timers of each kind, of the network (it delivers what it does not drop) and of the
rabbit, which acts on what it gets and dials again. No request, wake word, drop or deaf
spell is assumed to happen.

A run starts from any of a set of scenarios (`MCSpeakerMic`): a scenario fixes
the add-on's settings, the timing assumed, and how many requests, wake words,
connections and deaf spells may come; those bounds count down.

Run `Speaker` takes seven scenarios, each as large as its question needs, so that
the liveness properties are checked on all of them:

* `WithJingle`: three patient requests give off–on–sound and sound–off–on, over
  two connections, with a deaf spell;
* `Reconnecting`: one sound over three connections, so that the link may drop
  during the recovery from a drop, with a deaf spell;
* `SlowNetwork`: no jingle, a network that delays without bound, two requests,
  two connections, a deaf spell whose last answer may still be on its way;
* `FreshInstall`: `AUTO_LISTEN` with nothing saved, and the user's choice later,
  before or after a reconnection;
* `TwoWakeWords`: two are answered among three requests;
* `Overlap`: a phrase, the jingle and a wake word on top of each other, three
  takers of the hold: the hold is exact;
* `OverlapPreempted`: threads that switch anywhere, the microphone being off: an
  update of the hold may be lost, but it never goes below zero.

`VoiceLosesMic` shows a finding: leaving the hold settles the debt at once, so
the `RS` follows the last `ST` of a phrase down the socket, and the sound or the
recording is refused by a codec that is busy.

What a patient user does not meet, and the promises exclude by their premises:
a wake loop that re-arms between an `ST` and the `streaming` bind that answers it;
`/api/mic?on=0` within four seconds of a connection, undone by the `listen`
timer; two threads that update the hold at once and lose an update, as it has no
lock (`HoldIsCounted` excepts `preempt`, and only the type is left of it there);
off and on within an ARP round trip; a phrase whose rabbit reconnects while
the agent thinks. Of the wake loop's stale session the same is true: both wake
scenarios have one connection, and with two TLC finds `BeliefIsTrue` violated. The
loop, speaking to the session it heard the word on, sends its `RT` to the dead socket
and marks the microphone stopped, which the next connection had started again; the
rabbit then records unknown to the server until the debt is settled.

Two more came up in the proofs below. With threads that switch anywhere, the wake
loop may look between the two assignments of `_free_the_speaker`
(`server.py:1187`), when the microphone is marked stopped and the debt is not yet
noted: it starts the microphone, and the sound is refused. No run has it, as the
patient scenarios do not preempt. And a server with the
connect jingle, `AUTO_LISTEN` and nothing on record never starts to listen by
itself: with a jingle the only start at a connection is `_rearm_mic_if_owed`, and
that asks for `WAKE["on"]` (`server.py:1220`), which `AUTO_LISTEN` does not set;
the comment at `server.py:1511` says that `AUTO_LISTEN` decides on a fresh install.

### Proofs: `SpeakerMicProofs`

`HoldInvariant`, `SpeakerTypes` and `HoldCounted`, for any number of sessions and
any scenarios, from `SpeakerMicAssumption` alone: without `preempt`, `WAKE["hold"]`
is exactly the number of operations that hold the microphone, whatever
phrases, wake words, jingles, drops and timers overlap.

The count says nothing of what a thread has still to do, so `HoldInv` adds:

* `Types`: what the variables and every remainder of a thread are made of;
* `Good`: what is left of a thread takes the hold and gives it back at most once
  each, in that order, and reads the count right before it writes it;
* `Reading`: a thread that is about to write the count is the one whose turn it
  is, and its copy is the count. This is where `preempt` is excluded;
* `Paired`: a thread that has taken the hold will give it back itself, except a
  session's thread whose jingle does, for which the `jingle` timer is armed and
  `SecondsPass` makes it wait until the hold is counted;
* `Armed` and `Connected`: the timers are armed once in a session, by a
  session that is there.

`Partners` concludes that whoever gives the hold back has been counted, so the
`max(0, ...)` of `_exit_hold` never hides a hold lost. One lemma per step of a
thread, grouped by what the step changes, proves that `HoldInv` is kept.

### Proofs: `SpeakerPatientProofs`

The three promises to a patient user, for any settings, any number of requests,
connections and deaf spells, and any interleaving of the threads:

| Theorem | Of | Under |
|---|---|---|
| `BeliefHolds` | `BeliefIsTrue` | `Wordless` |
| `MicObeys` | `MicFollowsUser` | `Wordless`, `Settable` |
| `SoundHasSpeaker` | `SoundGetsSpeaker` | `Wordless`, `Undisturbed` |

The hypotheses say which scenarios are meant, as a run says it by its set of them.

* `Wordless`: no wake words and no phrases. `VoiceLosesMic` shows that the promises
  do not survive a phrase; wake words without phrases are left to `TwoWakeWords`.
* `Settable`: not both a jingle and `AUTO_LISTEN` with nothing on record, where the
  promise is not kept (see above).
* `Undisturbed`: threads switch where they send or sleep, and a server that greets
  with the jingle has a prompt network. Without the first half the wake loop gets in
  between the assignments at `server.py:1187`; without the second an `RS` sent before
  the connection's first session is still waiting for its ARP reply when the jingle
  goes out. TLC finds both.

The promises speak of a server where all is over, and hold because of what was on
its way there. `PatientInv` follows it:

* `Rests`: what each thread may still have to take, which is a table of the
  remainders of its operations, and that it works for the latest connection;
* `Setting`: no wake word is pending, and connections still to come are as new;
* `Before`: until the first session of a connection nothing happens but the two
  stanzas the rabbit opens with, and the debt of the last connection;
* `Held`: the hold is the jingle's, from the session that counts it to the end;
* `Paced`: nobody asks for anything before the timers are over, and one sound is under
  way at a time;
* `Sounds`: the five states of a sound, as seen by the binds on their way;
* `Stopped`: a microphone that is off is not started, and is stopped if it records;
* `Owing`: whoever takes the microphone for a sound owes it back, and a debt has a sound
  or a thread that will settle it;
* `Believed`: a microphone believed to stream does, or the reason is named: it is about to be
  started, or stopped, or a sound is not over.

`SettledBelief` then finds that where all is over no reason is left. `Wanted` adds
what the user last asked for, which differs from `WAKE["on"]` only while a request is
under way or before the first start of a fresh install. `Silence` adds what a sound needs:
whoever sends it keeps the turn from the look at the microphone on (`HasTurn`), finds
it stopped or about to be (`ApiSounds`, `GreetSounds`), and nothing starts it while
the sound is on its way or plays (`OnTheWay`, `Playing`).

One table per thread (`SessionMove`, ..., `GreetMove`) says where a step leads, and one
lemma per thread, and per action of the rabbit, of the network and of the user, shows that
all of it is kept. Liveness is TLC's.

## 5. Stream and handshake: `XmppStream`

A stanza is a sequence of lexemes, the wire a sequence that TCP may cut
anywhere. `Recv` is `recv` and the append to `buf`, `Skips`, `Waits`,
`StreamOpens`, `StreamCloses` and `Handle` the turns of `_feed`'s loop by what
they take off the front; `Branch` names the branch of `_handle_stanza` and
`Answers` what it writes. The rabbit's script (`Script`) is how it goes through
stream, authentication, or registration and authentication, binding `boot`,
session, releasing `boot`, binding `idle` and presence; it sends its next stanza
only when the answers it waits for have come. It stands for Violet's bytecode,
known from the branches the code has for it. `Aside` interleaves keepalives, pings, buttons
and ears, or closes the stream, after which the rabbit has `left`. `said` and `handled`
are histories of stanzas and stream headers; a keepalive or the closing tag is
neither.

Run `StreamHandshake`: with and without credentials, two asides. Every stanza is
handed over once, whole and in order; each answer is the one awaited; the server
pushes to the resource the rabbit bound last; and, under fairness of the
session's thread, of the network and of the rabbit, the rabbit gets to `free`,
where it obeys. Two asides are enough for one inside a stanza's cut and one
between a query and its answer.

`CutsAnywhere` is FALSE in the run: a segment that ends right after a `<` makes
`_feed` drop that `<`, as no name follows it yet (`server.py:1716`), and the
stanza is lost; with it TRUE `StanzasExtracted`, `AnswersInOrder`, `ResourceAgrees` and
`RabbitGetsFree` fail, which no run of the project shows. That cut stands for those
before the `<?xml` of a declaration or a `</stream:stream` is whole, where the same
line drops what is there. The rabbit writes a stanza in one go, which is why this is rare.

### Proofs: `XmppStreamProofs`

`TypeCorrect` is for rabbits with credentials or without, any number of asides, and
segments that end anywhere; its invariant is `WellTyped`. `StreamExtracted`, `HandshakeInOrder` and
`ResourceFollows` are for segments that end anywhere but right after a `<`. That condition,
`~CutsAnywhere`, is the only one, and is needed: with `CutsAnywhere = TRUE` TLC finds each of
the three violated, as a stanza is then lost and so is its answer.

The invariant `IInv` has three parts.

* `StreamInv`, of the parser: there is a text `str`, the whole of what the rabbit wrote, in
  which the text of each thing said lies at a place of its own with only blanks between
  (`Laid`). The parser has taken `p` lexemes of it, which end between two
  things or inside a stream's header, just after the XML declaration (`Placed`); the buffer
  and then the wire are what follows (`Reads`); and when `_feed` has given up, what it waits
  for has not come whole (`Fed`). It is needed because `StanzasExtracted` alone says
  nothing of what is in the buffer. `Parsed` concludes that the next turn of the loop takes
  the next stanza or header, or waits by right. `ScanFull` and `ScanPart` prove it for a
  stanza that is there whole and for one that is cut, of either shape.
* `HandshakeInv`, of the dialogue: the rabbit waits for the answers under way and then for
  one per query the server has not handled (`InStep`); a query of its script is the next
  thing handled, with nothing else under way, so that no answer is taken for
  another's, and the pings that may overlap are all answered alike (`ScriptFirst`);
  the session is authenticated when the rabbit restarts the stream (`Authentic`), which
  decides on the features it is offered; and the resource agrees but for a bind
  that is about to be handled (`BindsAgree`).
* `Typed`, with one answer awaited more than there were asides, at most.

`RabbitGetsFree` is liveness, and stays with TLC.

## 6. Sounds: `ResourceStore`, `VoicePipeline`

In `ResourceStore` a thread stamps its entry before it has the lock (`Stamp`),
enters it (`Insert`), evicts one entry per turn of the loop (`Evict`) and
releases (`Release`). `stored` is a history of all entries with the bytes before
each, which is what "nothing is dropped early" refers to.

In `VoicePipeline` a thread is the list of steps it has still to take; a `finally`
clause leaves its cleaning step in the list, and an exception that leaves the
function takes everything else out of it (`Return`, `Espeak`). A step
that calls whisper, the agent, Home Assistant, espeak, ffmpeg or the disk may
fail, and `why` remembers what failed. Audio is its format, as what the decoder
can play depends on it.

Run `Sounds`: a recording with a phrase of up to two segments, either engine, one
failure anywhere, one request of an API client, one tick of the clock; a store of
two entries and four bytes, in which every bound is reached and an entry too
large evicts all others and itself. Eight invariants: the store's three, no
temporary file left behind, silence only with a reason, a phrase whole or not at
all, only playable audio, and no token given out before it is stored.

What the invariants except, because the code does it: a full disk leaves the file
that could not be written, as the write stands before the `try`
(`server.py:909`); espeak is the last fallback, so its failure is silence.

### Proofs: `VoicePipelineProofs`

The store first. For any threads, sizes and bounds: `StoreWithinBounds`, `StoreNeverDropsEarly`,
`StoreKeepsTheNewest`. None is inductive alone. `Inv` adds that the store is a
suffix of the history, that the history is chained by its bytes, that the account
is the difference of two of its sums, and that the thread in the critical section
read the clock in the past; the last is why an eviction by an old time is never
early.

`PipelineUsesTheStore` shows that whatever the voices and the client do,
`VoicePipeline` uses the store as `ResourceStore` says, so `PipelineStoreBounds` and its
siblings follow. The other invariants of the run are theorems for any voices,
engines, number of segments and of failures: `PipelineTempsCleaned`,
`PipelineSilenceHasAReason`, `PipelinePhraseWhole`, `PipelineSpeechIsPlayable`,
`PipelineMissedWasDropped`.

Each of them is about the end of a recording, and is made inductive by the steps
that are left to it (`Recording`). `Ordered`: what decides comes last, and nothing but
synthesis and the playing follows a synthesis. `Owed`: for every temporary file a cleaning
step is left, unless the disk failed. `Audible`: what was heard
has a step left that will make it sound, or is ready or spoken, or there is a
reason. `Whole`:
either nothing is being said, or the segments said, in preparation and
to come add up to the phrase. `Decodable`: what is ready or spoken can be decoded, and so can
what a step delivers, or a conversion is left before it. `Kept`: the last step is `play`, as long
as segments wait for it. A step is taken off and others may be put in
front of the rest (`Then`), so one lemma per part says what the part needs of the
steps put in front, and one lemma per action shows that the action gives it.
`Named` is what `MissedWasDropped` needs: every token in a program, or in a step that
will push one, is in the history of the store.

## 7. `StateFile`

`Open`, `Dump` and `Close` are `_save_state`'s three moments: the file is
truncated, the text is made from memory, the buffer is flushed over the start of
the file. Any number of threads may be in it. A file that ends with the rest of a
longer text cannot be parsed; `Size` tells which text is longer. `DiskRefuses` is
the `OSError`, after which the flag counts as recorded all the same. `Restart` is
a stop at any point and `_load_state`, with a new value of the option.

`crossed`, `spoiled` and `said` are histories: a save that had another one
beside it, whether the last save was one or failed, and the user's last word:
`nothing` of a user who never gave one, `unsaved` when the program stopped before
the word was safely in the file.

Run `StateFile`: two clients and the session's thread, three calls, two stops,
one refusal, levels that give volumes of different lengths. `FileIsCurrent`: when
nothing is being saved and the last save ran alone and succeeded, a restart finds
what memory holds. `UserDecides`: what the user said at run time wins over the
option. Three calls give a save that crosses another and a third after both.

`OptionTurnedOff` shows a finding, about a user who never said a word (`OptionOffIsOff`
asks for `said = "nothing"`): `_start_listen` records `listen` also when
`AUTO_LISTEN` called it, so after the option is turned off the record still says
to listen, against `translations/en.yaml:34` and `DOCS.md:232`. Setting the
volume records the flag too: a rabbit whose volume was set before `auto_listen`
was turned on has `listen: false` on record, and the option is ignored.

### Proofs: `StateFileProofs`

`StateFileTypes`, `FileIsCurrentHolds` and `UserDecidesHolds`, for any clients,
levels, restarts and refusals. `Inv` adds that two saves that overlap are both
crossed, that one that is not crossed writes to an empty file, and that its text is
what memory holds unless another thread has its own save to do: whoever sets
memory is in `open` from then on.

## 8. Updates: `Firmware`, `Update`

`Firmware` promises that a rabbit goes from one whole firmware to another one
that the first trusts, and is left with none only after a write of its flash
failed or was cut.

`Update` is the way of a `.sim` from the key to the flash. A file being staged,
or downloaded, is two halves, so that uploads can be torn by each other and by the
download. `Accepts` is what `fwota.mtl` looks for: both markers of the signature,
made with the key compiled into the running firmware. `Trigger` sends the command
whatever the rabbit is doing. `Erase` and `Program` are
per sector, as `apply-mods.py` rewrites them, each able to fail and to lose its
power, and to leave the sector broken when it fails; `Reset` is the watchdog. A rabbit that has no whole firmware is `dead`.
Mixed sectors count as none. What becomes of a rabbit whose flash returned after
sectors were overwritten is left open: the code it returns to may be gone.

Run `Update`: two uploads from a path, one rotation of the key, two
builds, two tries, one trouble, two sectors. Two sectors have a first, a last and
a middle between them. `ImplementsFirmware`, `RebootMeansFlashed`, and
`UpdateArrives`: under fairness of the server's threads and of the rabbit, what
was staged from a path and triggered, alone, on a rabbit that trusts it, is what
ends up running. Multipart uploads are in a run of their own, and the theorems take
any set of `Ways`.

Findings: `MultipartUpload` (the closing dash of the signature is trimmed off
an upload, and the rabbit drops it without a word) and `FlashFailsHalfway` (a
flash refused at its second sector says the firmware is unchanged, though the first
holds the new one: `RefusalKeepsFirmware` asks only for the sectors other than the one
that failed).

### Proofs: `UpdateProofs`

`FirmwareImplemented` is the refinement and `RebootIsFlashed` the action property,
for any number of keys, builds, uploads, sectors and troubles; `UpdateTypes` the
types. `Inv` adds what the sectors hold: those before the one being written, the
new firmware; all, something trusted, the running firmware or nothing that runs;
and, as long as nothing was hurt, the running firmware from the sector being
written on. Each reset or power cut then finds a whole trusted firmware, or the
hurt that explains its absence. `UpdateArrives` is liveness, and model-checked.

## 9. Patches: `Patcher`

A step of `apply-mods.py` is a sequence of edits, one per file. An edit has the
text it puts in, what happens when the text is there already (`found`: the step
returns, skips the file, rewrites it, or fails), the texts its
anchors are in (`needs`) and those that spoil them (`lacks`). The anchors of a
file are all-or-nothing, as the script writes a file once, and the sources as
they are cloned are left out: only what patches put in is in `tree`. `fns`,
`default_steps`, `Refuses` are the script's tables and checks. The bytecode's
five scripts, run one after the other, are one more list. A blank name in a list is
skipped (`Blank`), and `--steps ""` is the mode's own list. `tried`, `broken` and `done`
are histories: the lists begun, the steps a run was stopped inside of, and the lists
that went through.

Run `Patcher`: every list of the script, the bytecode's, and those of
`MCPatcher`, which are the emulator's (external to `src/`'s tables, as its build
passes it by `--steps`) and eleven more with something missing, misspelt or out of
order; two runs on one tree, the first or second stopped between any two edits. Two
runs are a first and a rerun. The second run takes the lists of `Reruns`: those typed by
hand and three modes that have every step between them, since a step finds the same files
whichever list it is in; the theorems hold for any `Reruns`. The last list can always be run
again.

`ModesApply` says that a mode never fails, neither in a fresh clone nor on what its own
stopped run has left, which is where the looks of its steps at what is there decide:
`rom_pages`, stopped before it has rewritten `boot.mtl`, has to pass by each file it has
done already.
`OKMeansApplied`, `NoKnownBrick` and `RerunIsSafe` are about any lists, in any order.

`OKMeansApplied` excepts six steps (`FirstTextOnly`) that look at their first text
to know whether they are done: stopped after it and run again, they say OK with
the rest missing, although the script calls itself idempotent
(`apply-mods.py:4`). `NoKnownBrick` excepts lists typed with a blank: the finding
`SpacedSteps` is that the checks look for the names as typed and the loop strips
them. Two smaller disagreements seen while modelling have no property:
`lean-nomdns`, "`lean` with the mDNS announcer/resolver removed and NOTHING else
changed", also lacks `flash_verify`; and `minimal` has `gc_sections`, while a
comment says that only `lean` adds it.

### Proofs: `PatcherProofs`

For the script's own tables with any typed lists, any number of runs and any stops:
`OKIsApplied`, `RerunsAreSafe` and `NoBrick`. `PatcherAssumption` asks only
that a typed list is a sequence of names and that none is called `none`. A step has
one of three forms (`StepForms`): each edit looks for its own text (`Plain`), the first
one looks for the whole step (`Guarded`, the six of `FirstTextOnly`), or
`rom_pages`, which probes for both of its bases (`Probed`); and the texts that decide
about a rabbit belong to one step each (`Owned`).

The invariant says how far the run has got (`Taken`, `Begun`); that the
first text of a guarded step stands for all of it unless the step was stopped inside
(`FirstInv`); that the text of `rom_pages` stands for all of its own and excludes
`modernize_pages` (`RomInv`); that lists that went through still would (`DoneInv`); and that,
while every run went through, each text in the tree comes from a step of one of those
lists, or of the list being run (`Sources`, `FirstRun`). `NoBrick` needs the last: a
known brick is then a combination the checks of some list would have refused.

`ModesApply` stays with TLC: that every list of the script applies to the end, and
again after a stop, is a fact about these tables, and the run takes all of them, with a
stop anywhere.

## 10. What is assumed, proved and checked

**Fairness.** Session threads, timers and the server's request threads are
operating-system threads, which are scheduled; the network delivers what it does
not lose; the rabbit goes on with what it has begun. No user, failure, restart or
lost connection is ever assumed to happen.

**Proofs.** The theorems rest on the named assumptions of the modules' constants alone, but
for the three about streams not cut right after a `<` (section 5) and those of
`SpeakerPatientProofs` (section 4), and the modules they
are about have no bound that a theorem uses. Safety, action properties and the two
refinements are proved where section 2 says so, the three promises to a patient user
of `SpeakerMic` in the scenarios their hypotheses name (section 4). TLC's alone are:
liveness; those promises where wake words are heard; and `ModesApply`, which is
about fixed tables (section 9).

**Findings**, quoted in `PROJECT.json`: `VoiceLosesMic`, `OptionTurnedOff`,
`MultipartUpload`, `FlashFailsHalfway`, `SpacedSteps`.

## 11. Not modelled

| Part | Why |
|---|---|
| Violet packets and choreographies | `frame_packet`, `pack_list`, `message_internal`, `build_choreography` are stateless encoders of bytes, which tests compare with captured packets |
| `bc.jsp`, `locate.jsp` | they answer with constants |
| Personality loop | it pushes sounds and choreographies through the operations `SpeakerMic` has for the API |
| Home Assistant events and automations | no state of their own |
| `mdns.mtl`, `mdnsresolve.mtl` | encoder and decoder of one packet |
| Emulator | its access point and gateway are the peers of a test bench; the stations they test are upstream code that is not in the repository. Only the codec's three operations are in `SpeakerMic` |
| What patched firmware and bytecode then do | upstream and Violet's sources are not in the repository; only the flash writer, written out in `apply-mods.py`, is modelled (`Update`) |
| `preflight.py`, `verify_sim.py` | read-only reports on a file |
| Git patches in `firmware-arm/patches` | text applied by git |
| SAE, P-256, AES-CMAC, SHA-256, Ed25519 | arithmetic out of TLC's reach; the driver that runs the exchange is upstream |
| Compiler, assembler, disassembler | batch translators about large data, with round-trip tests |
| JTAG scripts, legacy container, TweetNaCl | run by hand, a recipe, vendored |

Of what is modelled, the hazards without a property are in `PROJECT.json` with
their reason: a rabbit lost before its XMPP session is exempt from the idle timeout
by the code; `_bunny`'s caller is told 200 for a program sent to a dead socket;
`WAKE` is shared by all rabbits and `SpeakerMic` has one; the jingle always
renders in `SpeakerMic`; the wake loop's stale session and the recording that a full
disk cuts short are as sections 4 and 6 say. Other hazards carry a note where a property
excepts what the code does: preemption of the hold, the cut after a `<`, crossed and cut
saves, the steps of `FirstTextOnly`.
