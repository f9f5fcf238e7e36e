SPECIFICATION Spec
CONSTANTS
  Writers = {voice, client}
  Voices = {voice}
  Client = client
  Engines = {"ha", "espeak"}
  MaxSegments = 2
  MaxBurst = 1
  MaxFaults = 1
  MaxClock = 1
  MaxAge = 0
  MaxItems = 2
  MaxBytes = 4
INVARIANTS WithinBounds KeepsTheNewest NeverDroppedEarly TempsCleaned SilenceHasAReason PhraseWhole SpeechIsPlayable MissedWasDropped
CHECK_DEADLOCK FALSE
