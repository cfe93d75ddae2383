SPECIFICATION LiveSpec
CONSTANTS
    TRACKED = 2
    EVENTS = 3
    VOICES = 1
    SEGMENTS = 3
    SAMPLES = 6
    OUTBOUND = 2
    Utterances = {1, 2}
    SpeechSounds = {21}
    Sounds = {31, 32}
    Length <- MCLength
    Buffer = 2
    StartFrames = 2
    Scenarios <- MCScenarios
CHECK_DEADLOCK FALSE
 
 
PROPERTY NothingHangs
