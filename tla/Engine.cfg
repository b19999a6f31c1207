SPECIFICATION MCSpec
CONSTANTS
    MaxLines = 2
    Slots = 3
    MaxContacts = 4
    MaxCalls = 2
    AudioLines <- SomeAudio
    VideoLines <- SomeVideo
CONSTRAINT CallsAfterShortFiles
INVARIANTS
    LastLineWins
    BookIsExact
    SessionsPaired
    
    VideoOverCamera
PROPERTY
    DialsUnderCursor
CHECK_DEADLOCK FALSE
