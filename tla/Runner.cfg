\* Three rounds, two retries, either adapter.
SPECIFICATION FairSpec
CONSTANTS
    Configs <- MCConfigs
    Meanings <- MCMeanings
    ReadOnly <- MCReadOnly
    MaxRounds = 3
    MaxRetries = 2
INVARIANTS
    TypeOK
    TranscriptIsWellFormed
    AnswerIsNotDoubled
    CallsAsMeant
PROPERTIES
    ImplementsLoop
    Terminates
