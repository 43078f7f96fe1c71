SPECIFICATION FairSpec
CONSTANTS
    Uploads = {u1}
    NoUpload = NoUpload
    START_CHARS = 2
    MIN_CHARS = 1
    MAX_FLOOR_RETRIES = 1
    GROWTH_STREAK = 2
    MAX_PARTS = 5
    MaxDrops = 0
    MaxLines = 1
    Uploaded <- UploadedTexts
    Pasted <- AllTexts
    Scripted <- ScriptedTexts
    Runs = {r1, r2}
    MAX_CHUNK_CHARACTERS = 3
    SEPARATOR = 1
    MAX_CHUNK_ATTEMPTS = 2
    PROVIDER_THREADS = 1
    MaxScenesPerChunk = 2
    MaxRestarts = 1
INVARIANT
    WordsAreKept
CHECK_DEADLOCK FALSE
