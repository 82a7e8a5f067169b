CONSTANTS
    Codes = {"ok", "aborted", "refused"}
    MaxOps = 4
SPECIFICATION FairSpeakSpec
PROPERTIES SpeakEnds
