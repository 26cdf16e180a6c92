SPECIFICATION Spec
CONSTANTS
  Entries <- MCEntries
  Contents <- MCContents
  MaxEdits = 1
INVARIANTS LoadIsExact GoodFilesSurvive SilentLossOnlyByNamesake
