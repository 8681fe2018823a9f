SPECIFICATION Spec
CONSTANTS
  Handlers = {h1, h2, h3}
  Columns = {"first_message", "rag", "guardrails", "user_input_audio_format"}
  MaxCalls = 4
  MaxVersions = 4
INVARIANTS
  PublishedKept
  CurrentIsNewest
  SavedIsWhole
PROPERTIES
  SavesSurvive
SYMMETRY Symmetric
CHECK_DEADLOCK FALSE
