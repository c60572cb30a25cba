SPECIFICATION Spec
CONSTANTS
  Parts = {"wire", "sealing", "ledger", "admission", "segments", "json", "webhook"}
  Invalid = Invalid
  Cells <- CellRange
  Owner <- OwnerCells
  Prebootstrap = 1
  Sample <- SampleOf
  EditCells = {0, 1, 2}
  MaxEdits = 1
  Roots = {r1, r2}
  Bodies = {b1, b2}
  Kinds = {1, 32}
  MaxSequence = 2
  MaxImages = 2
  MaxRecords = 3
  Requests <- AllRequests
  Callers <- FewCallers
  KeyIds <- TwoKeys
  MaxCalls = 2
  Words <- SomeWords
  TextBodies <- SomeTexts
  Titles <- SomeTitles
  Limits <- SomeLimits
  Instants = {1, 2}
  IdentifierMax = 2
  TopicMax = 2
  TagMax = 2
  TagsMax = 1
  DefaultText = 3
  DefaultTitle = 2
  Names <- SomeNames
  Spellings <- SomeSpellings
  Utf8 <- Characters
  MaxNames = 2
  FieldNames = {"f", "g"}
  FieldSets <- FieldSetsGiven
  Inside <- JsonSpellings
  StringTexts = {"t"}
  MAX_STRUCTURAL_DEPTH = 2
  MaxTokens = 9
  Keys = {"m4x", "m4y", "m4v", "m4z"}
  Texts <- WebhookTexts
  NtfyTopic = "ops"
  NtfyRequests <- ClientBodies
  WhatsappRequests <- ReadyPayload
  Callbacks <- FourCalls
  M4Key <- FourKeys
  Recipient <- TwoSenders
  InboundTopic = "ops"
  NotifyBody = "b"
  StatusPayload = "ready"
  MaxAttempts = 5
  RetryDelay = 1
  NotifyLimit = 2
  Window = 2
  WhatsappConfigured = TRUE
  InboundConfigured = TRUE
  Policy <- AllowSome
  MaxTime = 3
INVARIANTS WireSafety SealingSafety LedgerSafety AdmissionSafety SegmentSafety JsonSafety WebhookSafety
CHECK_DEADLOCK FALSE
