SPECIFICATION Spec
CONSTANTS
  Keys = {k1, k2}
  Texts <- MCTexts
  NtfyTopic = "ops"
  NtfyRequests <- OneNtfy
  WhatsappRequests <- OneWhatsapp
  Callbacks <- NoCalls
  M4Key <- NoCallKeys
  Recipient <- Plus
  InboundTopic = "ops"
  NotifyBody = "b"
  StatusPayload = "ready"
  MaxAttempts = 2
  RetryDelay = 1
  NotifyLimit = 1
  Window = 1
  NoKey = NoKey
  WhatsappConfigured = TRUE
  InboundConfigured = TRUE
  Policy <- AllowAll
  MaxTime = 0
  MaxCrashes = 2
  MaxRequeues = 1
  MaxSteps = 1
SYMMETRY KeySymmetry
INVARIANTS OutcomeRecordable NoBlindResend FailedIsDefinite AcceptedIsPublished AckedIsKept IInv
PROPERTIES SettledForever KeepsPromise
