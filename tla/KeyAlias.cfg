SPECIFICATION Spec
CONSTANTS
  Keys = {"k1"}
  Texts <- MCTexts
  NtfyTopic = "whatsapp"
  NtfyRequests <- AliasNtfy
  WhatsappRequests <- OneWhatsapp
  Callbacks <- NoCalls
  M4Key <- NoCallKeys
  Recipient <- Plus
  InboundTopic = "ops"
  NotifyBody = "b"
  StatusPayload = "ready"
  MaxAttempts = 2
  RetryDelay = 1
  NotifyLimit = 1
  Window = 1
  NoKey = NoKey
  WhatsappConfigured = TRUE
  InboundConfigured = FALSE
  Policy <- AllowAll
  MaxTime = 1
  MaxCrashes = 0
  MaxRequeues = 1
  MaxSteps = 0
INVARIANTS KeyReuseRefused
