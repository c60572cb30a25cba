SPECIFICATION LiveSpec
CONSTANTS
  Parts = {"service", "start"}
  Processes = {p1, p2}
  Files = {f1, f2, f3, f4}
  Keys = {"k1", "m4x"}
  Texts <- MCTexts
  NtfyTopic = "ops"
  NtfyRequests <- NoCalls
  WhatsappRequests <- OneWhatsapp
  Callbacks <- OneCall
  M4Key <- OneCallKey
  Recipient <- Plus
  InboundTopic = "ops"
  NotifyBody = "b"
  StatusPayload = "ready"
  MaxAttempts = 2
  RetryDelay = 1
  NotifyLimit = 1
  Window = 2
  NoKey = NoKey
  WhatsappConfigured = TRUE
  InboundConfigured = TRUE
  Policy <- AllowAll
  MaxTime = 1
  MaxCrashes = 1
  MaxRequeues = 0
  MaxSteps = 1
PROPERTIES EventuallySettled ServedInTheEnd
CHECK_DEADLOCK FALSE
