\* One request at a time: every body, configuration and reply.
CONSTANTS
  MinCompress = 3
  MaxRaw = 12
  MaxProvider = 16
  MaxItem = 12
  ReplyTexts <- MCReplyTexts
  CallFailures = {"bypass_saturated", "bypass_circuit_open", "bypass_request_too_large", "fail_timeout", "fail_network"}
  Threads = {t1}
  Requests <- MCWideRequests
  Configs <- MCWideConfigs
  MaxRequests = 1
  MaxGenerations = 1
SPECIFICATION Spec
INVARIANTS
  CompressionInPlace
  WriteBackInverse
  RTKSound
  PromptsOnce
