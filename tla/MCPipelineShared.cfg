\* Requests that run together, share results and outlive their generation.
CONSTANTS
  MinCompress = 3
  MaxRaw = 12
  MaxProvider = 16
  MaxItem = 12
  ReplyTexts <- MCBriefReply
  CallFailures = {"fail_timeout"}
  Threads = {t1, t2}
  Requests <- MCSharedRequests
  Configs <- MCSharedConfigs
  MaxRequests = 2
  MaxGenerations = 2
SPECIFICATION FairSpec
INVARIANTS
  OnlyPinnedStages
  OwnResult
  EveryRequestCounted
PROPERTIES
  EveryRequestReturns
