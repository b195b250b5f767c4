CONSTANTS
  LengthLength = 1
  BoxOverhead = 1
  PacketOverhead = 1
  MaximumSegmentLength = 7
  Obfs4Env <- Obfs4Cases
  ReprLen = 1
  AuthLen = 1
  MarkLen = 1
  MacLen = 1
  SeedFrameLen = 2
  MaxHandshakeLength = 8
  NtorEnv <- NtorCases
  Modp = 23
  Gen = 2
  MaxPadding = 2
  MagicLen = 2
  Obfs3Env <- Obfs3Cases
  Obfs2Env <- Obfs2Cases
  SizeLen = 3
  MacLength = 2
  PktHdrLength = 1
  SuitHandshakeLength = 9
  MaxSegmentLength = 12
  SuitPayloadLength = 9
  FirstPad = 5
  SuitEnv <- SuitCases
  TicketLifetime = 2
  TicketsEnv <- TicketsCases
  One = 10
  MaxValues = 3
  DistEnv <- DistCases
  MeekPayloadLength = 2
  MaxRetries = 2
  MaxChanBacklog = 2
  MaxPollInterval = 2
  MeekEnv <- MeekCases
  ConnectEnv <- ConnectCases
  StartupEnv <- StartupCases
SPECIFICATION PartsSpec
INVARIANTS KeysAgree InStep NonceFresh PaddedTo RefusedOnlyIfSkewed TicketsOnce SampledAsWeighted
           RequestExact IdentityKept
PROPERTY EndsUnlessStuck
CHECK_DEADLOCK FALSE
