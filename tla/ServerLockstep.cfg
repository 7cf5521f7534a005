\* clients that wait for each answer, on buffers that wrap and relapse
CONSTANTS
  Clients = {c1, c2}
  NoClient = NoClient
  FDs = {1, 2}
  listenFd_ = 0
  MAX_FD = 5
  MaxReq = 5
  Kinds = {"ask"}
  Pipelining = FALSE
  CanAbort = FALSE
  MaxGot = 5
  FRAME_MAX_LEN = 3
  m_size = 3
  Modulus = 64
  Byte <- AllFrames
  Uninit = Uninit
SPECIFICATION FairSpec
INVARIANTS AnswersExact Isolation
PROPERTIES RequestAnswered Accepted ImplementsRequestService
