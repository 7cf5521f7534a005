\* one handler whose system call fails
CONSTANTS
  Clients = {c1, c2}
  NoClient = NoClient
  FDs = {1, 2}
  listenFd_ = 0
  MAX_FD = 5
  MaxReq = 1
  Kinds = {"sys"}
  Pipelining = FALSE
  CanAbort = FALSE
  MaxGot = 4
  FRAME_MAX_LEN = 6
  m_size = 6
  Modulus = 64
  Byte <- AllFrames
  Uninit = Uninit
SPECIFICATION FairSpec
PROPERTIES RequestAnswered
CHECK_DEADLOCK FALSE
