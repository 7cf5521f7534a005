\* clients that send ahead, handlers that leave errno alone
CONSTANTS
  Clients = {c1, c2}
  NoClient = NoClient
  FDs = {1, 2}
  listenFd_ = 0
  MAX_FD = 5
  MaxReq = 2
  Kinds = {"ask", "mute", "junk"}
  Pipelining = TRUE
  CanAbort = FALSE
  MaxGot = 1
  FRAME_MAX_LEN = 3
  m_size = 3
  Modulus = 64
  Byte <- AllFrames
  Uninit = Uninit
SPECIFICATION FairSpec
PROPERTIES EverythingRead PeerCloseReaped
