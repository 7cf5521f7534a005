\* everything at once: bursts, refused chunks, resets, failing handlers, relapses
CONSTANTS
  Clients = {c1, c2}
  NoClient = NoClient
  FDs = {1, 2}
  listenFd_ = 0
  MAX_FD = 5
  MaxReq = 3
  Kinds = {"sys", "junk"}
  Pipelining = TRUE
  CanAbort = TRUE
  MaxGot = 1
  FRAME_MAX_LEN = 4
  m_size = 4
  Modulus = 64
  Byte <- AllFrames
  Uninit = Uninit
SPECIFICATION Spec
SYMMETRY ClientSymmetry
INVARIANTS TypeOK Rearmed BatchFresh WritesDrained ExecutedInOrderOnce AnswersFromHome
CHECK_DEADLOCK FALSE
