\* a client that waits for each answer; reads cut frames where init can see it
CONSTANTS
  Shapes <- Messages
  MaxSent = 4
  Room = 22
  Cuts = "waited"
  FRAME_MAX_LEN = 32
  FRAME_BEFORE_NUM = 5
  FRAME_CTRL_NUM = 4
  FRAME_SUM_LEN = 3
  m_size = 32
  Modulus = 128
  Byte <- FrameBytes
  Uninit = Uninit
SPECIFICATION FairSpec
INVARIANTS TypeOK FramesKept ExecutedOnce
PROPERTIES FrameExecuted
CHECK_DEADLOCK FALSE
