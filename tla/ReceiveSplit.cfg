\* reads cut the stream anywhere
CONSTANTS
  Shapes <- Messages
  MaxSent = 2
  Room = 22
  Cuts = "any"
  FRAME_MAX_LEN = 32
  FRAME_BEFORE_NUM = 5
  FRAME_CTRL_NUM = 4
  FRAME_SUM_LEN = 3
  m_size = 32
  Modulus = 128
  Byte <- FrameBytes
  Uninit = Uninit
SPECIFICATION Spec
INVARIANTS FramesKept
CHECK_DEADLOCK FALSE
