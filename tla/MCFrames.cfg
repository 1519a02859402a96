SPECIFICATION FramesFairSpec
CONSTANTS
  ROWS = 3
  Pictures <- MCPictures
  MaxLost = 2
INVARIANT ServesWholePictures
PROPERTY ViewRecovers
