SPECIFICATION AudioSpec
CONSTANTS
    MaxPackets = 4
    CodecRoom = 2
    FrameLength = 2
    BufferFrames = 3
INVARIANT
    SoundAccounted
PROPERTY
    SocketDrained
