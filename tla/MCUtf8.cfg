SPECIFICATION BufferSpec
CONSTANTS
  MaxLength = 4
  Edges = {0, 127, 128, 143, 144, 159, 160, 191, 192, 193, 194, 223, 224, 225, 237, 238, 239, 240, 241, 244, 245, 255}
INVARIANT DecodesExactly
CHECK_DEADLOCK FALSE
