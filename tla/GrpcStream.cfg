\* A few messages in either direction, those of the peer compressed or not and
\* cut into chunks in every way.
SPECIFICATION GrpcSpec
CONSTANTS
  Base = 2
  LengthBytes = 3
  MaxLength = 2
  MaxMessages = 3
  MayCompress = TRUE
  MaySlice = FALSE
INVARIANTS
  MessagesAsFramed
  RequestsAreReadBack
CHECK_DEADLOCK FALSE
