SPECIFICATION Spec
CONSTANTS
  Char <- MCChar
  SizeMod = 256
  Methods <- MCMethods
  Statuses <- MCStatuses
  Uris <- MCUris
  Names <- MCNames
  Texts <- MCTexts
  PeerTexts <- MCPeerTexts
  MaxEdits = 2
  MaxSends = 2
INVARIANTS TypeOK ContentLengthTracksBody RoundTrip CutIsPart RestIsBody ThrowsExactly HeadersStayInLine
\* Nobody has to send, and the other end stops at an error.
CHECK_DEADLOCK FALSE
