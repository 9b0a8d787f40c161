SPECIFICATION Spec
CONSTANTS
  s1 = s1
  s2 = s2
  s3 = s3
  Sockets <- ThreeSockets
  NoSocket = NoSocket
  Fds <- TwoFds
  MaxFdCount = 2
  OutCap = 1
  ScanLimit = 1
  MaxCalls = 2
SYMMETRY SocketSymmetry
INVARIANT ConnectedMeansEstablished
