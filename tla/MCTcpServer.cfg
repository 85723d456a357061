CONSTANTS
  FD_SETCOUNT = 3
  BACKLOG = 1
  ServerFd = 3
  Fds = {4, 5}
  h1 = h1
  h2 = h2
  h3 = h3
  Clients = {h1, h2, h3}
  NoClient = NoClient
  Messages <- MCMessages
  MaxQueue = 1
SPECIFICATION FairSpec
CHECK_DEADLOCK FALSE
INVARIANTS TypeOK TableConsistent MaxFdCovers NoBlockingRecv
PROPERTIES FramesReceived PlacesReclaimed
