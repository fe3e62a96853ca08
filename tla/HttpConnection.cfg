SPECIFICATION Spec
CONSTANTS
  Absent = Absent
  NoFile = NoFile
  HeaderNames = {"Connection", "Content-Type", "Content-Length", "Cookie"}
  FormFields = {"username", "password"}
  Paths = {"/", "/index.html", "/login.html", "/register.html", "/empty.html", "/none.html", "/secret", "/whoami", "/login", "/register"}
  BufSize = 24
  WriteBufSize = 8
  MaxFile = 3
  Streams <- MCStreams
  Files <- MCFiles
  OtherFiles <- MCOtherFiles
  Users <- MCUsers
  Sessions <- MCSessions
INVARIANTS
  AnswersItsRequest
  SegmentsDoNotMatter
  SentAsBuilt
  MappedWhileNeeded
PROPERTIES
  ClosesAsAnnounced
  ImplementsConnection
CHECK_DEADLOCK FALSE
