SPECIFICATION FairSpec
CONSTANTS
  Posters = {p1, p2, p3}
  Reasons = {"recv_command", "send_payload"}
  None = "none"
  MaxPosts = 4
PROPERTIES ImplementsMailbox
CHECK_DEADLOCK FALSE
