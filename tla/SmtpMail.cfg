\* Two mails with up to two attachments, lines of three bytes
\* and blocks of four.
SPECIFICATION Spec
CONSTANTS
  Paths <- MCPaths
  Contents <- MCContents
  LineBytes = 3
  BlockBytes = 4
  MaxFiles = 2
  MaxMails = 2
  MaxChanges = 1
INVARIANTS TypeOK AttachmentsDecode NamesOfThisMail TakenOnce CodecsAgree
PROPERTIES SendMailReturns
CHECK_DEADLOCK FALSE
