SPECIFICATION FairSpec
CONSTANTS
  Files <- MCFiles
  Others <- MCOthers
  Sources <- MCSources
  Targets = {"telegram-json", "whatsapp-txt", "html", "markdown", "json"}
  NewName <- MCNewName
  MaxClicks = 3
  MaxEdits = 1
INVARIANTS
  ReportIsCurrent
PROPERTIES
  WhatsAppRoundTrip
  TelegramRoundTrip
  ReportIsHonest
  WorkEnds
CHECK_DEADLOCK FALSE
