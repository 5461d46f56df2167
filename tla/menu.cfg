CONSTANTS
  MaxCount = 1
  Names = {"films", "music"}
  Order <- MCOrder
  Drawn <- MCDrawn
  Downs = {"NotRunning", "Silent"}
  MaxTasks = 2
  RowWidth = 7
  ReasonRows = 3
  NoticeRows = 2
  DegradedRows = 2
  FileCap = 2
  Journals <- MCJournals
  ExtraArgs <- MCExtraArgs
  Submenus <- MCSubmenus
SPECIFICATION MenuSpec
INVARIANTS NoticesAreOpen RowsAreReadable SurfacesAreHonest
PROPERTIES ClicksAskWhatWasDrawn RefusalsStay
CHECK_DEADLOCK FALSE
