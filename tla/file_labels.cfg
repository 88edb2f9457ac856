SPECIFICATION FairSpec
CONSTANTS
  medical = medical
  appeal = appeal
  legal = legal
  scenery = scenery
  odd = odd
  Labels <- MCLabels
  Medical = medical
  Appeal = appeal
  Office <- MCOffice
  Scene = scenery
  Odd = odd
  Fast <- MCFast
  Kinds <- AllKinds
  DocumentOffers <- MCDocumentOffers
  ImageOffers <- MCImageOffers
  Extras <- MCExtras
  Answers <- MCAnswers
  Folders <- MCFolders
  MaxEvents = 2
  None = None
PROPERTIES
  Sticks
  AskedFirst
  Honoured
  Settles
CHECK_DEADLOCK FALSE
