SPECIFICATION TransfersFairSpec
CONSTANTS
  Extra = 2
  Conn = {c1, c2}
  Parts = 2
  MaxUploads = 2
  MaxDownloads = 1
INVARIANTS
  ReturnsQuiet
  UploadIsStored
  DownloadIsWhole
PROPERTIES
  SignalEndsStart
  ListenerGoesOn
  TransfersEnd
