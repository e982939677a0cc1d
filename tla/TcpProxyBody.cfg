SPECIFICATION FairSpec
CONSTANTS
  Stream <- OneRequest
  MaxChunks = 1
PROPERTIES
  RequestIsForwarded
