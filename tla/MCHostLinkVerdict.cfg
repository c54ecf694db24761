SPECIFICATION LinkSpec
CONSTANTS
  WordLength = 2
  Nibbles = {0, 1}
  Zero = 0
  Timeout = 2
  RxDepth = 2
  RxWords <- MCRxWords
INVARIANT RejectedIsRejected
