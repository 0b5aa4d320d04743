SPECIFICATION FairSpec
CONSTANTS
  Calls = {"send", "tx", "option"}
  RxCalls = {"recv", "send", "tx", "option"}
  TxCalls = {"option"}
  StartCalls = {"send", "tx", "option"}
  Toggle = {"TX_START"}
  BufferFits = {TRUE, FALSE}
  MaxIsr = 2
  MaxNested = 1
PROPERTIES
  CompletionIsTruthful
  FrameReported
  CompletionReported
  ListensAgain
