SPECIFICATION Spec
CONSTANTS
  Calls = {"send", "sleep", "tx", "reset", "option"}
  RxCalls = {"recv", "send", "sleep", "tx", "reset", "option"}
  TxCalls = {"send", "sleep", "tx", "reset", "option"}
  StartCalls = {"send", "sleep", "tx", "reset", "option"}
  Toggle = {"RX_START", "TX_START"}
  BufferFits = {TRUE, FALSE}
  MaxIsr = 2
  MaxNested = 2
INVARIANTS
  TypeOK
  PollingAlive
  RelistenKeepsFrames
PROPERTY
  ReportedFrameIsWhole
