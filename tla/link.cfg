SPECIFICATION Spec
CONSTANTS
  Calls = {"send", "option"}
  RxCalls = {"recv", "option"}
  TxCalls = {"option"}
  StartCalls = {"option"}
  Toggle = {"RX_END", "TX_END", "TX_START"}
  BufferFits = {TRUE, FALSE}
  MaxIsr = 2
  MaxNested = 0
PROPERTY
  ImplementsLink
