SPECIFICATION Spec
CONSTANTS
  Calls = {"send", "sleep", "reset"}
  RxCalls = {"recv"}
  TxCalls = {"send"}
  StartCalls = {}
  Toggle = {}
  BufferFits = {TRUE}
  MaxIsr = 2
  MaxNested = 0
PROPERTY
  CompletionIsTruthful
