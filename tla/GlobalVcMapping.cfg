CONSTANTS
  Senders = {"g", "h", "n"}
  Patient = {"g"}
  OneWay = {"n"}
  Command = {"run", "terminate"}
  Handled <- HandledBy
  MaxCalls = 2
  a1 = a1
  a2 = a2
  writer1 = writer1
  writer2 = writer2
  reader2 = reader2
  None = None
  MaxAttached = 2
  MaxBuffers = 4
  Managers = {"gsm"}
  Apps = {a1, a2}
  Mapping = {writer1, writer2, reader2}
  Pid <- PidOf
  IsReading <- Reads
  Buffers <- BuffersIn
  Impatient = {"gsm"}
SPECIFICATION AttachingSpec
INVARIANT ResourcesExact
INVARIANT RecordsAgree
PROPERTY CloseCompletes
CHECK_DEADLOCK FALSE
