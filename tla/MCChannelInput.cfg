CONSTANTS
  MaxCommands = 2
  MaxParams = 3
  BufLen = 12
  Character <- Characters
  Scripts <- HostScripts
  LineLen = 5
  TextLen = 6
  DataLen = 5
SPECIFICATION Spec
INVARIANTS LinesAsTyped PppGetsAll CommandsAsWritten
