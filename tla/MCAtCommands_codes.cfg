CONSTANTS
  Numbers <- SomeNumbers
  Names <- SimNames
  MaxLine = 2
SPECIFICATION ModemSpec
INVARIANTS CodesAsDeclared
