CONSTANTS
  Width = 6
  MaxExecuteTime = 160
  Image <- MCImage
SPECIFICATION Spec
INVARIANTS TypeOK ProgramsExact
PROPERTIES EndsAsExpected ImplementsAssembly
CHECK_DEADLOCK FALSE
