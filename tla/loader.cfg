SPECIFICATION Spec
CONSTANTS
  Threads = {"main", "t2"}
  Main = "main"
  Exec = "exec"
  Modules <- MCModules
  Size <- MCSize
  Align <- MCAlign
  Default <- MCDefault
  Number <- MCNumber
  Page = 4
  Half = 12
  TcbSize = 2
  NSubsys = 5
  FirstDyn = 3
  Unregistered = "none"
INVARIANTS ModulesApart AddressReady VersionTellsAll DefaultsFirst ListedIsCallable
PROPERTIES OwnDataKept NumbersKept
CHECK_DEADLOCK FALSE
