SPECIFICATION FairSpec
CONSTANTS
  MaxFiles = 3
  Names <- ThreeNames
  Ports <- SomePorts
  PortSpan = 3
  Files = {f1, f2}
  Writable = {f1}
  Switches = {registers, memory}
  MaxAdds = 5
  MaxOthers = 2
  Stdout = Stdout
INVARIANTS TypeOK TwoServers
PROPERTIES FilesSelected SearchEnds Starts
CHECK_DEADLOCK FALSE
