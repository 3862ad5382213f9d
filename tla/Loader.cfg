SPECIFICATION Spec
CONSTANTS
  MaxFaults = 1
  Elfs <- MCElfs
  Machos <- MCMachos
  Pecoffs <- MCPecoffs
  Xcoffs <- MCXcoffs
  Files <- MCFiles
  Addresses = {0, 1, 2, 3, 4, 5, 6, 7, 8, 9, 10}
  Base = 1
  Top = 99
  Programs <- MCPrograms
  Offsets = {0, 3}
  Modules <- MCModules
  Working <- MCWorking
  PCs = {1, 2, 3, 4, 5, 6, 8, 12}
  Threads = {"t1", "t2"}
  Format = "elf"
  Depth = 4
  Skips = {0, 1}
INVARIANTS NothingDangles AllReleased RightFile ReportsRight SeenWhole
