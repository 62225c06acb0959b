CONSTANTS
  Clients = {c1, c2}
  Runtimes = {r1, r2}
  Requests = {q1}
  Ops = {"connect", "wait", "pair", "create", "disconnect", "disconnectAll", "logout", "delete", "export", "import", "cloud", "sweep"}
  Watchdog = Watchdog
  Boot = Boot
  NoClient = NoClient
  NoRuntime = NoRuntime
  PurgeAfter = 2
  MaxFaults = 1
  MaxDrops = 1
SPECIFICATION Spec
SYMMETRY Symmetric
CHECK_DEADLOCK FALSE
INVARIANTS LiveStatusIsServed StoreAtRest CoolingIsQuiet LiveIsInstalled LoginIsKept
