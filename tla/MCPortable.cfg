SPECIFICATION Spec
CONSTANTS
  h1 = h1
  h2 = h2
  c1 = c1
  c2 = c2
  c3 = c3
  c4 = c4
  None = None
  Hosts <- MCHosts
  Procs <- MCProcs
  HostOf <- MCHostOf
  Command <- MCCommand
  Items = {1}
CHECK_DEADLOCK FALSE
INVARIANTS
  OneCaller
PROPERTIES
  UploadsKeepProgress
  UploadCarriesWork
  ReplayOnlyOutdated
