SPECIFICATION MCSpec
CONSTANTS
  AddrReq <- MCAddrReq
  AddrKind <- MCAddrKind
  Slot = {s1, s2}
  Supplied = sup
  NoSlot = noslot
  NoReq = noreq
  MaxAddrCuts = 1
  MaxAddrRequests = 6
  StoreOp <- MCStoreOp
  StoreKind <- MCStoreKind
  Selected <- MCSelected
  Purge = {"purge"}
  NoCred = nocred
  MaxStoreCuts = 1
  EnvOp <- MCEnvOp
  EnvAction <- MCEnvAction
  EnvKey <- MCEnvKey
  StaffKey = {"a", "b"}
  StoreKey = "db"
  NoVal = noval
  StoreVal = storeval
  MaxEnvCuts = 2
INVARIANTS
 
 
 EnvironmentSafe

 
CHECK_DEADLOCK FALSE
