CONSTANTS
  r1 = r1
  r2 = r2
  r3 = r3
  a = a
  b = b
  NoWorker = NoWorker
  Requests <- MCRequests
  WorkerList <- MCWorkerList
  MaxInflight = 2
  Policy = "least_request"
  MaxDrift = 1
SPECIFICATION ProxyFairSpec
INVARIANTS AdmissionExact LoadAccountedFor
PROPERTIES SlotsReturn
