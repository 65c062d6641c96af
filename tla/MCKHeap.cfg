SPECIFICATION Spec
CONSTANTS
  WordSize <- MCWordSize
  KernelEnd <- MCKernelEnd
  DefaultTotal <- MCDefaultTotal
  TopGuard <- MCTopGuard
  ReportedTotals <- MCReportedTotals
  Requests <- MCRequests
INVARIANTS
  TypeOK
  BlockListSound
  NoMissedFit
  AllFreedIsWhole
  CountIsExact
PROPERTY AllocatorSpec
