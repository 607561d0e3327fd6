CONSTANTS
  Addresses = {a, b, c, d, e}
  MaxSeen = 3
  MaxReports = 6
SPECIFICATION ScannerSpec
INVARIANT
  OnceIfInTable
CHECK_DEADLOCK FALSE
