SPECIFICATION Spec
CONSTANTS
 Version = 4
 MTU = 1280
 Values = {536, 1460, 8960}
 MaxBefore = 2
INVARIANT
 ChecksumAccountsForMSS
CHECK_DEADLOCK FALSE
