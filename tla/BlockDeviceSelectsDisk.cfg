SPECIFICATION DeviceSpec
CONSTANTS
  d0 = d0
  d1 = d1
  lost = lost
  zero = zero
  one = one
  two = two
  NoDisk = NoDisk
  Disks = {d0, d1}
  Missing = {lost}
  Contents = {zero, one, two}
  Zero = zero
  Addresses = {11, 12, 13}
  BLOCK_SIZE = 4
  MAXMEMSP = 15
  MaxSector = 2
  MaxLength = 1
INVARIANT SelectsDisk
CHECK_DEADLOCK FALSE
