CONSTANTS
  Budget = 6
  HeapBase = 3
  MmapBase = 4
  Top = 9
  Perms = {"rw"}
  Writable = {"rw"}
  AllPerm = "rw"
  HeapPerm = "rw"
  Zero = z
  z = z
  d1 = d1
  f1 = f1
  Data = {z, d1}
  Files = {}
  NoFile = NoFile
  Anonymous = Anonymous
  Addresses <- MCAddresses
  Lengths = {1, 3}
  Image <- MCImage
  Content <- MCNoContent
  MaxRecords = 2

SPECIFICATION Spec

PROPERTY AnonymousMemoryReadsZero

CHECK_DEADLOCK FALSE
