CONSTANTS
  Budget = 4
  HeapBase = 3
  MmapBase = 4
  Top = 7
  Perms = {"rw"}
  Writable = {"rw"}
  AllPerm = "rw"
  HeapPerm = "rw"
  Zero = z
  z = z
  d1 = d1
  f1 = f1
  Data = {z, d1}
  Files = {f1}
  NoFile = NoFile
  Anonymous = Anonymous
  Addresses = {2, 4}
  Lengths = {0, 1, 2}
  Image <- MCImage
  Content <- MCContent
  MaxRecords = 1

SPECIFICATION Spec

INVARIANT TypeOK
INVARIANT Accounting
INVARIANT MappingsBacked

CHECK_DEADLOCK FALSE

PROPERTY MremapKeepsContents
