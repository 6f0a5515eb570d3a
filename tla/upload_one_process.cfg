SPECIFICATION Spec
CONSTANTS
  u1 = u1  u2 = u2  j1 = j1  j2 = j2  p = p
  n1 = n1  n2 = n2  k1 = k1  k2 = k2  xz = xz  bz = bz
  dir1 = dir1  dir2 = dir2
  None = None  Garbled = Garbled  Unset = Unset
  NoCompression = NoCompression
  Compressions = {xz, bz, NoCompression}
  Owner <- OwnerOne
  Uploaders = {u1, u2}
  Jobs = {j1, j2}
  Paths = {p}
  Nars = {n1, n2}
  Keys = {k1, k2}
  Forced = {}
  Listing = {u1}
  LocalKeys <- AllKeys
  StoreDirs = {dir1, dir2}
  StoreDir <- OtherDirs
  DefaultDir = dir1
  Compression <- MCCompression
  StoreNars <- BuiltAgain
\* Slots may all be idle after their processes failed: nothing is left to do.
CHECK_DEADLOCK FALSE
PROPERTIES OneStoreDirUnlessRaced PublishedFileStableUnlessRaced SignaturesKeptUnlessRaced
