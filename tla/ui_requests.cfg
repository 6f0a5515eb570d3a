SPECIFICATION Spec
CONSTANTS
  c1 = c1  p1 = p1  p2 = p2  p3 = p3  n1 = n1  n2 = n2
  xz = xz  bz = bz  nix = nix  gnu = gnu
  None = None  Garbled = Garbled  Unset = Unset
  Crawler = Crawler
  Paths = {p1}
  Nars = {n1, n2}
  Keys = {}
  Compressions = {xz, bz}
  NoCompression = xz
  StoreDirs = {nix, gnu}
  DefaultDir = nix
  DirOf <- AllInNix
  NewDirs = {nix, gnu}
  Clients = {c1}
  BatchCap = 1
  Routable = {xz, bz}
  Faulty = TRUE
  MaxPublish = 1
  MaxCrawls = 1
\* Nothing has to be asked of a server.
CHECK_DEADLOCK FALSE
SYMMETRY NarSymmetry
INVARIANTS RowsSound RowsKeepTheirDirUnlessTwoAnswers BodyMatchesInfo
