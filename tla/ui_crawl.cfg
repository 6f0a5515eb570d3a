SPECIFICATION FairSpec
CONSTANTS
  c1 = c1  p1 = p1  p2 = p2  p3 = p3  n1 = n1  n2 = n2
  xz = xz  bz = bz  nix = nix  gnu = gnu
  None = None  Garbled = Garbled  Unset = Unset
  Crawler = Crawler
  Paths = {p1, p2, p3}
  Nars = {n1}
  Keys = {}
  Compressions = {xz}
  NoCompression = xz
  StoreDirs = {nix, gnu}
  DefaultDir = nix
  DirOf <- OneInGnu
  NewDirs = {nix, gnu}
  Clients = {}
  BatchCap = 2
  Routable = {xz}
  Faulty = TRUE
  MaxPublish = 1
  MaxCrawls = 2
\* Nothing has to be asked of a server.
CHECK_DEADLOCK FALSE
INVARIANT DiscoveryComplete
PROPERTY DiscoveryEnds
