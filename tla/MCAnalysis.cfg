SPECIFICATION Spec
CONSTANTS
  p1 = p1  p2 = p2  p3 = p3  uid = uid  N = N  M = M
  base = base  base2 = base2  mid = mid  mid2 = mid2  link = link  link2 = link2  leaf = leaf
  Paths = {p1, p2, p3}
  Names = {N, M}
  Uids = {uid}
  Texts = {base, base2, mid, mid2, link, link2, leaf}
  Unit <- MCUnit
  Rank <- MCRank
  Scanned = {p1, p2}
  Autoload <- NoAutoload
  Settings = {s1, s2}
  Versions <- MCVersions
  Projects <- MCProjects
  UidMaps <- MCUidMaps
  Heavy = {leaf}
  MaxOpen = 2
  MaxOps = 2
  MaxLives = 1
  None = None
SYMMETRY Symmetry
CHECK_DEADLOCK FALSE
INVARIANT TypeOK
INVARIANT IndexExact
 
 
 
PROPERTY BodyEditIsLocal
