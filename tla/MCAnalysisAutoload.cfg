SPECIFICATION Spec
CONSTANTS
  p1 = p1  p2 = p2  p3 = p3  uid = uid  N = N  M = M
  base = base  base2 = base2  mid = mid  mid2 = mid2  link = link  link2 = link2  leaf = leaf
  Paths = {p1, p2, p3}
  Names = {N, M}
  Uids = {uid}
  Texts = {base, base2, mid, mid2, link, link2, leaf}
  Unit <- MCUnit
  Rank <- MCRank
  Scanned = {p1, p2}
  Autoload <- WithAutoload
  Settings = {s1, s2}
  Versions <- AutoloadVersions
  Projects <- AutoloadProjects
  UidMaps <- MCUidMaps
  Heavy = {leaf}
  MaxOpen = 2
  MaxOps = 1
  MaxLives = 0
  None = None
CHECK_DEADLOCK FALSE
INVARIANT HitIsExact
