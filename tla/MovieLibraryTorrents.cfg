CONSTANTS
  p1 = p1
  p2 = p2
  p3 = p3
  p4 = p4
  p5 = p5
  t1 = t1
  t2 = t2
  Path = {p1, p2}
  Edition <- TwinEdition
  Unparsed = {}
  FolderOnly = {}
  Torrent = {t1, t2}
  Content <- OwnContent
  Grace = 2
  MaxRelease = 4
  MaxChanges = 5
SPECIFICATION Spec
INVARIANTS
  AbsenceTakesGrace
  StatesFitDirectories
  NoGhosts
  DuplicatesHaveRivals
