CONSTANTS
  r1 = r1
  r2 = r2
  d1 = d1
  Release = {r1, r2}
  Directory = {d1, d2, d3}
  Torrent = {t1, t2}
  Job = {j1, j2}
  Owner <- OwnerOf
  Link <- LinkOf
  Choice <- DeleteAndRemove
  OneAtATime = FALSE
  MaxChanges = 0
  MaxFaults = 0
SPECIFICATION Spec
CHECK_DEADLOCK FALSE
INVARIANT
  KeepsACopy
