CONSTANTS
  d1 = d1
  f1 = f1
  f2 = f2
  f3 = f3
  f4 = f4
  t1 = t1
  i1 = i1
  i2 = i2
  i3 = i3
  Slot <- Numbers
  Directory = {d1}
  File = {f1, f2, f3, f4}
  In <- PackIn
  Bare = {f2}
  Torrent = {t1}
  Container <- PackContainer
  Members <- NamesMembers
  Says <- NamesSay
  Unresolved = {d1}
  Title = {i1, i2}
  Order = {"default", "group"}
  Place <- TwoOrders
  Default = "default"
  MaxLocal = 2
  MaxRelease = 4
  Grace = 2
  MaxChanges = 2
SPECIFICATION Spec
INVARIANTS
  ParkingNeverCollides
