SPECIFICATION MCSpec
CONSTANTS
 t1 = t1
 Torrents = {t1}
 c1 = c1
 c2 = c2
 Clients = {c1, c2}
 ScopeOf <- MCScope
 NoTorrent = none
 MaxChanges = 2
 Exports = {e1}
INVARIANTS ArchivedIsBacked BundleRestores NothingLeftBehind
PROPERTY RestoreKeepsScope
CHECK_DEADLOCK FALSE
PROPERTY ArchiveSettles
PROPERTY ManifestSettles
PROPERTY UnfinishedExportEnds
