SPECIFICATION MCSpec
CONSTANTS
 film = film
 series = series
 Titles = {film, series}
 Movies = {film}
 r1 = r1
 r2 = r2
 r3 = r3
 Releases = {r1, r2, r3}
 TitleOf <- MCTitleOf
 x1 = x1
 x2 = x2
 Indexers = {x1, x2}
 IndexerOf <- MCIndexerOf
 hd = hd
 sd = sd
 Qualities = {hd, sd}
 QualityOf <- MCQualityOf
 f1 = f1
 b1 = b1
 Formats = {f1, b1}
 Builtin = {b1}
 Definitions <- MCDefinitions
 p1 = p1
 Profiles = {p1}
 Policies <- MCPolicies
 Scores = {0, 3, 5}
 Overrides <- MCOverrides
 None = None
 Unscored = Unscored
 Clients = {c1}
 Searches = {1, 2}
 Requests = {1, 2}
 MaxChanges = 3
INVARIANTS OnePolicy SubmissionsAccounted AcquiredHasTorrent ScoresTruthful
CHECK_DEADLOCK FALSE
