SPECIFICATION ContentSpec
CONSTANTS
  Ids = {x, y}
  Codes = {1, 2}
  n1 = n1
  n2 = n2
  f1 = f1
  f2 = f2
  t1 = t1
  Names = {n1, n2}
  Files = {f1, f2}
  ApkFilename <- MCApkFilename
  Texts = {t1, bad}
  BadText = bad
  Patches <- MCPatches
  Requests = {r1, r2}
  NoFile = NoFile
  NoPage = NoPage
  NoRequest = NoRequest
  MaxRequests = 4
  ArticleIds = {v, w}
  h = h
  prose = prose
  Headings <- MCHeadings
  Others <- MCOthers
  Bodies <- MCBodies
  Payloads <- MCPayloads
  ArticlePatches <- MCArticlePatches
  Slugs = {a, b, c}
  Categories = {g}
  Authors = {u}
  NoImage = NoImage
  MaxEdits = 4
SYMMETRY Symmetry
INVARIANTS
  OnePublished
  ApkIsOwn
  OldLinksLeadHome
  TocFollowsBody
  NotRelatedToItself
  ImageIsOwn
PROPERTIES
  SyncedAtTheEnd
CHECK_DEADLOCK FALSE
