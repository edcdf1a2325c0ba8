\* Three requests about one wine's thumbnail, or about one plan and one zone;
\* one listed administrator, somebody else and the break-glass account otherwise.
SPECIFICATION Spec
CONSTANTS
  Requests = {r1, r2, r3}
  Senders = {r1, r2, r3}
  OwnPhotos = {1, 2}
  Candidates = {c1, c2}
  NoPhoto = NoPhoto
  NoImage = NoImage
  Plan = Plan
  Zones = {z1}
  MaxFaults = 1
  Persons = {ann, bob, sos}
  Configured = {ann}
  BreakGlass = sos
  Caves = {1, 2}
  Logins = {l1, l2}
  Adders = {a1}
  Nobody = Nobody
  MaxRequests = 3
  w1 = w1
  w2 = w2
  w3 = w3
  Cuvees = {w1, w2, w3}
  Sheet <- MCSheet
  Shelves = {1}
  NoShelf = 0
  Guards <- MCGuards
  Qualities <- MCQualities
  Months <- MCMonths
  Links = {page1}
  MaxLedger = 3
  NameLikeness <- MCNameLikeness
  AppellationLikeness <- MCAppellationLikeness
  YearsRead <- MCYears
  Entrants = {e1, e2}
  Cellars = {1, 2}
  Drafts <- MCDrafts
  STOP_WORDS = {"domaine", "chateau", "cuvee", "maison", "clos"}
  Plain <- MCPlain
  Nearest <- MCNearest
  Setters = {g1, g2}
  Scopes = {"saumur red"}
  Spans = {1}
  Scenes = {"thumbnail", "plan", "members", "views", "races"}
SYMMETRY Symmetry
INVARIANTS
  ViewsAgree
  ExitNeverGuesses
  ImagesAccountedFor
  ImageMatchesRow
  NobodyLosesARace
  RowsMatchOwners
PROPERTIES
  OwnPhotoRemembered
  NobodyIsLockedOut
CHECK_DEADLOCK FALSE
