\* Two strikes on two devices; two pages, three starts; two cards; three songs
\* asked for.
SPECIFICATION MCSpec
INVARIANTS
  NoGhostStrikes
  EachCardOnce
  PlaysWhatWasAsked
PROPERTIES
  StrikesAreHeard
  BackupSurvives
  NewestPreviewArrives
CONSTANTS
  Drums = {don}
  Coins = {coin}
  Tests = {test}
  Buttons = {enter}
  InputHosts = {"sampler", "events", "kms"}
  HitHold = 2
  MaxStrikes = 2
  Pages = {p1, p2}
  Records = {r1}
  MaxPackets = 2
  Renames = {TRUE, FALSE}
  MaxStarts = 3
  Erased = Erased
  Blank = Blank
  PollGap = 1
  CardHold = 2
  MaxCommands = 2
  MaxLosses = 2
  Handles = {h1, h2}
  Songs = {s1, s2}
  BadSongs = {s2}
  PlayThreads = {t1}
  MaxSets = 3
  None = None
  TitleCases = {"drum", "backup", "card", "preview"}
CHECK_DEADLOCK FALSE
