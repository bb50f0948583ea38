\* Two descriptors, three host threads; two contexts on one, two and three words.
SPECIFICATION MCSpec
INVARIANTS
  DescriptorsAreSafe
PROPERTIES
  DescriptorsComeBack
  ImplementsLinkedStore
  StoresGoOn
CONSTANTS
  r1 = r1
  r2 = r2
  Slots = {1, 2}
  Hosts = {1, 2, 3}
  Values = {0, 1}
  Contexts = {r1, r2}
  Words = {16, 20, 32}
  Contents = {0, 1}
  ResvMax = 3
  NoContext = NoContext
  ThreadCases = {"thread", "reservation"}
  ResvSetups <- RuntimeForm
CHECK_DEADLOCK FALSE
