CONSTANTS
  s1 = s1
  u1 = u1
  u2 = u2
  Sources = {s1, s2}
  Uris = {u1, u2}
  None = None
  UriChoices <- AllTopics
  PromptClient = FALSE
  MaxEvents = 5
SPECIFICATION Spec
INVARIANTS TypeOK MappedWhileUsed OneOwner IterationIsStable
