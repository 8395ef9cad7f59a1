CONSTANTS
  s1 = s1
  u1 = u1
  u2 = u2
  Sources = {s1, s2}
  Uris = {u1, u2}
  None = None
  UriChoices <- OwnTopics
  PromptClient = TRUE
  MaxEvents = 5
SPECIFICATION FairSpec
INVARIANTS SettledSourceIsServed
PROPERTIES ErrorIsRecovered
