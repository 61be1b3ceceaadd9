SPECIFICATION FairSpec
CONSTANTS
  t1 = t1  t2 = t2  h1 = h1  h2 = h2
  Timer = {t1, t2}
  Thread = {h1, h2}
  Specs <- MCSpecs
  Nano = 2
  Span <- MCSpan
  MaxCount = 2
INVARIANTS TypeOK
PROPERTIES ReturnsWhatIsLeft PollsAreTrue DestroyedIsSilent NoneStarves
