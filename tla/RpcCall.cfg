SPECIFICATION FairSpec
CONSTANTS
  Call = {c1, c2} s1 = s1 s2 = s2 m = m None = None
  Service = {s1, s2} Method = {m}
  Offers <- MCOffers ClientTraced = TRUE ServerTraced = TRUE
INVARIANTS NothingLeftRunning OutcomeIsServers SpanOfCall
PROPERTY Answered
CHECK_DEADLOCK FALSE
