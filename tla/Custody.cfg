SPECIFICATION Spec
CONSTANTS
  h1 = h1  g1 = g1  e1 = e1  k1 = k1
  NoSource = NoSource  NoTime = NoTime
  Hives <- OneHive
  EventLogs <- OneEvent
  Links <- OneLink
  LogsOf <- LogBeside
  WarnedHives <- FirstHive
  WarnedLinks <- NoLink
  MaxChanges = 2
INVARIANTS InputsAnswered AttestedAsRead VerifiedClaimsHold CustodyComplete
