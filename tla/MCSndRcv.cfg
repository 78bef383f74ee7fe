SPECIFICATION FairSpec
CONSTANTS
  p1 = p1
  p2 = p2
  a1 = a1
  a2 = a2
  both = both
  Packets <- MCPackets
  Order <- MCOrder
  Link <- MCLink
  Replies <- MCReplies
  Answers <- MCAnswers
  Options <- MCOptions
  Socks = {s1}
  FloodPasses = 1
  MaxReplies = 2
INVARIANTS ResendsOnlyUnanswered ResultsPartition SettledMeansAnswered
PROPERTIES TimeoutReturns AnsweredRoundEnds
