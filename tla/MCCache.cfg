SPECIFICATION CacheSpec
CONSTANTS
  Setters = {s1, s2}
  Values = {v1, v2}
  NoValue = NoValue
  Minimum = 2
  Maximum = 3
  Slack = 1
  PipeCapacity = 2
INVARIANTS VInv Limited Prompt
