CONSTANTS
  Streams = {s1}
  QueueSize = 20
  MaxReplan = 1
  Absent = Absent
SPECIFICATION TurnSpec
  
PROPERTIES TurnAnswered 
CHECK_DEADLOCK FALSE
