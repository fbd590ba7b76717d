SPECIFICATION Spec
CHECK_DEADLOCK FALSE
CONSTANTS
  Client = c
  Server = s
  SingleSession = FALSE
  MaxSid = 4
  MaxKeyId = 1
  MaxEvents = 2
  MaxPayloads = 2
  MaxTotal = 3
  Capacity = 4
INVARIANTS
  EndsAgree
  WhatIsSentCanBeRead
  PayloadsInOrder
PROPERTIES
  Connects
