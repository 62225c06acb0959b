SPECIFICATION SendsFairSpec
CONSTANTS
  Chats = {a, b, g}
  Groups = {g}
  Requests = {r1}
  Commands = {c1}
  Histories = {{}}
  ChatLimit = 1
  MaxDeliver = 2
  MaxFailures = 1
INVARIANTS AckedIsDone EveryCopyHasAFault 
PROPERTIES EverySendSettles
