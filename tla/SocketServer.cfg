\* Three slots, as many processes or threads.
CONSTANTS
  CSocketServer_MAX_CHILD = 3
  Child = {101, 102, 103}
  Modes = {TRUE, FALSE}
  Maxima = {2, 3}
  MaxLost = 1
  Nobody = Nobody
  Main = Main
  Grave = Grave
SPECIFICATION FairSpec
PROPERTIES ImplementsPool CommandsObeyed
CHECK_DEADLOCK FALSE
