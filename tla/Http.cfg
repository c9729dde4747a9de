SPECIFICATION Spec
CONSTANTS
  Requests <- MCRequests
  Responses <- MCResponses
  ToAdd <- MCAdd
  ToRemove <- MCRemove
  Pool = TRUE
  MaxClients = 2
  MaxRequests = 3
CONSTRAINT FewKinds
INVARIANTS  AnsweredIsLogged RequestsRewritten 
CHECK_DEADLOCK FALSE
