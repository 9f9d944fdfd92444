\* Up to three calls on one parser, with two clients.  The array of names grows
\* by two, three lines of a message are looked at.
SPECIFICATION Spec
CONSTANTS
    Clients = {c1, c2}
    Creator = c1
    MaxHeaders = 3
    Octet <- MCOctet
    LowerCase <- MCLowerCase
    Methods <- MCMethods
    Requests <- MCRequests
    Responses <- MCResponses
    Bodies <- MCBodies
    DefaultLists <- MCDefaultLists
    FormType <- MCFormType
    Assigned <- MCAssigned
    KeyChunk = 2
    MaxCalls = 3
INVARIANTS
    Lifetime
    OneVarPerName
    AnyKeyListed
PROPERTIES
    ImplementsTables
