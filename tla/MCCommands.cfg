SPECIFICATION FairSpec
CONSTANTS
    p1 = p1
    p2 = p2
    alice = alice
    bob = bob
    Players = {p1, p2}
    Accounts = {alice, bob}
    Names = {alice, bob}
    NameOf <- AllNames
    Logins <- AllLogins
    Console = Console
    Lookups = 2
    MaxCommands = 2
    MaxLate = 1
    MaxLost = 1
INVARIANTS
    TypeOK
    PrivilegeFromConsole
    ListsCurrent
    ConsoleStops
PROPERTY StopStops
CHECK_DEADLOCK FALSE
