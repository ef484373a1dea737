SPECIFICATION FairSpec
CONSTANTS
    Daemons = {service, manual}
    Supervised = {service}
    Clients = {c1, c2}
    RulesFiles = {"none", "good", "bad"}
    Sessions = {TRUE, FALSE}
    MaxCrashes = 2
    None = None
INVARIANTS
    ServedByTheLiving
PROPERTIES
    StartsOncePlugged
    RestartMends
    ClientsSettle
