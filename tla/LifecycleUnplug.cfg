SPECIFICATION FairSpec
CONSTANTS
    Daemons = {service}
    Supervised = {service}
    Clients = {}
    RulesFiles = {"none"}
    Sessions = {TRUE}
    MaxCrashes = 0
    None = None
PROPERTIES
    RecoversFromUnplug
