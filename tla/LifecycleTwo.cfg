SPECIFICATION Spec
CONSTANTS
    Daemons = {service, manual}
    Supervised = {service}
    Clients = {}
    RulesFiles = {"none"}
    Sessions = {TRUE}
    MaxCrashes = 0
    None = None
PROPERTIES
    ClearsStaleOnly
