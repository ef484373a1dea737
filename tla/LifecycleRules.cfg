SPECIFICATION Spec
CONSTANTS
    Daemons = {service}
    Supervised = {service}
    Clients = {}
    RulesFiles = {"good", "bad"}
    Sessions = {TRUE}
    MaxCrashes = 0
    None = None
INVARIANTS
    HotkeyRegardless
