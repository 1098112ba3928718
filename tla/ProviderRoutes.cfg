SPECIFICATION RoutesSpec
CONSTANTS
    Count = 3
    Required = {draft}
    Optional = {judge}
    ShippedEnabled = {}
    ShippedRoutes <- MCShippedRoutes
    EnvKeys = {1}
    Fragile = {2}
INVARIANTS SettingsOK RestartKeepsSettings
