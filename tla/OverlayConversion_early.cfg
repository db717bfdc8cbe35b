\* No failures; the daemon killed during a migrate, and a select at once.
SPECIFICATION Spec
CONSTANTS
    json = json
    creds = creds
    backups = backups
    File = {json, creds, backups}
    Dirs = {backups}
    Identity = json
    MayFail = {}
    MaxFaults = 0
    MaxCrashes = 1
PROPERTIES
    RestoredBeforeLaunch
