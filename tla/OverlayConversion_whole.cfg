\* Every failure, the daemon killed anywhere, clients at any time.
SPECIFICATION FairSpec
CONSTANTS
    json = json
    creds = creds
    backups = backups
    File = {json, backups}
    Dirs = {backups}
    Identity = json
    MayFail = {"move", "unlink", "mount", "verify", "unmount", "link", "flip", "holder", "probe"}
    MaxFaults = 1
    MaxCrashes = 2

    
PROPERTIES
    NothingLost
    LaunchSeesIdentity
    
