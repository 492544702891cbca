SPECIFICATION CredentialsSpec
CONSTANTS
    Namespaces = {1, 2}
    Readers = {1, 2}
    HomeOf <- EachAtHome
    Place <- ListedBackwards
    Home = 1
    Classes = {"client", "database", "cookie", "minted"}
    Gone = Gone
    None = None
    MaxValue = 5
    MaxRuns = 3
    MaxDeaths = 2
    MaxFailures = 3
    Tokens = {t1, t2, t3, t4, t5, t6}
    Nothing = Nothing
    MaxChanges = 2
    MaxTrouble = 1
INVARIANTS
    TypeOK
    RotatedMeansRotated
    BackMeansBack
    ReadersCanStart
    JobTypeOK
    OneTokenOfThisName
    SecretsKeepApart
PROPERTIES
    SettlesOnTheStoredToken
CHECK_DEADLOCK FALSE
