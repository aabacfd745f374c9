SPECIFICATION OtaSpec
CONSTANTS
    Images = {v1, v2, foreign, broken}
    Genuine = {v1, v2, broken}
    Healthy = {v1, v2}
    First = v1
    Partial = Partial
    Urls = {github, lan, lan2}
    Secure = {github}
    GithubUrl = github
    NoUrl = NoUrl
    PowerLoss = TRUE
    NvsFaults = TRUE
INVARIANTS
    OneAttempt
    MaintenanceOnConfirmed
    Recoverable
    SelectedIsGenuine
    FetchesArmed
PROPERTY
    ReturnsToNormal
