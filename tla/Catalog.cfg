SPECIFICATION FilesSpec
CONSTANTS
    NoText = NoText
    NoId = NoId
    NoDay = NoDay
    Lower <- MCLower
    DaysPerMonth = 2
    SessionZone = 0
    CampaignRows <- MCCampaignRows
    TemplateRows <- MCTemplateRows
    GroupRows <- MCGroupRows
    CampaignWindows <- MCCampaignWindows
    TemplateWindows <- MCTemplateWindows
    RateWindows <- MCRateWindows
    Publishers = {p1, p2}
    Logic = {"logic-1", "logic-2"}
    Labels = {"labels-1"}
    UploadedRows <- MCUploadedRows
    Imported <- MCImported
    Workbooks <- MCWorkbooks
    MaxRuns = 2
    NoCell = NoText
    Contract <- MCContract
    Approved = {"X"}
    PreferredSheet = "Web-Engage Raw"
    HeaderScanRows = 3
    MaxCol = 4
    Books <- MCBooks
    NoFile = NoFile
SYMMETRY MCSymmetry
INVARIANTS
    RunKeepsItsVersions
    ReconcileAgrees
    PublishableIsClean
    StagedUnderItsHeaders
CHECK_DEADLOCK FALSE
