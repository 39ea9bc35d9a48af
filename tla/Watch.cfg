SPECIFICATION FairSpec
CONSTANTS
    s1 = s1
    s2 = s2
    Scrapers <- TwoScrapers
    NumServers = 2
    ScanIds = 3
INVARIANTS
    ServersOpenWhileScanning
    PagesConsistent
    PagesComplete
PROPERTIES
    StopsOnSignal
    ScrapesAnswered
    KeepsScanning
