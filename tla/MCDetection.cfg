SPECIFICATION Spec
CONSTANTS
    yahoo = yahoo
    nse = nse
    bse = bse
    Deployments <- MCDeployments
    Readings <- MCReadings
    Histories <- MCHistories
    Configs <- MCConfigs
    Feeds <- MCFeeds
INVARIANTS
    MajorityBoundsPrice VerifiedMeansAgreement EventNotMinority
    TrustIsMonotone DigestIsWeakest ToldTierIsTheEvents NarrationIsHonest
