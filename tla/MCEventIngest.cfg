SPECIFICATION FairSpec
CONSTANTS
    news = news
    sys = sys
    delivery = delivery
    bounce = bounce
    sysEvent = sysEvent
    garbage = garbage
    None = None
    Mails <- MCMails
    Newsletter <- MCNewsletter
    Events <- MCEvents
    MailOf <- MCMailOf
    Untracked <- NoEvents
    Malformed <- MCMalformed
    SesType <- MCSesType
    Handlers = {h1, h2}
    Reconcilers = {r1, r2}
    MaxFaults = 2
INVARIANTS
    AckedEventIsDurable
    ReconciledIsStored
PROPERTIES
    ReconciledForGood
    TrackedEventIsStored
