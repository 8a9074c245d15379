SPECIFICATION Spec
CONSTANTS
    news = news
    sys = sys
    delivery = delivery
    bounce = bounce
    sysEvent = sysEvent
    garbage = garbage
    None = None
    Mails <- PairMails
    Newsletter <- MCNewsletter
    Events <- PairEvents
    MailOf <- PairMailOf
    Untracked <- NoEvents
    Malformed <- NoEvents
    SesType <- PairSesType
    Handlers = {h1}
    Reconcilers = {r1}
    MaxFaults = 2
INVARIANT
    OverviewCountsStoredEvents
