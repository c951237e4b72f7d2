CONSTANTS
    Caster = {c1}
    Sub = {s1}
    HistorySize = 2
    SubscriberBuffer = 1
    MaxSeeds = 0
    MaxEvents = 2
SPECIFICATION HubSpec
PROPERTIES NoSendAfterUnsubscribe
