SPECIFICATION Spec
CONSTANTS
    Guids = {g1, g2}
    RetentionDays = 2
    KeepPerFeed = 1
    MaxReadDays = 1
    Fetches = {f1, f2}
    NoArticle = NoArticle
    NoGuid = NoGuid
    NoFetch = NoFetch
    Unread = Unread
    Absent = Absent
PROPERTIES
    GoneStaysGone
    ReadGoesAway
