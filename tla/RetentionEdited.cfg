SPECIFICATION Spec
CONSTANTS
    Guids = {g1, g2}
    RetentionDays = 2
    KeepPerFeed = 1
    MaxReadDays = 1
    Fetches = {f1}
    NoArticle = NoArticle
    NoGuid = NoGuid
    NoFetch = NoFetch
    Unread = Unread
    Absent = Absent
PROPERTY AllGoneStaysGone
