CONSTANTS
    Texts = {t1, t2}
    Titles = {}
    MaxTags = 0
    Crops = {}
    Photos = {}
    Requests = {r1}
    None = None
SPECIFICATION FairSpec
PROPERTIES LinkCatchesUp
