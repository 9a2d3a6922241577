CONSTANTS
    Texts = {t1}
    Titles = {x1}
    MaxTags = 1
    Crops = {x1}
    Photos = {k1}
    Requests = {r1, r2}
    None = None
SPECIFICATION Spec
SYMMETRY Symmetry
INVARIANTS TypeOK LinksResolve PicturesTrue PhotoStaysGone
