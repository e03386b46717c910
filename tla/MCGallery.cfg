SPECIFICATION Spec
CONSTANTS
    Joris = Joris
    Danfeng = Danfeng
    Users = {Joris, Danfeng}
    NoUser = NoUser
    N = 3
    Undecodable = {3}
    UploadedBy <- Uploaders
    Sizes = {medium}
    Limit = 1
    Filters = {NoUser}
    Requests = {r1, r2}
    MaxTime = 1
    MaxNames = 3
    Entries = {e1, e2}
    BadEntries = {e2}
    Uploads = {u1}
VIEW View
SYMMETRY Symmetry
CHECK_DEADLOCK FALSE
INVARIANTS TypeOK WalkShowsEachOnce ListedHasPictures UrlsWork DeletedOnce
