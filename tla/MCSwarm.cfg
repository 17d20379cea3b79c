SPECIFICATION FairSpec
CONSTANTS
    x = x
    y = y
    Clients = {x, y}
    Links <- Mutual
    Cap = 1
    Uploader = Uploader
    None = None
PROPERTY NobodyStuck
