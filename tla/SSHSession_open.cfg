CONSTANTS
    s1 = s1
    s2 = s2
    f2 = f2
    Session = Session
    SSHChannelID = {}
    SFTPClientID = {s1}
    FileUUID = {}
    DirectoryUUID = {}
    AioUUID = {}
SPECIFICATION Spec
INVARIANTS ErrorReadBeforeFree
