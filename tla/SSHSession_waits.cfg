CONSTANTS
    s1 = s1
    s2 = s2
    f2 = f2
    Session = Session
    SSHChannelID = {}
    SFTPClientID = {s1}
    FileUUID = {f1}
    DirectoryUUID = {}
    AioUUID = {a1}
SPECIFICATION Spec
PROPERTIES RequestsWaitedBeforeClose
