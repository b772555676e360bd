\* One SFTP session with a file and a request, a channel, and next to them either directories
\* and a second SFTP session or a second file, so that closing one has the others to spare.
CONSTANTS
    s1 = s1
    s2 = s2
    f2 = f2
    Session = Session
    SSHChannelID = {c1}
    SFTPClientID = {s1, s2}
    FileUUID = {f1, f2}
    DirectoryUUID = {d1}
    AioUUID = {a1}
SPECIFICATION Spec
CONSTRAINT MCOneSibling
VIEW MCView
INVARIANTS TypeOK NothingDangles NothingLeaks
PROPERTIES  ImplementsHandleTree
