\* Two threads making every call on descriptors 0 (stdin, which may be
\* closed and reused by an open of the input), 3 and 4; reads ask for part
\* of the file or all of it; six calls a thread, enough for stdin to be
\* closed, reopened on the input, read, and reopened again.
CONSTANTS
    Threads = {t1, t2}
    t1 = t1
    t2 = t2
    Input = Input
    Other = Other
    NoFile = NoFile
    NoTag = NoTag
    Fds = {0, 3, 4}
    Closable = {0, 3, 4}
    Calls <- MC_Calls
    FileLen = 2
    MaxLen = 2
    Asks = {1, 2}
    MaxCalls = 6
SPECIFICATION Spec
INVARIANTS
    TagsMatchInput
