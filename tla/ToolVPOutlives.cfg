\* A task that outlives the call it was started in.
CONSTANTS
    None = None
    a = a  b = b  c = c  v1 = v1  v2 = v2  v3 = v3  v4 = v4
    Tasks = {a, c}
    Tools = {search, pay}
    VPs = {v1, v2}
    CopyTasks = {c}
    MaxDepth = 2
SPECIFICATION Spec
INVARIANT EmptyOutsideCalls
