\* Two threads and a task that copies a context: nested calls, exceptions.
CONSTANTS
    None = None
    a = a  b = b  c = c  v1 = v1  v2 = v2  v3 = v3  v4 = v4
    Tasks = {a, b, c}
    Tools = {search, pay}
    VPs = {v1, v2, v3}
    CopyTasks = {c}
    MaxDepth = 2
SPECIFICATION Spec
INVARIANTS TypeOK SendsOwnVP RestoredAfterCalls NoSharedVP
SYMMETRY TaskSymmetry
