\* Two jobs that may fail alike, on two workers that make notes and one that
\* does not, and one requeue.
SPECIFICATION Spec
CONSTANTS
    j1 = j1
    j2 = j2
    s1 = s1
    s2 = s2
    s3 = s3
    e1 = e1
    e2 = e2
    code = code
    Job = {j1, j2}
    Slot = {s1, s2, s3}
    Noters = {s1, s2}
    About = {j1, j2}
    AboutOf <- TaskOf
    Error = {e1, e2}
    Category = {code}
    MaxRequeues <- OneOnce
    None = None
INVARIANTS
    NotesAreEarned
    BurialsAreAccountedFor
PROPERTIES
    RequeuesStick
    SlotsComeBack
CHECK_DEADLOCK FALSE
