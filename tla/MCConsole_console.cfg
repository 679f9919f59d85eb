\* Two requests at a time, two changes of the database.
SPECIFICATION Spec
CONSTANTS
    c1 = c1
    c2 = c2
    Conn = {c1, c2}
    MaxVersion = 2
    Limit = 1
    Window = 2
    None = None
    Posted = Posted
PROPERTIES
    ReadYourActions
    DashboardConverges
    WindowsEnd
CHECK_DEADLOCK FALSE
