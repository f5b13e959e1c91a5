\* One resume, three sections, at most two fields with a value.
CONSTANTS
    None = None
    Sections <- MCSome
    MaxFields = 2
SPECIFICATION Spec
INVARIANT PlainFormsAreStored
PROPERTIES
    EditKeepsTheRest
    SavedCanBeShown
\* A creation that is refused ends a behaviour.
CHECK_DEADLOCK FALSE
