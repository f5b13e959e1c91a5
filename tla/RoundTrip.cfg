\* One resume with all sections, two fields at a time.
CONSTANTS
    None = None
    Sections <- MCAll
    MaxFields = 2
SPECIFICATION Spec
INVARIANT SectionsRoundTrip
