CONSTANTS
    Threads = {t1, t2}
    NoThread = NoThread
    Handles = {h1, h2, h3, h4}
    NoHandle = NoHandle
    Normal = Normal
    Migrate = Migrate
    Compress = Compress
    AutoTask = AutoTask
    Types <- MCTypes
    Categories <- MCTypes
    Slots = {Normal, AutoTask}
    SlotOf <- MCSlotOf
    CategoryOf <- MCCategoryOf
    WaitingTypes = {Normal}
    Nested <- MCNested
    MaxHandles = 3
    MaxWriters = 1
    MaxReferences = 2
    DrainsWithHandle = FALSE
SPECIFICATION Spec
SYMMETRY Symmetry
INVARIANTS OneUser HandleInUseIsOpen BooksAgree
