SPECIFICATION Spec
VIEW View
CONSTANTS
    MAX_DEVICES = 3
    Names = {"disk", "tty"}
    HandlerSets = {"driver"}
    NoHandlers = "NULL"
    MaxDeviceId = 4
PROPERTIES
    UnregisteredStaysUnknown
    ImplementsDeviceRegistry
