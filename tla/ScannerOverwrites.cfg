SPECIFICATION Spec
CONSTANTS
    Paths <- MCPaths
    Names = {"x.dll", "ntdll.dll", "y.txt"}
    HighRisk = {"x.dll", "ntdll.dll"}
    SafeNames = {"ntdll.dll"}
    Contents = {"malware", "pattern", "script", "packed", "plain"}
    MaxScans = 2
    MaxChanges = 0
    MaxTime = 1
INVARIANT
    NoOverwrites
