------------------------------- MODULE Scanner -------------------------------
(***************************************************************************)
(* The scanner of src/fotress.py: scan_file and the quarantine.            *)
(*                                                                         *)
(* The scanner reads files other programs go on changing.  scan_file looks *)
(* at a file up to four times (does it exist, its hash, its contents, the  *)
(* move to the quarantine), and each look is a step of its own.            *)
(*                                                                         *)
(* A file's contents are told apart by what the scanner finds in them.     *)
(* Left out: logging, last_scan, and the text of the reports.              *)
(***************************************************************************)
EXTENDS Integers, FiniteSets

CONSTANTS
    Paths,               \* paths of files: [dir, name]
    Names,               \* their names
    HighRisk,            \* names with one of the high_risk_extensions
    SafeNames,           \* safe_dlls
    Contents,            \* contents of files
    MaxScans,            \* bound on scan_count
    MaxChanges,          \* bound on what other programs change
    MaxTime              \* bound on the clock, in seconds

ASSUME ScannerAssumption ==
    /\ Paths # {} /\ \A path \in Paths : path.name \in Names
    /\ HighRisk \subseteq Names /\ SafeNames \subseteq HighRisk
    /\ Contents \subseteq {"malware", "pattern", "script", "packed", "plain"}
    /\ MaxScans \in Nat /\ MaxChanges \in Nat /\ MaxTime \in Nat

Results == {"clean", "suspicious", "malicious", "error"}

VARIABLES
    files,               \* path of a file -> its contents
    quarantine,          \* [time, name] of a file in quarantine_dir -> its contents
    now,                 \* datetime.now(), in seconds
    scan,                \* where the scan is: [at, path, stamp]
    result,              \* what the last scan answered, or "none"
    scan_count, threats_detected, files_quarantined,
    original,            \* history: contents of the file when its scan began
    disturbed,           \* history: another program changed it since
    hash_failed,         \* history: its hash could not be taken
    failed_moves,        \* history: moves to the quarantine that failed
    swapped,             \* history: changes of a file after its hash was taken
    changes              \* history: changes by other programs

world == <<files, now, changes>>
counters == <<scan_count, threats_detected, files_quarantined>>
history == <<original, disturbed, hash_failed, failed_moves, swapped>>
vars == <<world, quarantine, scan, result, counters, history>>

-----------------------------------------------------------------------------
Answered(path) == [at |-> "idle", path |-> path, stamp |-> 0]

Init ==
    /\ \E present \in SUBSET Paths : files \in [present -> Contents]
    /\ quarantine = [q \in {} |-> "plain"]
    /\ now = 0
    /\ scan = Answered(CHOOSE path \in Paths : TRUE)
    /\ result = "none"
    /\ scan_count = 0 /\ threats_detected = 0 /\ files_quarantined = 0
    /\ original = "none" /\ disturbed = FALSE /\ hash_failed = FALSE
    /\ failed_moves = 0 /\ swapped = 0 /\ changes = 0

Exists(path) == path \in DOMAIN files

At(place) == scan.at = place

(* The scan goes on at another place. *)
GoTo(place) == scan' = [scan EXCEPT !.at = place]

(* Mutated form: suspicious files are moved as well. *)
SuspiciousToo(found) == found \in {"malicious", "suspicious"}

IsMoved(found) == found = "malicious"

(* The end of scan_file, for what the scan of the contents found: only     *)
(* malicious files are moved, and the answer is returned after that.       *)
Conclude(found) ==
    IF IsMoved(found)
      THEN /\ threats_detected' = threats_detected + 1
           /\ GoTo("quarantine")
           /\ UNCHANGED result
      ELSE /\ scan' = Answered(scan.path)
           /\ result' = found
           /\ UNCHANGED threats_detected

(* scan_file up to its first look at the file: the extension of the name   *)
(* decides how it is scanned, and a name of safe_dlls is not opened.       *)
scan_file(path) ==
    /\ At("idle")
    /\ scan_count < MaxScans
    /\ scan_count' = scan_count + 1
    /\ original' = IF Exists(path) THEN files[path] ELSE "none"
    /\ disturbed' = FALSE /\ hash_failed' = FALSE
    /\ \/ /\ ~Exists(path)
          /\ result' = "error"
          /\ scan' = Answered(path)
       \/ /\ Exists(path)
          /\ path.name \in SafeNames
          /\ result' = "clean"
          /\ scan' = Answered(path)
       \/ /\ Exists(path)
          /\ path.name \notin SafeNames
          /\ scan' = [at    |-> IF path.name \in HighRisk THEN "hash" ELSE "text",
                      path  |-> path,
                      stamp |-> 0]
          /\ UNCHANGED result
    /\ UNCHANGED <<world, quarantine, threats_detected, files_quarantined,
                   failed_moves, swapped>>

(* Mutated form: the signatures are looked up by the wrong hash. *)
WrongHash(contents) == FALSE

(* The file's hash is in signature_db. *)
KnownMalware(contents) == contents = "malware"

(* calculate_hash answers "" when it cannot read the file, which is in no  *)
(* signature: the scan goes on.                                            *)
calculate_hash ==
    /\ At("hash")
    /\ \/ /\ Exists(scan.path) /\ KnownMalware(files[scan.path])
          /\ Conclude("malicious")
          /\ UNCHANGED hash_failed
       \/ /\ Exists(scan.path) /\ ~KnownMalware(files[scan.path])
          /\ GoTo("read")
          /\ UNCHANGED <<result, threats_detected, hash_failed>>
       \/ /\ hash_failed' = TRUE
          /\ GoTo("read")
          /\ UNCHANGED <<result, threats_detected>>
    /\ UNCHANGED <<world, quarantine, scan_count, files_quarantined,
                   original, disturbed, failed_moves, swapped>>

(* _is_packed subtracts p * p * ln 2 for every byte value that occurs:     *)
(* what it calls entropy is never above zero, and no file is packed.       *)
IsPacked(contents) == FALSE

(* What the second half of _scan_binary_file, or _scan_text_file, finds.   *)
(* Known malware may hold a suspicious text or none.                       *)
Findings(contents) ==
    CASE contents = "malware" -> {"suspicious", "clean"}
      [] At("read") /\ (contents = "pattern" \/ IsPacked(contents)) -> {"suspicious"}
      [] At("text") /\ contents = "script" -> {"suspicious"}
      [] OTHER -> {"clean"}

scan_contents ==
    /\ At("read") \/ At("text")
    /\ \/ Exists(scan.path) /\ \E found \in Findings(files[scan.path]) : Conclude(found)
       \/ Conclude("error")           \* the file is gone or cannot be read
    /\ UNCHANGED <<world, quarantine, scan_count, files_quarantined, history>>

(* _quarantine_file reads the clock before it moves the file. *)
TakeStamp ==
    /\ At("quarantine")
    /\ scan' = [scan EXCEPT !.at = "move", !.stamp = now]
    /\ UNCHANGED <<world, quarantine, result, counters, history>>

(* Mutated form: the time is rounded up to the next second. *)
RoundedUp == [time |-> scan.stamp + 1, name |-> scan.path.name]

(* The name a file gets in quarantine_dir. *)
Target == [time |-> scan.stamp, name |-> scan.path.name]

(* Mutated form: the file is counted before it is moved. *)
AlreadyCounted(moved) == files_quarantined + 1

CountMoved(moved) == IF moved THEN files_quarantined + 1 ELSE files_quarantined

(* os.rename replaces a file of that name.  When it fails, that is logged  *)
(* and scan_file answers "malicious" all the same.                         *)
_quarantine_file ==
    /\ At("move")
    /\ \/ /\ Exists(scan.path)
          /\ quarantine' = [q \in DOMAIN quarantine \cup {Target} |->
                 IF q = Target THEN files[scan.path] ELSE quarantine[q]]
          /\ files' = [p \in DOMAIN files \ {scan.path} |-> files[p]]
          /\ files_quarantined' = CountMoved(TRUE)
          /\ UNCHANGED failed_moves
       \/ /\ files_quarantined' = CountMoved(FALSE)
          /\ failed_moves' = failed_moves + 1
          /\ UNCHANGED <<files, quarantine>>
    /\ scan' = Answered(scan.path)
    /\ result' = "malicious"
    /\ UNCHANGED <<now, changes, scan_count, threats_detected,
                   original, disturbed, hash_failed, swapped>>

-----------------------------------------------------------------------------
(* Other programs write and remove files at any time (external). *)
Change(path) ==
    /\ changes < MaxChanges
    /\ changes' = changes + 1
    /\ \/ \E contents \in Contents :
            files' = [p \in DOMAIN files \cup {path} |->
                        IF p = path THEN contents ELSE files[p]]
       \/ files' = [p \in DOMAIN files \ {path} |-> files[p]]
    /\ disturbed' = (disturbed \/ (~At("idle") /\ path = scan.path))
    /\ swapped' = IF (At("quarantine") \/ At("move")) /\ path = scan.path
                    THEN swapped + 1 ELSE swapped
    /\ UNCHANGED <<now, quarantine, scan, result, counters,
                   original, hash_failed, failed_moves>>

Tick ==
    /\ now < MaxTime
    /\ now' = now + 1
    /\ UNCHANGED <<files, changes, quarantine, scan, result, counters, history>>

(* get_status only reports. *)
get_status == UNCHANGED vars

Next ==
    \/ \E path \in Paths : scan_file(path) \/ Change(path)
    \/ calculate_hash
    \/ scan_contents
    \/ TakeStamp
    \/ _quarantine_file
    \/ Tick
    \/ get_status

Spec == Init /\ [][Next]_vars

-----------------------------------------------------------------------------
(* Type invariant. *)
TypeOK ==
    /\ DOMAIN files \subseteq Paths
    /\ files \in [DOMAIN files -> Contents]
    /\ DOMAIN quarantine \subseteq [time : 0 .. MaxTime, name : Names]
    /\ quarantine \in [DOMAIN quarantine -> Contents]
    /\ now \in 0 .. MaxTime
    /\ scan \in [at : {"idle", "hash", "read", "text", "quarantine", "move"},
                 path : Paths, stamp : 0 .. MaxTime]
    /\ result \in Results \cup {"none"}
    /\ scan_count \in Nat /\ threats_detected \in Nat /\ files_quarantined \in Nat
    /\ original \in Contents \cup {"none"}
    /\ disturbed \in BOOLEAN /\ hash_failed \in BOOLEAN
    /\ failed_moves \in Nat /\ swapped \in Nat /\ changes \in 0 .. MaxChanges

(* Every threat get_status reports was moved to the quarantine, could not  *)
(* be moved, or is about to be; each is a scan of its own.                 *)
CountersAgree ==
    /\ threats_detected = files_quarantined + failed_moves
                            + (IF At("quarantine") \/ At("move") THEN 1 ELSE 0)
    /\ threats_detected <= scan_count

(* What lies in the quarantine is what the signatures know, except for     *)
(* files that another program exchanged between the hash and the move.     *)
OnlyMalwareQuarantined ==
    Cardinality({q \in DOMAIN quarantine : quarantine[q] # "malware"}) <= swapped

(* Known malware of a risky type that no program changes during its scan   *)
(* is answered to be malicious, whatever happens elsewhere in between, but *)
(* in two cases, and never in these: its name is one of safe_dlls, or its  *)
(* hash could not be taken, after which the scan goes on and may well end  *)
(* in "clean" (src/fotress.py:161-163).                                    *)
MalwareIsNoticed ==
    /\ At("idle") /\ ~disturbed /\ original = "malware"
    /\ scan.path.name \in HighRisk
    => (result = "malicious" <=> scan.path.name \notin SafeNames /\ ~hash_failed)

(* The timestamp is there "to prevent overwrites" (src/fotress.py:299):    *)
(* every file that was moved to the quarantine is still there.             *)
NoOverwrites == Cardinality(DOMAIN quarantine) = files_quarantined
=============================================================================
