--------------------------- MODULE ScannerProofs ---------------------------
(***************************************************************************)
(* Proofs about the scanner, for all paths, names and contents, and any    *)
(* number of scans and of changes by other programs.                       *)
(*                                                                         *)
(* CountersAgree and MalwareIsNoticed speak of the end of a scan.  What    *)
(* holds on the way there is ScanInv: a scan in progress has counted       *)
(* itself and no threat yet, an undisturbed scan still has the file it     *)
(* began with before it, and one that goes on after the hash of malware    *)
(* could not take this hash.                                               *)
(***************************************************************************)
EXTENDS Scanner, FiniteSetTheorems, TLAPS

Scanning == At("hash") \/ At("read") \/ At("text")

Moving == At("quarantine") \/ At("move")

ScanTyped ==
    /\ scan \in [at : {"idle", "hash", "read", "text", "quarantine", "move"},
                 path : Paths, stamp : Nat]
    /\ now \in Nat
    /\ scan_count \in Nat /\ threats_detected \in Nat
    /\ files_quarantined \in Nat /\ failed_moves \in Nat
    /\ disturbed \in BOOLEAN /\ hash_failed \in BOOLEAN

ThreatsBalance ==
    /\ threats_detected = files_quarantined + failed_moves
                            + (IF Moving THEN 1 ELSE 0)
    /\ threats_detected + (IF Scanning THEN 1 ELSE 0) <= scan_count

FileStillThere ==
    ~At("idle") /\ ~disturbed =>
        Exists(scan.path) /\ files[scan.path] = original

HashDecides ==
    /\ At("read") /\ ~disturbed /\ original = "malware" => hash_failed
    /\ At("hash") \/ Moving => ~hash_failed
    /\ ~At("idle") => scan.path.name \notin SafeNames
    /\ At("text") => scan.path.name \notin HighRisk

ScanInv ==
    /\ ScanTyped
    /\ ThreatsBalance
    /\ FileStillThere
    /\ HashDecides
    /\ MalwareIsNoticed

-----------------------------------------------------------------------------
USE ScannerAssumption

LEMMA ScanInitially == Init => ScanInv
  <1> SUFFICES ASSUME Init PROVE ScanInv
    OBVIOUS
  <1>1. scan.at = "idle" /\ scan.path \in Paths /\ scan = Answered(scan.path)
    BY DEF Init, Answered
  <1>2. ScanTyped
    BY <1>1 DEF Init, Answered, ScanTyped
  <1>3. ThreatsBalance /\ FileStillThere /\ HashDecides /\ MalwareIsNoticed
    BY <1>1 DEF Init, At, ThreatsBalance, FileStillThere, HashDecides,
                MalwareIsNoticed, Scanning, Moving
  <1> QED
    BY <1>2, <1>3 DEF ScanInv

(* A scan begins, or is answered at once. *)
LEMMA BeginKeepsInv ==
    ASSUME ScanInv, NEW path \in Paths, scan_file(path)
    PROVE  ScanInv'
  <1> USE DEF scan_file, ScanInv, At, Answered, Exists, world, Scanning, Moving
  <1>1. ScanTyped'
    <2>1. scan' \in [at : {"idle", "hash", "read", "text", "quarantine", "move"},
                     path : Paths, stamp : Nat]
      <3>1. CASE scan' = Answered(path)
        BY <3>1
      <3>2. CASE Exists(path) /\ path.name \notin SafeNames
        BY <3>2
      <3> QED
        BY <3>1, <3>2
    <2>2. /\ scan_count' = scan_count + 1
          /\ disturbed' \in BOOLEAN /\ hash_failed' \in BOOLEAN
          /\ UNCHANGED <<now, threats_detected, files_quarantined, failed_moves>>
      OBVIOUS
    <2>3. ScanTyped
      OBVIOUS
    <2> QED
      BY ONLY <2>1, <2>2, <2>3 DEF ScanTyped
  <1>2. ThreatsBalance'
    BY DEF ThreatsBalance, ScanTyped
  <1>3. FileStillThere'
    BY DEF FileStillThere
  <1>4. HashDecides'
    BY DEF HashDecides
  <1>5. MalwareIsNoticed'
    BY DEF MalwareIsNoticed
  <1> QED
    BY <1>1, <1>2, <1>3, <1>4, <1>5

LEMMA HashKeepsInv == ScanInv /\ calculate_hash => ScanInv'
  <1> SUFFICES ASSUME ScanInv, calculate_hash PROVE ScanInv'
    OBVIOUS
  <1> USE DEF calculate_hash, Conclude, IsMoved, KnownMalware, GoTo, ScanInv, At,
              Answered, Exists, world, Scanning, Moving
  <1>1. ScanTyped'
    <2>1. disturbed' \in BOOLEAN /\ hash_failed' \in BOOLEAN
      BY DEF ScanTyped
    <2>2. scan' \in {[scan EXCEPT !.at = "quarantine"], [scan EXCEPT !.at = "read"]}
      OBVIOUS
    <2>3. threats_detected' \in {threats_detected, threats_detected + 1}
      OBVIOUS
    <2> QED
      BY <2>1, <2>2, <2>3 DEF ScanTyped
  <1>2. ThreatsBalance'
    BY DEF ThreatsBalance, ScanTyped
  <1>3. FileStillThere'
    BY DEF FileStillThere, ScanTyped
  <1>4. HashDecides'
    BY DEF HashDecides, FileStillThere, ScanTyped
  <1>5. MalwareIsNoticed'
    BY DEF MalwareIsNoticed, ScanTyped
  <1> QED
    BY <1>1, <1>2, <1>3, <1>4, <1>5

LEMMA ContentsKeepInv == ScanInv /\ scan_contents => ScanInv'
  <1> SUFFICES ASSUME ScanInv, scan_contents PROVE ScanInv'
    OBVIOUS
  <1>1. PICK found : found # "malicious" /\ Conclude(found)
    BY DEF scan_contents, Findings
  <1>2. /\ At("read") \/ At("text")
        /\ scan' = Answered(scan.path)
        /\ result' # "malicious"
        /\ UNCHANGED <<files, now, threats_detected, scan_count, files_quarantined,
                       original, disturbed, hash_failed, failed_moves>>
    BY <1>1 DEF scan_contents, Conclude, IsMoved, world, history
  <1> USE <1>2 DEF ScanInv, At, Answered, Scanning, Moving
  <1>3. ScanTyped'
    BY DEF ScanTyped
  <1>4. ThreatsBalance'
    BY DEF ThreatsBalance, ScanTyped
  <1>5. FileStillThere' /\ HashDecides'
    BY DEF FileStillThere, HashDecides
  <1>6. MalwareIsNoticed'
    <2>1. At("idle")' /\ ~disturbed' /\ original' = "malware" =>
            hash_failed' \/ scan'.path.name \notin HighRisk
      BY DEF HashDecides
    <2> QED
      BY <2>1 DEF MalwareIsNoticed
  <1> QED
    BY <1>3, <1>4, <1>5, <1>6

LEMMA StampKeepsInv == ScanInv /\ TakeStamp => ScanInv'
  <1> SUFFICES ASSUME ScanInv, TakeStamp PROVE ScanInv'
    OBVIOUS
  <1> USE DEF TakeStamp, ScanInv, At, Exists, Scanning, Moving, world, counters, history
  <1>1. ScanTyped'
    BY DEF ScanTyped
  <1>2. ThreatsBalance' /\ FileStillThere'
    BY DEF ThreatsBalance, FileStillThere, ScanTyped
  <1>3. HashDecides' /\ MalwareIsNoticed'
    BY DEF HashDecides, MalwareIsNoticed, ScanTyped
  <1> QED
    BY <1>1, <1>2, <1>3

LEMMA MoveKeepsInv == ScanInv /\ _quarantine_file => ScanInv'
  <1> SUFFICES ASSUME ScanInv, _quarantine_file PROVE ScanInv'
    OBVIOUS
  <1> USE DEF _quarantine_file, CountMoved, ScanInv, At, Answered, Scanning, Moving
  <1>1. ScanTyped'
    BY DEF ScanTyped
  <1>2. ThreatsBalance'
    BY DEF ThreatsBalance, ScanTyped
  <1>3. FileStillThere' /\ HashDecides' /\ MalwareIsNoticed'
    BY DEF FileStillThere, HashDecides, MalwareIsNoticed
  <1> QED
    BY <1>1, <1>2, <1>3

(* Other programs change the file the scan is at, which disturbs it, or    *)
(* another one.                                                            *)
LEMMA ChangeKeepsInv ==
    ASSUME ScanInv, NEW path \in Paths, Change(path)
    PROVE  ScanInv'
  <1>1. /\ disturbed' = (disturbed \/ (~At("idle") /\ path = scan.path))
        /\ UNCHANGED <<scan, now, result, scan_count, threats_detected,
                       files_quarantined, original, hash_failed, failed_moves>>
    BY DEF Change, counters
  <1>2. \A p \in DOMAIN files \ {path} : p \in DOMAIN files' /\ files'[p] = files[p]
    BY DEF Change
  <1>3. disturbed \in BOOLEAN /\ disturbed' \in BOOLEAN /\ (disturbed => disturbed')
    BY <1>1, Zenon DEF ScanInv, ScanTyped
  <1>4. ScanTyped' /\ ThreatsBalance'
    BY <1>1, <1>3 DEF ScanInv, ScanTyped, ThreatsBalance, At, Scanning, Moving
  <1>5. FileStillThere'
    BY <1>1, <1>2 DEF ScanInv, FileStillThere, At, Exists
  <1>6. HashDecides'
    BY <1>1, <1>3 DEF ScanInv, HashDecides, At, Moving
  <1>7. MalwareIsNoticed'
    BY <1>1, <1>3 DEF ScanInv, MalwareIsNoticed, At
  <1> QED
    BY <1>4, <1>5, <1>6, <1>7 DEF ScanInv

(* Steps that change nothing ScanInv speaks of but the clock. *)
LEMMA QuietKeepsInv == ScanInv /\ (Tick \/ UNCHANGED vars) => ScanInv'
  BY DEF Tick, vars, world, counters, history, ScanInv, ScanTyped, ThreatsBalance,
         FileStillThere, HashDecides, MalwareIsNoticed, At, Exists, Scanning, Moving

LEMMA ScanInvHolds == Spec => []ScanInv
  <1>1. ScanInv /\ [Next]_vars => ScanInv'
    BY BeginKeepsInv, HashKeepsInv, ContentsKeepInv, StampKeepsInv, MoveKeepsInv,
       ChangeKeepsInv, QuietKeepsInv DEF Next, get_status
  <1> QED
    BY <1>1, ScanInitially, PTL DEF Spec

(* The counters get_status reports (src/fotress.py:598-599) account for    *)
(* every threat: moved, not movable, or about to be moved.                 *)
THEOREM ThreatsAccounted == Spec => []CountersAgree
  <1>1. ScanInv => CountersAgree
    BY DEF ScanInv, ScanTyped, ThreatsBalance, CountersAgree, Scanning, Moving
  <1> QED
    BY <1>1, ScanInvHolds, PTL

(* Known malware of a risky type that nobody changes during its scan is    *)
(* answered to be malicious exactly if its name is not one of safe_dlls    *)
(* and its hash could be taken (src/fotress.py:149-220).                   *)
THEOREM MalwareStaysNoticed == Spec => []MalwareIsNoticed
  <1>1. ScanInv => MalwareIsNoticed
    BY DEF ScanInv
  <1> QED
    BY <1>1, ScanInvHolds, PTL

-----------------------------------------------------------------------------
(* For OnlyMalwareQuarantined, a file that is about to be moved and is not *)
(* malware any more already counts as one that lies in the quarantine.     *)
Exchanged == {q \in DOMAIN quarantine : quarantine[q] # "malware"}

AboutToMoveOther == Moving /\ Exists(scan.path) /\ files[scan.path] # "malware"

SwapInv ==
    /\ swapped \in Nat
    /\ IsFiniteSet(Exchanged)
    /\ Cardinality(Exchanged) + (IF AboutToMoveOther THEN 1 ELSE 0) <= swapped

(* A step that leaves the quarantine and swapped alone, and brings no      *)
(* other file before the move.                                             *)
LEMMA SwapInvUntouched ==
    ASSUME SwapInv, UNCHANGED <<quarantine, swapped>>,
           AboutToMoveOther' => AboutToMoveOther
    PROVE  SwapInv'
  <1>1. Exchanged' = Exchanged
    BY DEF Exchanged
  <1>2. Cardinality(Exchanged) \in Nat
    BY FS_CardinalityType DEF SwapInv
  <1> QED
    BY <1>1, <1>2 DEF SwapInv

(* The move puts one file into the quarantine, which counts only if it is  *)
(* not malware.                                                            *)
LEMMA MoveKeepsSwapInv ==
    ASSUME SwapInv, _quarantine_file
    PROVE  SwapInv'
  <1>1. ~AboutToMoveOther' /\ UNCHANGED swapped
    BY DEF _quarantine_file, AboutToMoveOther, Moving, At, Answered
  <1>2. Cardinality(Exchanged) \in Nat
    BY FS_CardinalityType DEF SwapInv
  <1>3. CASE UNCHANGED quarantine
    BY <1>1, <1>3, SwapInvUntouched
  <1>4. CASE AboutToMoveOther /\ Exchanged' \subseteq Exchanged \cup {Target}
    <2>1. /\ IsFiniteSet(Exchanged \cup {Target})
          /\ Cardinality(Exchanged \cup {Target}) <= Cardinality(Exchanged) + 1
          /\ Cardinality(Exchanged \cup {Target}) \in Nat
      <3>1. IsFiniteSet(Exchanged)
        BY DEF SwapInv
      <3>2. /\ IsFiniteSet(Exchanged \cup {Target})
            /\ Cardinality(Exchanged \cup {Target}) =
                 IF Target \in Exchanged THEN Cardinality(Exchanged)
                                         ELSE Cardinality(Exchanged) + 1
        BY <3>1, FS_AddElement, Zenon
      <3> QED
        BY <1>2, <3>2
    <2>2. /\ IsFiniteSet(Exchanged')
          /\ Cardinality(Exchanged') <= Cardinality(Exchanged \cup {Target})
          /\ Cardinality(Exchanged') \in Nat
      BY <1>4, <2>1, FS_Subset, FS_CardinalityType
    <2> QED
      BY <1>1, <1>2, <1>4, <2>1, <2>2 DEF SwapInv
  <1>5. CASE Exchanged' \subseteq Exchanged
    <2>1. /\ IsFiniteSet(Exchanged')
          /\ Cardinality(Exchanged') <= Cardinality(Exchanged)
          /\ Cardinality(Exchanged') \in Nat
      BY <1>5, FS_Subset, FS_CardinalityType DEF SwapInv
    <2> QED
      BY <1>1, <1>2, <2>1 DEF SwapInv
  <1>6. CASE /\ Exists(scan.path)
             /\ quarantine' = [q \in DOMAIN quarantine \cup {Target} |->
                   IF q = Target THEN files[scan.path] ELSE quarantine[q]]
    <2>1. Exchanged' \subseteq Exchanged \cup {Target}
      BY <1>6 DEF Exchanged
    <2>2. files[scan.path] = "malware" => Exchanged' \subseteq Exchanged
      BY <1>6 DEF Exchanged
    <2>3. files[scan.path] # "malware" => AboutToMoveOther
      BY <1>6 DEF AboutToMoveOther, Moving, At, _quarantine_file
    <2> QED
      BY <2>1, <2>2, <2>3, <1>4, <1>5
  <1> QED
    BY <1>3, <1>6 DEF _quarantine_file

LEMMA SwapInvKept ==
    ASSUME ScanTyped, SwapInv, [Next]_vars
    PROVE  SwapInv'
  <1> USE DEF AboutToMoveOther, Moving, At, Exists
  <1>1. ASSUME NEW path \in Paths, scan_file(path)
        PROVE  SwapInv'
    BY <1>1, SwapInvUntouched DEF scan_file, Answered, world
  <1>2. CASE calculate_hash
    <2>1. CASE Exists(scan.path) /\ KnownMalware(files[scan.path])
                 /\ Conclude("malicious")
      BY <1>2, <2>1, SwapInvUntouched
         DEF calculate_hash, Conclude, IsMoved, KnownMalware, GoTo, ScanTyped, world
    <2>2. CASE GoTo("read")
      BY <1>2, <2>2, SwapInvUntouched DEF calculate_hash, GoTo, ScanTyped, world
    <2> QED
      BY <1>2, <2>1, <2>2 DEF calculate_hash
  <1>3. CASE scan_contents
    <2>1. PICK found : found # "malicious" /\ Conclude(found)
      BY <1>3 DEF scan_contents, Findings
    <2> QED
      BY <1>3, <2>1, SwapInvUntouched DEF scan_contents, Conclude, IsMoved, Answered, world, history
  <1>4. CASE TakeStamp
    BY <1>4, SwapInvUntouched DEF TakeStamp, world, history
  <1>5. CASE _quarantine_file
    BY <1>5, MoveKeepsSwapInv
  <1>6. ASSUME NEW path \in Paths, Change(path)
        PROVE  SwapInv'
    <2>1. UNCHANGED <<quarantine, scan>>
      BY <1>6 DEF Change
    <2>2. CASE Moving /\ path = scan.path
      <3>1. swapped' = swapped + 1
        BY <1>6, <2>2 DEF Change
      <3>2. Exchanged' = Exchanged
        BY <2>1 DEF Exchanged
      <3>3. Cardinality(Exchanged) \in Nat
        BY FS_CardinalityType DEF SwapInv
      <3> QED
        BY <3>1, <3>2, <3>3 DEF SwapInv
    <2>3. CASE ~(Moving /\ path = scan.path)
      <3>1. UNCHANGED swapped
        BY <1>6, <2>3 DEF Change
      <3>2. \A p \in DOMAIN files' \ {path} : p \in DOMAIN files /\ files'[p] = files[p]
        BY <1>6 DEF Change
      <3> QED
        BY <2>1, <2>3, <3>1, <3>2, SwapInvUntouched
    <2> QED
      BY <2>2, <2>3
  <1>7. CASE Tick \/ UNCHANGED vars
    BY <1>7, SwapInvUntouched DEF Tick, vars, world, history
  <1> QED
    BY <1>1, <1>2, <1>3, <1>4, <1>5, <1>6, <1>7 DEF Next, get_status

(* Whatever other programs do between the hash and the move of             *)
(* _quarantine_file (src/fotress.py:293-317), a file that is not known     *)
(* malware gets into the quarantine only by being exchanged just then.     *)
THEOREM QuarantineHoldsMalware == Spec => []OnlyMalwareQuarantined
  <1>1. Init => SwapInv
    <2> SUFFICES ASSUME Init PROVE SwapInv
      OBVIOUS
    <2>1. Exchanged = {} /\ swapped = 0 /\ ~AboutToMoveOther
      BY DEF Init, Exchanged, AboutToMoveOther, Moving, At, Answered
    <2> QED
      BY <2>1, FS_EmptySet DEF SwapInv
  <1>2. SwapInv => OnlyMalwareQuarantined
    BY FS_CardinalityType DEF SwapInv, OnlyMalwareQuarantined, Exchanged
  <1>3. ScanInv => ScanTyped
    BY DEF ScanInv
  <1> QED
    BY <1>1, <1>2, <1>3, SwapInvKept, ScanInvHolds, PTL DEF Spec

-----------------------------------------------------------------------------
(* The scan has the time of a stamp only once the clock was read, and what *)
(* the quarantine gets under that stamp was in a file.                     *)
LEMMA TypesKept ==
    ASSUME TypeOK, [Next]_vars
    PROVE  TypeOK'
  <1>1. ASSUME NEW path \in Paths, scan_file(path)
        PROVE  TypeOK'
    <2>1. Answered(path) \in [at : {"idle", "hash", "read", "text", "quarantine", "move"},
                              path : Paths, stamp : 0 .. MaxTime]
      BY DEF Answered
    <2>2. scan' \in [at : {"idle", "hash", "read", "text", "quarantine", "move"},
                     path : Paths, stamp : 0 .. MaxTime]
      BY <1>1, <2>1 DEF scan_file
    <2>3. result' \in Results \cup {"none"}
      BY <1>1 DEF scan_file, TypeOK, Results
    <2>4. original' \in Contents \cup {"none"}
      BY <1>1 DEF scan_file, TypeOK, Exists
    <2>5. scan_count' \in Nat
      BY <1>1 DEF scan_file, TypeOK
    <2>6. /\ disturbed' = FALSE /\ hash_failed' = FALSE
          /\ UNCHANGED <<files, now, changes, quarantine, threats_detected,
                         files_quarantined, failed_moves, swapped>>
      BY <1>1 DEF scan_file, world
    <2> QED
      BY ONLY TypeOK, <2>2, <2>3, <2>4, <2>5, <2>6 DEF TypeOK
  <1>2. ASSUME NEW found \in Results, Conclude(found)
        PROVE  /\ scan' \in [at : {"idle", "hash", "read", "text", "quarantine", "move"},
                             path : Paths, stamp : 0 .. MaxTime]
               /\ result' \in Results \cup {"none"}
               /\ threats_detected' \in Nat
    BY <1>2 DEF Conclude, IsMoved, GoTo, Answered, TypeOK
  <1>3. CASE calculate_hash
    <2>1. /\ scan' \in [at : {"idle", "hash", "read", "text", "quarantine", "move"},
                        path : Paths, stamp : 0 .. MaxTime]
          /\ result' \in Results \cup {"none"}
          /\ threats_detected' \in Nat
      <3>1. CASE Conclude("malicious")
        BY <1>2, <3>1 DEF Results
      <3>2. CASE GoTo("read") /\ UNCHANGED <<result, threats_detected>>
        BY <3>2 DEF GoTo, TypeOK
      <3> QED
        BY <1>3, <3>1, <3>2 DEF calculate_hash
    <2>2. /\ hash_failed' \in BOOLEAN
          /\ UNCHANGED <<files, now, changes, quarantine, scan_count,
                         files_quarantined, original, disturbed, failed_moves, swapped>>
      BY <1>3 DEF calculate_hash, TypeOK, world
    <2> QED
      BY ONLY TypeOK, <2>1, <2>2 DEF TypeOK
  <1>4. CASE scan_contents
    <2>1. PICK found \in Results : Conclude(found)
      BY <1>4 DEF scan_contents, Findings, Results
    <2>2. UNCHANGED <<files, now, changes, quarantine, scan_count, files_quarantined,
                      original, disturbed, hash_failed, failed_moves, swapped>>
      BY <1>4 DEF scan_contents, world, history
    <2> QED
      BY ONLY TypeOK, <1>2, <2>1, <2>2 DEF TypeOK
  <1>5. CASE TakeStamp
    <2>1. scan' \in [at : {"idle", "hash", "read", "text", "quarantine", "move"},
                     path : Paths, stamp : 0 .. MaxTime]
      BY <1>5 DEF TakeStamp, TypeOK
    <2> QED
      BY <1>5, <2>1 DEF TakeStamp, TypeOK, world, counters, history
  <1>6. CASE _quarantine_file
    <2>1. scan.path \in Paths /\ scan.stamp \in 0 .. MaxTime
      BY DEF TypeOK
    <2>2. scan' \in [at : {"idle", "hash", "read", "text", "quarantine", "move"},
                     path : Paths, stamp : 0 .. MaxTime]
      BY <1>6, <2>1 DEF _quarantine_file, Answered
    <2>3. Target \in [time : 0 .. MaxTime, name : Names]
      BY <2>1 DEF Target
    <2>4. /\ DOMAIN files' \subseteq Paths
          /\ files' \in [DOMAIN files' -> Contents]
          /\ DOMAIN quarantine' \subseteq [time : 0 .. MaxTime, name : Names]
          /\ quarantine' \in [DOMAIN quarantine' -> Contents]
      <3>1. CASE UNCHANGED <<files, quarantine>>
        BY <3>1 DEF TypeOK
      <3>2. CASE /\ Exists(scan.path)
                 /\ quarantine' = [q \in DOMAIN quarantine \cup {Target} |->
                       IF q = Target THEN files[scan.path] ELSE quarantine[q]]
                 /\ files' = [p \in DOMAIN files \ {scan.path} |-> files[p]]
        BY <2>3, <3>2 DEF TypeOK, Exists
      <3> QED
        BY <1>6, <3>1, <3>2 DEF _quarantine_file
    <2>5. /\ result' \in Results /\ files_quarantined' \in Nat /\ failed_moves' \in Nat
          /\ UNCHANGED <<now, changes, scan_count, threats_detected,
                         original, disturbed, hash_failed, swapped>>
      BY <1>6 DEF _quarantine_file, CountMoved, Results, TypeOK
    <2> QED
      BY ONLY TypeOK, <2>2, <2>4, <2>5 DEF TypeOK
  <1>7. ASSUME NEW path \in Paths, Change(path)
        PROVE  TypeOK'
    <2>1. /\ DOMAIN files' \subseteq Paths
          /\ files' \in [DOMAIN files' -> Contents]
      BY <1>7 DEF Change, TypeOK
    <2>2. changes' \in 0 .. MaxChanges
      BY <1>7 DEF Change, TypeOK
    <2>3. swapped' \in Nat
      BY <1>7 DEF Change, TypeOK
    <2>4. disturbed' \in BOOLEAN
      BY <1>7, Zenon DEF Change, TypeOK
    <2>5. UNCHANGED <<now, quarantine, scan, result, scan_count, threats_detected,
                      files_quarantined, original, hash_failed, failed_moves>>
      BY <1>7 DEF Change, counters
    <2> QED
      BY ONLY TypeOK, <2>1, <2>2, <2>3, <2>4, <2>5 DEF TypeOK
  <1>8. CASE Tick
    BY <1>8 DEF Tick, TypeOK, counters, history
  <1>9. CASE UNCHANGED vars
    BY <1>9 DEF TypeOK, vars, world, counters, history
  <1> QED
    BY <1>1, <1>3, <1>4, <1>5, <1>6, <1>7, <1>8, <1>9 DEF Next, get_status

(* Every state of the scanner is of its types: a file lies in the          *)
(* quarantine under the time its own scan read and the name its path ends  *)
(* with (src/fotress.py:299-302), and the scan has a path to go back to.   *)
THEOREM ScannerTypes == Spec => []TypeOK
  <1>1. Init => TypeOK
    <2> SUFFICES ASSUME Init PROVE TypeOK
      OBVIOUS
    <2>1. scan \in [at : {"idle", "hash", "read", "text", "quarantine", "move"},
                    path : Paths, stamp : 0 .. MaxTime]
      BY DEF Init, Answered
    <2>2. /\ DOMAIN quarantine \subseteq [time : 0 .. MaxTime, name : Names]
          /\ quarantine \in [DOMAIN quarantine -> Contents]
      BY DEF Init
    <2>3. /\ DOMAIN files \subseteq Paths
          /\ files \in [DOMAIN files -> Contents]
      BY DEF Init
    <2>4. /\ now \in 0 .. MaxTime /\ changes \in 0 .. MaxChanges
          /\ scan_count \in Nat /\ threats_detected \in Nat
          /\ files_quarantined \in Nat /\ failed_moves \in Nat /\ swapped \in Nat
      BY DEF Init
    <2>5. /\ result \in Results \cup {"none"}
          /\ original \in Contents \cup {"none"}
          /\ disturbed \in BOOLEAN /\ hash_failed \in BOOLEAN
      BY DEF Init
    <2> QED
      BY ONLY <2>1, <2>2, <2>3, <2>4, <2>5 DEF TypeOK
  <1> QED
    BY <1>1, TypesKept, PTL DEF Spec
=============================================================================
