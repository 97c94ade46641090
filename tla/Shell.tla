------------------------------- MODULE Shell -------------------------------
(***************************************************************************)
(* The shell of src/shell.py on its simulated file system: cd, mkdir and   *)
(* touch.  The other commands change nothing; rm, rmdir, cp and mv only    *)
(* say that they do.                                                       *)
(*                                                                         *)
(* A path is the sequence of the pieces its text is put together from: the *)
(* drive, slashes and names.  Paths are concatenated without a slash       *)
(* between them, as in the code: mkdir sub in /bin makes "C:/binsub".      *)
(***************************************************************************)
EXTENDS Integers, SequencesExt

CONSTANTS
    Paths,              \* arguments of commands, with names, "/", ".." and "."
    InitialChildren,    \* known directory -> its entries
    InitialFiles,
    MaxPath, MaxNew     \* bounds: pieces of the current path, new entries

ASSUME ShellAssumption ==
    /\ Paths \subseteq Seq(STRING) /\ \A path \in Paths : path # <<>>
    /\ InitialChildren = [d \in DOMAIN InitialChildren |-> InitialChildren[d]]
    /\ MaxPath \in Nat /\ MaxNew \in Nat

VARIABLES
    current_dir,        \* the shell's, shown in the prompt
    current_path,       \* the file system's
    directories,        \* full path -> its children
    files,              \* full paths; contents are left out
    expected            \* files that ls of their directory should show

shellVars == <<current_dir, current_path, directories, files, expected>>

Slash == "/"
Root == <<Slash>>
current_drive == <<"C:">>
home_dir == <<Slash, "home", Slash, "admin">>

ShellInit ==
    /\ current_dir = home_dir
    /\ current_path = Root
    /\ directories = InitialChildren
    /\ files = InitialFiles
    /\ expected = {}

-----------------------------------------------------------------------------
(* What is before and after the last slash. *)
LastSlash(path) == SelectLastInSeq(path, LAMBDA piece : piece = Slash)

Parent(path) == SubSeq(path, 1, LastSlash(path) - 1)

Filename(path) == SubSeq(path, LastSlash(path) + 1, Len(path))

Rstrip(path) ==
    SubSeq(path, 1, SelectLastInSeq(path, LAMBDA piece : piece # Slash))

Strip(path) ==
    LET first == SelectInSeq(path, LAMBDA piece : piece # Slash)
    IN  IF first = 0 THEN <<>> ELSE Rstrip(SubSeq(path, first, Len(path)))

(* Mutated form: what is before the last slash is the parent. *)
UpAsItIs(path) == IF path = Root THEN Root ELSE Parent(Strip(path))

Up(path) ==
    LET up == Parent(Strip(path))
    IN  IF path = Root THEN Root
        ELSE IF up # <<>> /\ Head(up) = Slash THEN up ELSE Root \o up

FullPath(path) == current_drive \o current_path \o path

-----------------------------------------------------------------------------
(* change_directory: what becomes of the current path.  A directory that   *)
(* is known need not be the one that the new path names.                   *)
ChangesDirectory(path) ==
    path \in {<<"..">>, Root, <<".">>} \/ FullPath(path) \in DOMAIN directories

NewPath(path) ==
    CASE path = <<"..">> -> Up(current_path)
      [] path = Root     -> Root
      [] path = <<".">>  -> current_path
      [] OTHER           -> Rstrip(current_path) \o Root \o path

cmd_cd(path) ==
    /\ ChangesDirectory(path) => Len(NewPath(path)) <= MaxPath
    /\ current_path' = IF ChangesDirectory(path) THEN NewPath(path) ELSE current_path
    /\ current_dir' = IF ChangesDirectory(path) THEN current_drive \o current_path'
                                                ELSE current_dir
    /\ UNCHANGED <<directories, files, expected>>

(* Without an argument the file system's path stays behind. *)
cmd_cd_home ==
    /\ current_dir' = home_dir
    /\ UNCHANGED <<current_path, directories, files, expected>>

(* The directory of an entry lists it when it is known; for an entry of    *)
(* the root it is looked up without its slash and never is.                *)
WithChild(known, directory, child) ==
    IF directory \in DOMAIN known
      THEN [known EXCEPT ![directory] = @ \cup {child}]
      ELSE known

(* Mutated form: the whole argument is listed, as for a directory. *)
ListedWhole(path) == path

ListedAs(path) == Filename(FullPath(path))

cmd_touch(path) ==
    LET full == FullPath(path)
    IN  /\ Cardinality(files \ InitialFiles) < MaxNew \/ full \in files
        /\ files' = files \cup {full}
        /\ directories' = WithChild(directories, Parent(full), ListedAs(path))
        /\ expected' = IF Parent(full) \in DOMAIN directories THEN expected \cup {full}
                                                              ELSE expected
        /\ UNCHANGED <<current_dir, current_path>>

(* A directory that existed loses its children. *)
cmd_mkdir(path) ==
    LET full  == FullPath(path)
        known == [d \in DOMAIN directories \cup {full} |->
                    IF d = full THEN {} ELSE directories[d]]
    IN  /\ \/ Cardinality(DOMAIN directories \ DOMAIN InitialChildren) < MaxNew
           \/ full \in DOMAIN directories
        /\ directories' = WithChild(known, Parent(full), path)
        /\ expected' = {file \in expected : Parent(file) # full}
        /\ UNCHANGED <<current_dir, current_path, files>>

ShellNext ==
    \/ \E path \in Paths : cmd_cd(path) \/ cmd_touch(path) \/ cmd_mkdir(path)
    \/ cmd_cd_home

ShellSpec == ShellInit /\ [][ShellNext]_shellVars

-----------------------------------------------------------------------------
(* A file made in a directory that was known then is listed there until    *)
(* the directory is made anew, whatever the current path has become and    *)
(* however the file was named.                                             *)
FilesListed ==
    \A file \in expected : Filename(file) \in directories[Parent(file)]

(* The current path is absolute, and cd .. shortens it until it is the     *)
(* root, also from a path that names no directory.                         *)
UpLeadsToRoot ==
    /\ current_path # <<>> /\ Head(current_path) = Slash
    /\ current_path # Root => Len(Up(current_path)) < Len(current_path)
=============================================================================
