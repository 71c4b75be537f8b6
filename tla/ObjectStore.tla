----------------------------- MODULE ObjectStore -----------------------------
(***************************************************************************)
(* The append-only, content-addressed files of RawObjectStoreV1 and        *)
(* ParquetStoreV1: a file is named by the hash of its content, created     *)
(* with O_EXCL and then written; whoever finds it there compares it with   *)
(* what it wants to store.  Processes of one data directory store at the   *)
(* same time, and one may stop between creating a file and writing it.     *)
(***************************************************************************)

CONSTANTS
    Storer,  \* the processes that store
    Content

VARIABLES
    files,   \* content -> "absent", "partial" or "complete"
    writing, \* storer -> the contents whose file it created and is writing
    stored   \* history: the contents a reference was returned for

objectVars == <<files, writing, stored>>

ObjectTypeOK ==
    /\ files \in [Content -> {"absent", "partial", "complete"}]
    /\ writing \in [Storer -> SUBSET Content]
    /\ stored \subseteq Content

ObjectInit ==
    /\ files = [x \in Content |-> "absent"]
    /\ writing = [p \in Storer |-> {}]
    /\ stored = {}

\* os.open() with O_EXCL: the file is there, and empty.
CreateObject(p, x) ==
    /\ writing[p] = {}
    /\ files[x] = "absent"
    /\ files' = [files EXCEPT ![x] = "partial"]
    /\ writing' = [writing EXCEPT ![p] = {x}]
    /\ UNCHANGED stored

\* write(), flush() and fsync(), and the reference is returned.
WriteObject(p, x) ==
    /\ x \in writing[p]
    /\ files' = [files EXCEPT ![x] = "complete"]
    /\ writing' = [writing EXCEPT ![p] = {}]
    /\ stored' = stored \cup {x}

FileExists(x) == files[x] # "absent"

\* _verifyExisting(): the bytes of the existing file hash to its name.
ExistingMatches(x) == files[x] = "complete"

\* FileExistsError: the file is reused if it holds the same bytes, else refused,
\* which changes nothing; a file another process is still writing is refused too.
ReuseObject(p, x) ==
    /\ writing[p] = {}
    /\ ExistingMatches(x)
    /\ stored' = stored \cup {x}
    /\ UNCHANGED <<files, writing>>

\* The process stops, or its write fails: the file stays as it is.
StopWriting(p) ==
    /\ writing[p] # {}
    /\ writing' = [writing EXCEPT ![p] = {}]
    /\ UNCHANGED <<files, stored>>

ObjectNext == \E p \in Storer :
    \/ StopWriting(p)
    \/ \E x \in Content : CreateObject(p, x) \/ WriteObject(p, x) \/ ReuseObject(p, x)

ObjectSpec == ObjectInit /\ [][ObjectNext]_objectVars

-----------------------------------------------------------------------------
\* A reference that storeBytes() or storeBars() returned is good for ever: the file
\* it names holds the whole content, though another process may have created it,
\* and may have stopped before it was written.
ObjectStored == \A x \in stored : files[x] = "complete"
=============================================================================
