----------------------------- MODULE Bookmarks ------------------------------
(***************************************************************************)
(* The bookmarks of the user, kept in one file that every tai process      *)
(* loads once and replaces on each toggle (src/bookmarks.c).               *)
(*                                                                         *)
(* A replacement is a sequence of system calls, any of which may fail; a   *)
(* process may be killed and the machine may lose power between any two.   *)
(* A file that was not fsynced may be torn after a power failure even if   *)
(* it was renamed; a rename is only safe once its directory was fsynced.   *)
(*                                                                         *)
(* Abstracted: the order of the collection, which is a set of URLs here,   *)
(* and the bytes of the file, of which such a set is what load_file takes. *)
(***************************************************************************)
EXTENDS Naturals

CONSTANTS
    Processes,  \* the tai processes that can run
    Urls,       \* the URLs that valid_url accepts
    None        \* no URL

ASSUME BookmarksAssumption == None \notin Urls

\* A file and what load_file makes of it: a file that does not exist is empty,
\* and one that is bad, or torn since not all of it reached the disk, is
\* rejected.
NoFile == [kind |-> "none", urls |-> {}]
Bad == [kind |-> "bad", urls |-> {}]
Torn == [kind |-> "torn", urls |-> {}]
Saved(set) == [kind |-> "saved", urls |-> set]
Files == {NoFile, Bad, Torn} \cup {Saved(set) : set \in SUBSET Urls}

VARIABLES
    file,       \* what the path names
    disk,       \* what it may name after a power failure
    store,      \* "off", "saved" (bookmarks->path is set) or "memory"
    urls,       \* bookmarks->urls
    pc,         \* tai_bookmarks_toggle and persist_candidate
    change,     \* the URL it toggles
    temp,       \* what the temporary file is sure to hold after a power failure
    current     \* auxiliary: the processes that loaded or wrote the file last

vars == <<file, disk, store, urls, pc, change, temp, current>>

TypeOK ==
    /\ file \in Files
    /\ disk \in SUBSET Files
    /\ store \in [Processes -> {"off", "saved", "memory"}]
    /\ urls \in [Processes -> SUBSET Urls]
    /\ pc \in [Processes -> {"idle", "write", "fsync", "rename", "directory"}]
    /\ change \in [Processes -> Urls \cup {None}]
    /\ temp \in [Processes -> Files]
    /\ current \subseteq Processes

Init ==
    /\ file \in Files \ {Torn}
    /\ disk = {file}
    /\ store = [p \in Processes |-> "off"]
    /\ urls = [p \in Processes |-> {}]
    /\ pc = [p \in Processes |-> "idle"]
    /\ change = [p \in Processes |-> None]
    /\ temp = [p \in Processes |-> Torn]
    /\ current = {}

-----------------------------------------------------------------------------
(* tai_browser_app_create.                                                 *)

RejectsNothing == FALSE
\* load_file says that the file is malformed.
Rejects == file \in {Bad, Torn}

\* tai_bookmarks_open_default succeeds: the collection has a path.
OpenSaved(p) ==
    /\ store[p] = "off"
    /\ ~Rejects
    /\ store' = [store EXCEPT ![p] = "saved"]
    /\ urls' = [urls EXCEPT ![p] = file.urls]
    /\ current' = current \cup {p}
    /\ UNCHANGED <<file, disk, pc, change, temp>>

\* It fails, because of the file or for another reason; the app keeps the
\* collection in memory that it started with.
OpenMemory(p) ==
    /\ store[p] = "off"
    /\ store' = [store EXCEPT ![p] = "memory"]
    /\ urls' = [urls EXCEPT ![p] = {}]
    /\ UNCHANGED <<file, disk, pc, change, temp, current>>

-----------------------------------------------------------------------------
(* tai_bookmarks_toggle.                                                   *)

Toggled(set, url) == IF url \in set THEN set \ {url} ELSE set \cup {url}

\* What persist_candidate writes and the collection becomes.
Candidate(p) == Toggled(urls[p], change[p])

At(p, place) == store[p] = "saved" /\ pc[p] = place
GoTo(p, place) == pc' = [pc EXCEPT ![p] = place]

\* A collection without a path changes at once.
ToggleMemory(p, url) ==
    /\ store[p] = "memory"
    /\ urls' = [urls EXCEPT ![p] = Toggled(@, url)]
    /\ UNCHANGED <<file, disk, store, pc, change, temp, current>>

EagerToggle(p, url) ==
    /\ At(p, "idle")
    /\ change' = [change EXCEPT ![p] = url]
    /\ urls' = [urls EXCEPT ![p] = Toggled(@, url)]
    /\ GoTo(p, "write")
    /\ UNCHANGED <<file, disk, store, temp, current>>

\* A toggle up to mkstemp; one that fails before has changed nothing.
Toggle(p, url) ==
    /\ At(p, "idle")
    /\ change' = [change EXCEPT ![p] = url]
    /\ GoTo(p, "write")
    /\ UNCHANGED <<file, disk, store, urls, temp, current>>

\* The temporary file is written...
Write(p) ==
    /\ At(p, "write")
    /\ GoTo(p, "fsync")
    /\ UNCHANGED <<file, disk, store, urls, change, temp, current>>

SkipFsync(p) ==
    /\ At(p, "fsync")
    /\ GoTo(p, "rename")
    /\ UNCHANGED <<file, disk, store, urls, change, temp, current>>

\* ...fsynced and closed...
Fsync(p) ==
    /\ At(p, "fsync")
    /\ temp' = [temp EXCEPT ![p] = Saved(Candidate(p))]
    /\ GoTo(p, "rename")
    /\ UNCHANGED <<file, disk, store, urls, change, current>>

\* ...and renamed: the commit point.
Rename(p) ==
    /\ At(p, "rename")
    /\ file' = Saved(Candidate(p))
    /\ disk' = disk \cup {temp[p]}
    /\ temp' = [temp EXCEPT ![p] = Torn]
    /\ current' = {p}
    /\ GoTo(p, "directory")
    /\ UNCHANGED <<store, urls, change>>

\* The directory is fsynced, whatever comes of it, and the collection changes.
Commit(p) ==
    /\ At(p, "directory")
    /\ disk' \in {disk, {file}}
    /\ urls' = [urls EXCEPT ![p] = Candidate(p)]
    /\ change' = [change EXCEPT ![p] = None]
    /\ GoTo(p, "idle")
    /\ UNCHANGED <<file, store, temp, current>>

\* A call before the commit point fails: the temporary file is unlinked and
\* the toggle returns false.
Fail(p) ==
    /\ \E place \in {"write", "fsync", "rename"} : At(p, place)
    /\ change' = [change EXCEPT ![p] = None]
    /\ temp' = [temp EXCEPT ![p] = Torn]
    /\ GoTo(p, "idle")
    /\ UNCHANGED <<file, disk, store, urls, current>>

-----------------------------------------------------------------------------
(* The environment.                                                        *)

\* A process exits or is killed, at any moment; nobody reads the temporary file
\* it may leave.
Exit(p) ==
    /\ store[p] # "off"
    /\ store' = [store EXCEPT ![p] = "off"]
    /\ urls' = [urls EXCEPT ![p] = {}]
    /\ GoTo(p, "idle")
    /\ change' = [change EXCEPT ![p] = None]
    /\ temp' = [temp EXCEPT ![p] = Torn]
    /\ current' = current \ {p}
    /\ UNCHANGED <<file, disk>>

PowerFailure ==
    /\ file' \in disk
    /\ disk' = {file'}
    /\ store' = [p \in Processes |-> "off"]
    /\ urls' = [p \in Processes |-> {}]
    /\ pc' = [p \in Processes |-> "idle"]
    /\ change' = [p \in Processes |-> None]
    /\ temp' = [p \in Processes |-> Torn]
    /\ current' = {}

Process(p) ==
    \/ OpenSaved(p) \/ OpenMemory(p)
    \/ \E url \in Urls : ToggleMemory(p, url) \/ Toggle(p, url)
    \/ Write(p) \/ Fsync(p) \/ Rename(p) \/ Commit(p) \/ Fail(p)
    \/ Exit(p)

Next == (\E p \in Processes : Process(p)) \/ PowerFailure

Spec == Init /\ [][Next]_vars

-----------------------------------------------------------------------------
(* Properties.                                                             *)

\* "Malformed files are never overwritten" (include/tai/bookmarks.h), nor is
\* one made: whatever fails and whenever the power does, the file and every
\* file that a power failure may bring back is whole, or the malformed one the
\* user had and nobody has touched.
StoreStaysReadable ==
    /\ file # Torn /\ Torn \notin disk
    /\ Bad \in disk => file = Bad /\ disk = {Bad}

\* A malformed file stays what it is.
BadFileIsKept == [][file = Bad => file' = Bad]_vars

\* "A failed write leaves both unchanged" (docs/architecture/native-runtime.md):
\* as long as no other process replaced the file, the collection is what the
\* file holds, at every step of a toggle but between the commit point and the
\* end of the call.
MemoryMatchesFile ==
    \A p \in current :
        store[p] = "saved" /\ pc[p] # "directory" => urls[p] = file.urls
=============================================================================
