-------------------------- MODULE BookmarksProofs ---------------------------
(***************************************************************************)
(* Proofs about Bookmarks, for all sets of processes and URLs.             *)
(*                                                                         *)
(* A power failure makes anything in disk the file, so what the file must  *)
(* never be, nothing in disk may be, and nothing that a process is about   *)
(* to rename.  IInv follows the content from memory to the temporary file, *)
(* to the directory and to the disk.                                       *)
(***************************************************************************)
EXTENDS Bookmarks, TLAPS

-----------------------------------------------------------------------------
(* The inductive invariant.                                                *)

\* A process inside a toggle saves its collection and has a URL to toggle;
\* once it may rename its temporary file, that one is whole.
ToggleInv ==
    \A p \in Processes :
        /\ pc[p] # "idle" => store[p] = "saved" /\ change[p] \in Urls
        /\ pc[p] = "rename" => temp[p] = Saved(Candidate(p))

\* What a power failure leaves is whole, and the file itself is among it.
DiskInv ==
    /\ file \in disk
    /\ Torn \notin disk
    /\ Bad \in disk => disk = {Bad}

\* Nobody saves to a malformed file.
BadInv == file = Bad => \A p \in Processes : store[p] # "saved"

\* The last one to load or replace the file knows what is in it.
CurrentInv ==
    \A p \in current :
        /\ store[p] = "saved"
        /\ file = NoFile \/ file = Saved(file.urls)
        /\ file.urls = IF pc[p] = "directory" THEN Candidate(p) ELSE urls[p]

IInv ==
    /\ TypeOK
    /\ ToggleInv
    /\ DiskInv
    /\ BadInv
    /\ CurrentInv

\* The four kinds of file are told apart.
LEMMA Kinds ==
    /\ Bad # Torn /\ NoFile # Bad /\ NoFile # Torn
    /\ \A set : Saved(set) # Bad /\ Saved(set) # Torn /\ Saved(set) # NoFile
    /\ \A set : Saved(set).urls = set
    /\ NoFile.urls = {}
  BY DEF Bad, Torn, NoFile, Saved

\* Toggling stays within the URLs.
LEMMA CandidateType ==
    ASSUME TypeOK, NEW p \in Processes, change[p] \in Urls
    PROVE  /\ Candidate(p) \in SUBSET Urls
           /\ Saved(Candidate(p)) \in Files
  <1>1. urls[p] \in SUBSET Urls
    BY DEF TypeOK
  <1>2. Candidate(p) \in SUBSET Urls
    BY <1>1 DEF Candidate, Toggled
  <1> QED
    BY <1>2 DEF Files

LEMMA InitInv == Init => IInv
  <1> SUFFICES ASSUME Init PROVE IInv
    OBVIOUS
  <1>1. TypeOK
    BY DEF Init, TypeOK, Files
  <1>2. ToggleInv
    BY DEF Init, ToggleInv
  <1>3. DiskInv
    BY DEF Init, DiskInv
  <1>4. BadInv
    BY DEF Init, BadInv
  <1>5. CurrentInv
    BY DEF Init, CurrentInv
  <1> QED
    BY <1>1, <1>2, <1>3, <1>4, <1>5 DEF IInv

-----------------------------------------------------------------------------
(* One lemma per action.                                                   *)

LEMMA OpenSavedInv ==
    ASSUME IInv, NEW p \in Processes, OpenSaved(p)
    PROVE  IInv'
  <1> USE DEF IInv
  <1>1. TypeOK'
    <2>1. file.urls \in SUBSET Urls
      BY Kinds DEF TypeOK, Files, OpenSaved, Rejects
    <2> QED
      BY <2>1 DEF TypeOK, OpenSaved
  <1>2. ToggleInv'
    BY DEF ToggleInv, TypeOK, OpenSaved, Candidate
  <1>3. DiskInv'
    BY DEF DiskInv, OpenSaved
  <1>4. BadInv'
    BY DEF BadInv, OpenSaved, Rejects
  <1>5. CurrentInv'
    <2>1. file = NoFile \/ file = Saved(file.urls)
      BY Kinds DEF TypeOK, Files, OpenSaved, Rejects
    <2>2. pc[p] = "idle"
      BY DEF OpenSaved, ToggleInv
    <2> QED
      BY <2>1, <2>2 DEF CurrentInv, TypeOK, OpenSaved, Candidate
  <1> QED
    BY <1>1, <1>2, <1>3, <1>4, <1>5

LEMMA OpenMemoryInv ==
    ASSUME IInv, NEW p \in Processes, OpenMemory(p)
    PROVE  IInv'
  <1> USE DEF IInv
  <1>1. TypeOK'
    BY DEF TypeOK, OpenMemory
  <1>2. ToggleInv'
    BY DEF ToggleInv, TypeOK, OpenMemory, Candidate
  <1>3. DiskInv'
    BY DEF DiskInv, OpenMemory
  <1>4. BadInv'
    BY DEF BadInv, TypeOK, OpenMemory
  <1>5. CurrentInv'
    BY DEF CurrentInv, TypeOK, OpenMemory, Candidate
  <1> QED
    BY <1>1, <1>2, <1>3, <1>4, <1>5

LEMMA ToggleMemoryInv ==
    ASSUME IInv, NEW p \in Processes, NEW url \in Urls, ToggleMemory(p, url)
    PROVE  IInv'
  <1> USE DEF IInv
  <1>1. TypeOK'
    BY DEF TypeOK, ToggleMemory, Toggled
  <1>2. ToggleInv'
    BY DEF ToggleInv, TypeOK, ToggleMemory, Candidate
  <1>3. DiskInv'
    BY DEF DiskInv, ToggleMemory
  <1>4. BadInv'
    BY DEF BadInv, ToggleMemory
  <1>5. CurrentInv'
    BY DEF CurrentInv, TypeOK, ToggleMemory, Candidate
  <1> QED
    BY <1>1, <1>2, <1>3, <1>4, <1>5

LEMMA ToggleStepInv ==
    ASSUME IInv, NEW p \in Processes, NEW url \in Urls, Toggle(p, url)
    PROVE  IInv'
  <1> USE DEF IInv
  <1>1. TypeOK'
    BY DEF TypeOK, Toggle, GoTo
  <1>2. ToggleInv'
    BY DEF ToggleInv, TypeOK, Toggle, At, GoTo, Candidate
  <1>3. DiskInv'
    BY DEF DiskInv, Toggle
  <1>4. BadInv'
    BY DEF BadInv, Toggle
  <1>5. CurrentInv'
    BY DEF CurrentInv, TypeOK, Toggle, At, GoTo, Candidate
  <1> QED
    BY <1>1, <1>2, <1>3, <1>4, <1>5

LEMMA WriteInv ==
    ASSUME IInv, NEW p \in Processes, Write(p)
    PROVE  IInv'
  <1> USE DEF IInv
  <1>1. TypeOK'
    BY DEF TypeOK, Write, GoTo
  <1>2. ToggleInv'
    BY DEF ToggleInv, TypeOK, Write, At, GoTo, Candidate
  <1>3. DiskInv'
    BY DEF DiskInv, Write
  <1>4. BadInv'
    BY DEF BadInv, Write
  <1>5. CurrentInv'
    BY DEF CurrentInv, TypeOK, Write, At, GoTo, Candidate
  <1> QED
    BY <1>1, <1>2, <1>3, <1>4, <1>5

LEMMA FsyncInv ==
    ASSUME IInv, NEW p \in Processes, Fsync(p)
    PROVE  IInv'
  <1> USE DEF IInv
  <1>1. TypeOK'
    <2>1. change[p] \in Urls
      BY DEF ToggleInv, Fsync, At
    <2>2. Saved(Candidate(p)) \in Files
      BY <2>1, CandidateType
    <2> QED
      BY <2>2 DEF TypeOK, Fsync, GoTo
  <1>2. ToggleInv'
    BY DEF ToggleInv, TypeOK, Fsync, At, GoTo, Candidate
  <1>3. DiskInv'
    BY DEF DiskInv, Fsync
  <1>4. BadInv'
    BY DEF BadInv, Fsync
  <1>5. CurrentInv'
    BY DEF CurrentInv, TypeOK, Fsync, At, GoTo, Candidate
  <1> QED
    BY <1>1, <1>2, <1>3, <1>4, <1>5

\* The commit point: what is renamed is whole, and a process that saves had no
\* malformed file to replace.
LEMMA RenameInv ==
    ASSUME IInv, NEW p \in Processes, Rename(p)
    PROVE  IInv'
  <1> USE DEF IInv
  <1> DEFINE new == Saved(Candidate(p))
  <1>1. store[p] = "saved" /\ change[p] \in Urls /\ temp[p] = new
    BY DEF ToggleInv, Rename, At
  <1>2. new \in Files /\ new # Torn /\ new # Bad /\ new.urls = Candidate(p)
    BY <1>1, CandidateType, Kinds
  <1>3. file' = new /\ disk' = disk \cup {new}
    BY <1>1 DEF Rename
  <1>4. Torn \in Files
    BY DEF Files
  <1>5. TypeOK'
    BY <1>2, <1>3, <1>4 DEF TypeOK, Rename, GoTo
  <1>6. ToggleInv'
    BY DEF ToggleInv, TypeOK, Rename, At, GoTo, Candidate
  <1>7. DiskInv'
    <2>1. file # Bad
      BY <1>1 DEF BadInv
    <2>2. Bad \notin disk
      BY <2>1 DEF DiskInv
    <2> QED
      BY <1>2, <1>3, <2>2 DEF DiskInv
  <1>8. BadInv'
    BY <1>2, <1>3 DEF BadInv
  <1>9. CurrentInv'
    <2>1. current' = {p} /\ store' = store /\ pc'[p] = "directory"
      BY DEF Rename, GoTo, TypeOK
    <2>2. Candidate(p)' = Candidate(p)
      BY DEF Rename, Candidate
    <2>3. file'.urls = Candidate(p)' /\ file' = Saved(file'.urls)
      BY <1>2, <1>3, <2>2
    <2> QED
      BY <1>1, <2>1, <2>3 DEF CurrentInv
  <1> QED
    BY <1>5, <1>6, <1>7, <1>8, <1>9

LEMMA CommitInv ==
    ASSUME IInv, NEW p \in Processes, Commit(p)
    PROVE  IInv'
  <1> USE DEF IInv
  <1>1. TypeOK'
    <2>1. change[p] \in Urls
      BY DEF ToggleInv, Commit, At
    <2>2. Candidate(p) \in SUBSET Urls
      BY <2>1, CandidateType
    <2> QED
      BY <2>2 DEF TypeOK, Commit, GoTo
  <1>2. ToggleInv'
    BY DEF ToggleInv, TypeOK, Commit, At, GoTo, Candidate
  <1>3. DiskInv'
    BY DEF DiskInv, Commit
  <1>4. BadInv'
    BY DEF BadInv, Commit
  <1>5. CurrentInv'
    BY DEF CurrentInv, TypeOK, Commit, At, GoTo, Candidate
  <1> QED
    BY <1>1, <1>2, <1>3, <1>4, <1>5

LEMMA FailInv ==
    ASSUME IInv, NEW p \in Processes, Fail(p)
    PROVE  IInv'
  <1> USE DEF IInv
  <1>1. TypeOK'
    BY DEF TypeOK, Fail, GoTo, Files
  <1>2. ToggleInv'
    BY DEF ToggleInv, TypeOK, Fail, GoTo, Candidate
  <1>3. DiskInv'
    BY DEF DiskInv, Fail
  <1>4. BadInv'
    BY DEF BadInv, Fail
  <1>5. CurrentInv'
    BY DEF CurrentInv, TypeOK, Fail, At, GoTo, Candidate
  <1> QED
    BY <1>1, <1>2, <1>3, <1>4, <1>5

LEMMA ExitInv ==
    ASSUME IInv, NEW p \in Processes, Exit(p)
    PROVE  IInv'
  <1> USE DEF IInv
  <1>1. TypeOK'
    BY DEF TypeOK, Exit, GoTo, Files
  <1>2. ToggleInv'
    BY DEF ToggleInv, TypeOK, Exit, GoTo, Candidate
  <1>3. DiskInv'
    BY DEF DiskInv, Exit
  <1>4. BadInv'
    BY DEF BadInv, TypeOK, Exit
  <1>5. CurrentInv'
    BY DEF CurrentInv, TypeOK, Exit, GoTo, Candidate
  <1> QED
    BY <1>1, <1>2, <1>3, <1>4, <1>5

LEMMA PowerFailureInv == IInv /\ PowerFailure => IInv'
  <1> SUFFICES ASSUME IInv, PowerFailure PROVE IInv'
    OBVIOUS
  <1> USE DEF IInv
  <1>1. TypeOK'
    BY DEF TypeOK, PowerFailure, Files
  <1>2. ToggleInv'
    BY DEF ToggleInv, PowerFailure
  <1>3. DiskInv'
    BY DEF DiskInv, PowerFailure
  <1>4. BadInv'
    BY DEF BadInv, PowerFailure
  <1>5. CurrentInv'
    BY DEF CurrentInv, PowerFailure
  <1> QED
    BY <1>1, <1>2, <1>3, <1>4, <1>5

LEMMA StutterInv == IInv /\ UNCHANGED vars => IInv'
  BY DEF IInv, TypeOK, ToggleInv, DiskInv, BadInv, CurrentInv, Candidate, vars

LEMMA NextInv == IInv /\ [Next]_vars => IInv'
  <1> SUFFICES ASSUME IInv, [Next]_vars PROVE IInv'
    OBVIOUS
  <1>1. ASSUME NEW p \in Processes, Process(p) PROVE IInv'
    BY <1>1, OpenSavedInv, OpenMemoryInv, ToggleMemoryInv, ToggleStepInv,
       WriteInv, FsyncInv, RenameInv, CommitInv, FailInv, ExitInv DEF Process
  <1> QED
    BY <1>1, PowerFailureInv, StutterInv DEF Next

-----------------------------------------------------------------------------
(* The theorems.                                                           *)

\* The invariant holds in every reachable state, of any number of processes.
THEOREM Inductive == Spec => []IInv
  BY InitInv, NextInv, PTL DEF Spec

\* The types of Bookmarks, in every state.
THEOREM TypeCorrect == Spec => []TypeOK
  <1>1. IInv => TypeOK
    BY DEF IInv
  <1> QED
    BY <1>1, Inductive, PTL

\* Through kills, failed calls and power failures the bookmarks file is whole,
\* or the malformed one that was there from the start.
THEOREM CrashSafety == Spec => []StoreStaysReadable
  <1>1. IInv => StoreStaysReadable
    BY DEF IInv, DiskInv, StoreStaysReadable
  <1> QED
    BY <1>1, Inductive, PTL

\* A toggle that fails leaves collection and file unchanged, and one that
\* returns has changed both in the same way.
THEOREM MemoryFollowsFile == Spec => []MemoryMatchesFile
  <1>1. IInv => MemoryMatchesFile
    BY DEF IInv, CurrentInv, MemoryMatchesFile
  <1> QED
    BY <1>1, Inductive, PTL

\* No step of a process and no power failure changes a malformed file.
THEOREM BadFileStays == Spec => BadFileIsKept
  <1>1. IInv /\ [Next]_vars => [file = Bad => file' = Bad]_vars
    <2> SUFFICES ASSUME IInv, Next, file = Bad PROVE file' = Bad
      OBVIOUS
    <2>1. \A p \in Processes : store[p] # "saved"
      BY DEF IInv, BadInv
    <2>2. disk = {Bad}
      BY DEF IInv, DiskInv
    <2>3. ASSUME NEW p \in Processes, Process(p) PROVE file' = file
      BY <2>1, <2>3 DEF Process, OpenSaved, OpenMemory, ToggleMemory, Toggle,
         Write, Fsync, Rename, Commit, Fail, Exit, At
    <2>4. PowerFailure => file' = Bad
      BY <2>2 DEF PowerFailure
    <2> QED
      BY <2>3, <2>4 DEF Next
  <1> QED
    BY <1>1, Inductive, PTL DEF Spec, BadFileIsKept
=============================================================================
