------------------------------ MODULE FileHandles ------------------------------
(* FileManager and the APOS file calls of one process, from the fork in which   *)
(* Process::launch opens files, over execve, to the application's threads.      *)
(*                                                                              *)
(* A member of Files is what indexOf compares: a name, a file type and a use    *)
(* option.  Handles are numbers of PrivateIdManager, whose counter lives in the *)
(* environment, as the list of handles does during execve.                      *)
EXTENDS Integers, FiniteSets, FiniteSetsExt, Functions

CONSTANTS Threads, Main,        \* threads of the program; the only one before execve
          Files, FilesOf,       \* files; those a thread uses
          Regular,              \* the files that are no shared memory or queue
          Closed,               \* a free entry of the descriptor table
          MaxFiles,             \* OS_MAX_NUMBER_OF_LOCAL_FILES
          MaxDescriptors,       \* descriptors a process can have
          MaxIds,               \* bounds PrivateIdManager's counter
          Reopening             \* threads open what they have open

FilesAssumption ==
    /\ Main \in Threads /\ Regular \subseteq Files
    /\ FilesOf \in [Threads -> SUBSET Files]
    /\ Closed \notin [file : Files, cloexec : BOOLEAN]
    /\ MaxDescriptors \in Nat

VARIABLES activity,             \* LAS_PROCESS_INIT, LAS_PROCESS, or the end
          existing,             \* files in the file system
          descriptors,          \* number |-> [file, cloexec] or Closed
          files,                \* m_FileInfoList: handle |-> [file, fd]
          counter,              \* OS_ENV_PRIVATEID_COUNTER
          thread                \* what each thread is doing

vars == <<activity, existing, descriptors, files, counter, thread>>

Idle == [at |-> "idle"]
Numbers == 1 .. MaxDescriptors
Handles == DOMAIN files
Sorted(h) == Cardinality({g \in Handles : g < h})

Init ==
    /\ activity = "PROCESS_INIT"
    /\ existing = {}
    /\ descriptors = [d \in Numbers |-> Closed]
    /\ files = <<>>
    /\ counter = 0
    /\ thread = [t \in Threads |-> Idle]

Running(t) == activity = "PROCESS" \/ (activity = "PROCESS_INIT" /\ t = Main)
Starts(t) == Running(t) /\ thread[t] = Idle
Goes(t, p) == thread' = [thread EXCEPT ![t] = p]

(* createFile, createSharedMemory and createMessageQueue close what they open.  *)
create(t) ==
    /\ Starts(t)
    /\ \E f \in FilesOf[t] \ existing : existing' = existing \cup {f}
    /\ UNCHANGED <<activity, descriptors, files, counter, thread>>

(* deleteFile removes an empty name and fails; the other two unlink.            *)
delete(t) ==
    /\ Starts(t)
    /\ \E f \in (FilesOf[t] \cap existing) \ Regular : existing' = existing \ {f}
    /\ UNCHANGED <<activity, descriptors, files, counter, thread>>

(* openFile, openSharedMemory and openMessageQueue: the index of an open file   *)
(* of that name is searched under the semaphore and turned into a handle after  *)
(* it; without one the file is opened and listed.                               *)
indexOf(f) == {Sorted(h) : h \in {g \in Handles : files[g].file = f}}

open(t) ==
    /\ Starts(t)
    /\ \E f \in FilesOf[t] :
        /\ Reopening \/ activity = "PROCESS_INIT" \/ indexOf(f) = {}
        /\ Goes(t, IF indexOf(f) = {} THEN [at |-> "open", file |-> f]
                                      ELSE [at |-> "idOf", file |-> f, index |-> Min(indexOf(f))])
    /\ UNCHANGED <<activity, existing, descriptors, files, counter>>

idOf(t) ==
    /\ Running(t) /\ thread[t].at = "idOf"
    /\ Goes(t, Idle)
    /\ UNCHANGED <<activity, existing, descriptors, files, counter>>

\* an implementation that relies on open() for the flags
Bug_setDefaultFlags(f) == [file |-> f, cloexec |-> f \notin Regular]

(* shm_open() and mq_open() set the flag, setDefaultFlagsToPosixHandle() clears *)
(* it with all others.                                                          *)
setDefaultFlags(f) == [file |-> f, cloexec |-> FALSE]

Free == {d \in Numbers : descriptors[d] = Closed}

opens(t) ==
    /\ Running(t) /\ thread[t].at = "open"
    /\ IF thread[t].file \in existing /\ Free # {}
       THEN LET d == Min(Free) IN
            /\ descriptors' = [descriptors EXCEPT ![d] = setDefaultFlags(thread[t].file)]
            /\ Goes(t, [at |-> "store", file |-> thread[t].file, fd |-> d])
       ELSE Goes(t, Idle) /\ UNCHANGED descriptors
    /\ UNCHANGED <<activity, existing, files, counter>>

\* an implementation whose error path forgets the descriptor
Bug_Discarded(d) == descriptors

(* A list that is full refuses the handle and the descriptor is closed again.   *)
Discarded(d) == [descriptors EXCEPT ![d] = Closed]

storeFileData(t) ==
    /\ Running(t) /\ thread[t].at = "store"
    /\ counter < MaxIds
    /\ counter' = counter + 1
    /\ IF Cardinality(Handles) < MaxFiles
       THEN /\ files' = [h \in Handles \cup {counter'} |-> IF h = counter'
                           THEN [file |-> thread[t].file, fd |-> thread[t].fd] ELSE files[h]]
            /\ UNCHANGED descriptors
       ELSE descriptors' = Discarded(thread[t].fd) /\ UNCHANGED files
    /\ Goes(t, Idle)
    /\ UNCHANGED <<activity, existing>>

(* readFile, writeFile, seekFile and mapFile copy the entry, then use the       *)
(* descriptor; closeFile does so too, and does nothing before execve.           *)
getFileData(t) ==
    /\ Starts(t)
    /\ \E h \in {g \in Handles : files[g].file \in FilesOf[t]}, u \in {"use", "close"} :
        /\ u = "close" => activity = "PROCESS"
        /\ Goes(t, [at |-> u, handle |-> h, file |-> files[h].file, fd |-> files[h].fd])
    /\ UNCHANGED <<activity, existing, descriptors, files, counter>>

use(t) ==
    /\ Running(t) /\ thread[t].at = "use"
    /\ Goes(t, Idle)
    /\ UNCHANGED <<activity, existing, descriptors, files, counter>>

closeFile(t) ==
    /\ Running(t) /\ thread[t].at = "close"
    /\ IF descriptors[thread[t].fd] = Closed
       THEN Goes(t, Idle) /\ UNCHANGED descriptors
       ELSE /\ descriptors' = [descriptors EXCEPT ![thread[t].fd] = Closed]
            /\ Goes(t, [at |-> "release", handle |-> thread[t].handle])
    /\ UNCHANGED <<activity, existing, files, counter>>

releaseFileData(t) ==
    /\ Running(t) /\ thread[t].at = "release"
    /\ files' = [h \in Handles \ {thread[t].handle} |-> files[h]]
    /\ Goes(t, Idle)
    /\ UNCHANGED <<activity, existing, descriptors, counter>>

(* What an application may call at any time.                                    *)
Call(t) == create(t) \/ delete(t) \/ open(t) \/ getFileData(t)

(* executeFile: deinitialize() writes the list to the environment, execve()     *)
(* closes the flagged descriptors, and the constructor of the FileManager of    *)
(* the new program reads the list.  When execve() fails the same program does.  *)
Written == [h \in Handles |-> files[h]]
Restored(list) == list
Kept == [d \in Numbers |-> IF descriptors[d] # Closed /\ descriptors[d].cloexec
                           THEN Closed ELSE descriptors[d]]

executeFile ==
    /\ activity = "PROCESS_INIT" /\ thread[Main] = Idle
    /\ \E succeeds \in BOOLEAN :
        /\ activity' = IF succeeds THEN "PROCESS" ELSE activity
        /\ descriptors' = IF succeeds THEN Kept ELSE descriptors
    /\ files' = Restored(Written)
    /\ UNCHANGED <<existing, counter, thread>>

(* closeAllFiles, when OpenOS is deinitialized after the threads have ended:    *)
(* closes the first file of the list until there is none.                       *)
closeAllFiles ==
    /\ activity = "PROCESS" /\ \A t \in Threads : thread[t] = Idle
    /\ descriptors' = [d \in Numbers |->
            IF \E h \in Handles : files[h].fd = d THEN Closed ELSE descriptors[d]]
    /\ files' = <<>>
    /\ activity' = "END"
    /\ UNCHANGED <<existing, counter, thread>>

Next ==
    \/ \E t \in Threads :
        \/ Call(t)
        \/ idOf(t) \/ opens(t) \/ storeFileData(t) \/ use(t) \/ closeFile(t) \/ releaseFileData(t)
    \/ executeFile \/ closeAllFiles

Spec == Init /\ [][Next]_vars

--------------------------------------------------------------------------------
TypeOK ==
    /\ activity \in {"PROCESS_INIT", "PROCESS", "END"}
    /\ existing \subseteq Files
    /\ descriptors \in [Numbers -> [file : Files, cloexec : BOOLEAN] \cup {Closed}]
    /\ files \in [Handles -> [file : Files, fd : Numbers]] /\ Handles \subseteq 1 .. MaxIds
    /\ counter \in 0 .. MaxIds

(* The handles and the open descriptors tell the same story: a descriptor that  *)
(* no call is about to list or to release is listed, and a listed one is open   *)
(* for the file of its handle, before and after execve (FileManager.hh: handles *)
(* can be held across the transition).                                          *)
InHand == {thread[t].fd : t \in {u \in Threads : thread[u].at = "store"}}
Releasing == {thread[t].handle : t \in {u \in Threads : thread[u].at = "release"}}

ListIsExact ==
    /\ \A d \in Numbers : descriptors[d] # Closed =>
            d \in InHand \/ \E h \in Handles \ Releasing : files[h].fd = d
    /\ \A h \in Handles \ Releasing :
            /\ descriptors[files[h].fd] # Closed
            /\ descriptors[files[h].fd].file = files[h].file

(* A call works on the file it was called for, although it has given up the     *)
(* semaphore between looking the index or the descriptor up and using it.       *)
UsesItsFile ==
    /\ \A t \in Threads : thread[t].at = "idOf" =>
        \E h \in Handles : Sorted(h) = thread[t].index /\ files[h].file = thread[t].file
    /\ \A t \in Threads : thread[t].at \in {"use", "close"} =>
        /\ descriptors[thread[t].fd] # Closed
        /\ descriptors[thread[t].fd].file = thread[t].file

================================================================================
