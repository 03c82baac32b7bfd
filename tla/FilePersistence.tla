--------------------------- MODULE FilePersistence ---------------------------
(***************************************************************************)
(* internal/store/file_persistence.go: SaveState writes three files one     *)
(* after another, LoadState reads them one after another.  The mutex is     *)
(* held for one file at a time.  os.WriteFile truncates the file before it  *)
(* writes; the process may crash, or the write fail, in between.  A file    *)
(* holds the number of the SaveState call whose data it has.               *)
(***************************************************************************)
EXTENDS Naturals

CONSTANTS
    Savers,     \* goroutines that call SaveState
    Loaders,    \* goroutines that call LoadState
    MaxSaves,   \* bound: calls of SaveState
    Torn        \* a file that was truncated and not written to its end

ASSUME FilesAssumption == MaxSaves \in Nat /\ Torn \notin Nat

VARIABLES
    file,       \* what is on disk
    damaged,    \* the files whose last write did not get to its end
    saves,      \* the calls of SaveState so far
    saver,      \* what each saver is doing
    loader,     \* what each loader is doing, and what its last call returned
    lastSave,   \* the last SaveState that returned nil and overlapped with no other
    ordered     \* no two calls of SaveState have overlapped since it began

fileVars == <<file, damaged, saves, saver, loader, lastSave, ordered>>

-----------------------------------------------------------------------------
\* logs.json, rules.json and alerts.json, in the order they are saved.
Files == 1..3

\* 0: there is no file, or no call.
Numbers == 0..MaxSaves

\* "next" is the file at hand, 0 between two calls; "writing": it is truncated
\* and the mutex is held.
Saver == [next : 0..3, writing : BOOLEAN, state : Numbers, alone : BOOLEAN]
IdleSaver == [next |-> 0, writing |-> FALSE, state |-> 0, alone |-> FALSE]

\* "quiet": no SaveState has run since the LoadState began.  "corrupt" and
\* "unreadable" are the errors of json.Unmarshal and of os.ReadFile.
Loader == [next : 0..3, got : [Files -> Numbers],
           outcome : {"none", "loaded", "corrupt", "unreadable"}, quiet : BOOLEAN]
IdleLoader == [next |-> 0, got |-> [f \in Files |-> 0], outcome |-> "none", quiet |-> FALSE]

FilesInit ==
    /\ file = [f \in Files |-> 0]
    /\ damaged = {}
    /\ saves = 0
    /\ saver = [s \in Savers |-> IdleSaver]
    /\ loader = [l \in Loaders |-> IdleLoader]
    /\ lastSave = 0
    /\ ordered = TRUE

NobodySaves == \A s \in Savers : saver[s].next = 0

FilesUnlocked == \A s \in Savers : ~saver[s].writing

-----------------------------------------------------------------------------
SaveState(s) ==
    /\ saver[s].next = 0
    /\ saves < MaxSaves
    /\ saves' = saves + 1
    /\ saver' = [t \in Savers |->
                    IF t = s THEN [next |-> 1, writing |-> FALSE, state |-> saves + 1,
                                   alone |-> NobodySaves]
                             ELSE [saver[t] EXCEPT !.alone = FALSE]]
    /\ loader' = [l \in Loaders |-> [loader[l] EXCEPT !.quiet = FALSE]]
    /\ ordered' = (ordered /\ NobodySaves)
    /\ UNCHANGED <<file, damaged, lastSave>>

\* Lock, and os.WriteFile opens the file with O_TRUNC.
OpenFile(s) ==
    /\ saver[s].next # 0
    /\ FilesUnlocked
    /\ saver' = [saver EXCEPT ![s].writing = TRUE]
    /\ file' = [file EXCEPT ![saver[s].next] = Torn]
    /\ UNCHANGED <<damaged, saves, loader, lastSave, ordered>>

\* SaveLogs, SaveRules or SaveAlerts returns nil; after the last of them
\* SaveState does.
WriteFile(s) ==
    /\ saver[s].writing
    /\ file' = [file EXCEPT ![saver[s].next] = saver[s].state]
    /\ damaged' = damaged \ {saver[s].next}
    /\ IF saver[s].next = 3
          THEN /\ saver' = [saver EXCEPT ![s] = IdleSaver]
               /\ lastSave' = IF saver[s].alone THEN saver[s].state ELSE lastSave
               /\ ordered' = (ordered \/ saver[s].alone)
          ELSE /\ saver' = [saver EXCEPT ![s].writing = FALSE, ![s].next = @ + 1]
               /\ UNCHANGED <<lastSave, ordered>>
    /\ UNCHANGED <<saves, loader>>

\* Mutant: SaveState goes on with the next file.
OpenFailsIgnored(s) ==
    /\ saver[s].next # 0
    /\ FilesUnlocked
    /\ saver' = [saver EXCEPT ![s] = IF @.next = 3 THEN IdleSaver ELSE [@ EXCEPT !.next = @ + 1]]
    /\ UNCHANGED <<file, damaged, saves, loader, lastSave, ordered>>

\* The file cannot be opened: SaveState returns the error, and saves no more.
OpenFails(s) ==
    /\ saver[s].next # 0
    /\ FilesUnlocked
    /\ saver' = [saver EXCEPT ![s] = IdleSaver]
    /\ UNCHANGED <<file, damaged, saves, loader, lastSave, ordered>>

\* The disk is full, or only Close reports an error and all was written:
\* SaveState returns the error, and saves no more.
WriteFails(s) ==
    /\ saver[s].writing
    /\ \/ damaged' = damaged \cup {saver[s].next} /\ UNCHANGED file
       \/ /\ damaged' = damaged \ {saver[s].next}
          /\ file' = [file EXCEPT ![saver[s].next] = saver[s].state]
    /\ saver' = [saver EXCEPT ![s] = IdleSaver]
    /\ UNCHANGED <<saves, loader, lastSave, ordered>>

LoadState(l) ==
    /\ loader[l].next = 0
    /\ loader' = [loader EXCEPT ![l] = [IdleLoader EXCEPT !.next = 1, !.quiet = NobodySaves]]
    /\ UNCHANGED <<file, damaged, saves, saver, lastSave, ordered>>

\* LoadLogs, LoadRules or LoadAlerts; a missing file is an empty result.
LoadFile(l) ==
    LET f == loader[l].next IN
    /\ f # 0
    /\ FilesUnlocked
    /\ file[f] # Torn
    /\ loader' = [loader EXCEPT ![l].got[f] = file[f],
                                ![l].next = IF f = 3 THEN 0 ELSE f + 1,
                                ![l].outcome = IF f = 3 THEN "loaded" ELSE "none"]
    /\ UNCHANGED <<file, damaged, saves, saver, lastSave, ordered>>

\* Mutant: the file is read without the mutex.
LoadFailsUnlocked(l) ==
    /\ loader[l].next # 0
    /\ file[loader[l].next] = Torn
    /\ loader' = [loader EXCEPT ![l].next = 0, ![l].outcome = "corrupt"]
    /\ UNCHANGED <<file, damaged, saves, saver, lastSave, ordered>>

\* A file that is no JSON document: LoadState returns the error.
LoadFails(l) ==
    /\ loader[l].next # 0
    /\ FilesUnlocked
    /\ file[loader[l].next] = Torn
    /\ loader' = [loader EXCEPT ![l].next = 0, ![l].outcome = "corrupt"]
    /\ UNCHANGED <<file, damaged, saves, saver, lastSave, ordered>>

\* Any error of os.ReadFile but NotExist, which may meet any file.
ReadFails(l) ==
    /\ loader[l].next # 0
    /\ FilesUnlocked
    /\ loader' = [loader EXCEPT ![l].next = 0, ![l].outcome = "unreadable"]
    /\ UNCHANGED <<file, damaged, saves, saver, lastSave, ordered>>

\* The process dies and is started again: only the files are left.
Crash ==
    /\ damaged' = damaged \cup {saver[s].next : s \in {t \in Savers : saver[t].writing}}
    /\ saver' = [s \in Savers |-> IdleSaver]
    /\ loader' = [l \in Loaders |-> IdleLoader]
    /\ UNCHANGED <<file, saves, lastSave, ordered>>

FilesNext ==
    \/ \E s \in Savers :
          SaveState(s) \/ OpenFile(s) \/ WriteFile(s) \/ OpenFails(s) \/ WriteFails(s)
    \/ \E l \in Loaders : LoadState(l) \/ LoadFile(l) \/ LoadFails(l) \/ ReadFails(l)
    \/ Crash

FilesSpec == FilesInit /\ [][FilesNext]_fileVars

-----------------------------------------------------------------------------
(* Properties.                                                             *)

\* Files have numbers of calls or are torn, and the mutex has one holder.
FilesTypeOK ==
    /\ file \in [Files -> Numbers \cup {Torn}]
    /\ damaged \subseteq Files
    /\ saves \in Numbers
    /\ saver \in [Savers -> Saver]
    /\ loader \in [Loaders -> Loader]
    /\ lastSave \in Numbers
    /\ ordered \in BOOLEAN
    /\ \A s, t \in Savers : saver[s].writing /\ saver[t].writing => s = t

\* What LoadState returns, whatever failed or crashed before: no part is older
\* than the last SaveState that returned nil, and none is newer than the part
\* before it, because a SaveState that fails has saved only the first parts.  If
\* the last SaveState returned nil these are all of it.  Calls of SaveState that
\* overlap leave parts in any order, until one that is alone returns nil
\* (file_persistence.go:167-201).
LastSaveIsRestored ==
    \A l \in Loaders :
        LET got == loader[l].got IN
        loader[l].outcome = "loaded" /\ loader[l].quiet /\ ordered =>
            /\ lastSave <= got[3] /\ got[3] <= got[2] /\ got[2] <= got[1]
            /\ got[1] <= saves

\* A save under way is never taken for a document that is no JSON: LoadState
\* says so only of a file that a crash or an error left half written, and after
\* a SaveState that returned nil only if another has begun since
\* (file_persistence.go:42, 61, 73).
LoadFailsOnlyOnDamage ==
    [][\A l \in Loaders :
          loader[l].outcome # "corrupt" /\ loader'[l].outcome = "corrupt" =>
              /\ loader[l].next \in damaged
              /\ ordered => lastSave < saves]_fileVars
=============================================================================
