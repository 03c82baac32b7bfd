---------------------------- MODULE StoresProofs ----------------------------
(***************************************************************************)
(* Proofs about the files, for any numbers of savers, loaders and calls;     *)
(* about the store with a backup and the statistics, for any entries; and    *)
(* about the stores together.                                               *)
(***************************************************************************)
EXTENDS MCStores, LogStoreProofs, AlertLifecycleProofs, CountingProofs

-----------------------------------------------------------------------------
(* FilePersistence.                                                        *)

Saving(s) == saver[s].next # 0

\* Who writes saves.
SaverInv == \A s \in Savers : saver[s].writing => Saving(s)

\* Half a file is being written, or was left so.
TornInv ==
    \A f \in Files : file[f] = Torn =>
        f \in damaged \/ \E s \in Savers : saver[s].writing /\ saver[s].next = f

\* Numbers are those of calls that have begun.
NumbersInv ==
    /\ lastSave <= saves
    /\ \A f \in Files : file[f] # Torn => file[f] <= saves
    /\ \A s \in Savers : saver[s].state <= saves

\* A saver that no other has disturbed has saved what it is past, and is the
\* latest.
AloneInv ==
    \A s \in Savers : Saving(s) /\ saver[s].alone =>
        /\ \A t \in Savers : t # s => ~Saving(t)
        /\ saver[s].state = saves /\ lastSave < saves
        /\ \A f \in Files : f < saver[s].next => file[f] = saves /\ f \notin damaged

\* As long as no calls overlap, files are older the later they are saved, and
\* none is older than the last save.
OrderedInv ==
    ordered =>
        /\ \A s \in Savers : Saving(s) => saver[s].alone
        /\ lastSave = saves => damaged = {}
        /\ \A f \in Files : file[f] # Torn =>
              /\ lastSave <= file[f]
              /\ \A g \in Files : g <= f /\ file[g] # Torn => file[f] <= file[g]

\* A load that no SaveState has disturbed has read what is there.
QuietInv ==
    \A l \in Loaders : loader[l].quiet =>
        /\ \A s \in Savers : ~Saving(s)
        /\ \A f \in Files : f < loader[l].next \/ loader[l].outcome = "loaded" =>
              file[f] # Torn /\ loader[l].got[f] = file[f]

FilesInv == FilesTypeOK /\ SaverInv /\ TornInv /\ NumbersInv /\ AloneInv /\ OrderedInv /\ QuietInv

-----------------------------------------------------------------------------
\* What the records of a saver and of a loader hold.
LEMMA FileRecords ==
    ASSUME FilesTypeOK
    PROVE  /\ \A s \in Savers : /\ saver[s] \in Saver
                                /\ saver[s].next \in 0..3 /\ saver[s].writing \in BOOLEAN
                                /\ saver[s].state \in Numbers /\ saver[s].alone \in BOOLEAN
           /\ \A l \in Loaders : /\ loader[l] \in Loader
                                 /\ loader[l].next \in 0..3
                                 /\ loader[l].got \in [Files -> Numbers]
                                 /\ loader[l].quiet \in BOOLEAN
           /\ IdleSaver \in Saver /\ IdleLoader \in Loader
           /\ \A n \in Numbers : n # Torn
           /\ Numbers \subseteq Nat /\ saves \in Nat /\ lastSave \in Nat
           /\ \A f \in Files : file[f] # Torn => file[f] \in Nat
<1>1. \A s \in Savers : saver[s] \in Saver
  BY DEF FilesTypeOK
<1>2. \A l \in Loaders : loader[l] \in Loader
  BY DEF FilesTypeOK
<1>3. 0 \in Numbers /\ Numbers \subseteq Nat /\ \A n \in Numbers : n # Torn
  BY FilesAssumption DEF Numbers
<1>4. IdleSaver \in Saver /\ IdleLoader \in Loader
  BY <1>3 DEF IdleSaver, IdleLoader, Saver, Loader
<1>5. \A s \in Savers : /\ saver[s].next \in 0..3 /\ saver[s].writing \in BOOLEAN
                        /\ saver[s].state \in Numbers /\ saver[s].alone \in BOOLEAN
  BY <1>1 DEF Saver
<1>6. \A l \in Loaders : /\ loader[l].next \in 0..3
                         /\ loader[l].got \in [Files -> Numbers]
                         /\ loader[l].quiet \in BOOLEAN
  BY <1>2 DEF Loader
<1>7. saves \in Nat /\ lastSave \in Nat /\ \A f \in Files : file[f] # Torn => file[f] \in Nat
  BY <1>3 DEF FilesTypeOK
<1> QED BY <1>1, <1>2, <1>3, <1>4, <1>5, <1>6, <1>7

\* As long as someone saves no load is undisturbed.
LEMMA NothingQuiet ==
    ASSUME FilesInv, NEW s \in Savers, Saving(s)
    PROVE  \A l \in Loaders : ~loader[l].quiet
BY DEF FilesInv, QuietInv

LEMMA SaveStateKeepsInv ==
    ASSUME FilesInv, NEW s \in Savers, SaveState(s) PROVE FilesInv'
<1> DEFINE new == [next |-> 1, writing |-> FALSE, state |-> saves + 1, alone |-> NobodySaves]
<1>0. FilesTypeOK
  BY DEF FilesInv
<1>1. /\ saver[s].next = 0 /\ saves' = saves + 1 /\ saves < MaxSaves
      /\ saver' = [t \in Savers |-> IF t = s THEN new ELSE [saver[t] EXCEPT !.alone = FALSE]]
      /\ loader' = [l \in Loaders |-> [loader[l] EXCEPT !.quiet = FALSE]]
      /\ ordered' = (ordered /\ NobodySaves)
      /\ UNCHANGED <<file, damaged, lastSave>>
  BY DEF SaveState
<1>2. saves + 1 \in Numbers /\ saves \in Nat /\ lastSave \in Nat
  BY <1>0, <1>1, FilesAssumption, FileRecords DEF FilesTypeOK, Numbers
<1>3. /\ NobodySaves \in BOOLEAN /\ (NobodySaves <=> \A u \in Savers : ~Saving(u))
  BY DEF NobodySaves, Saving
<1>4. /\ new \in Saver /\ new.next = 1 /\ ~new.writing /\ new.state = saves + 1
      /\ new.alone = NobodySaves
  BY <1>2, <1>3 DEF Saver
<1>5. ASSUME NEW t \in Savers, t # s
      PROVE  /\ saver'[t] \in Saver /\ ~saver'[t].alone
             /\ saver'[t].next = saver[t].next /\ saver'[t].writing = saver[t].writing
             /\ saver'[t].state = saver[t].state
  BY <1>0, <1>1, <1>5, FileRecords DEF Saver
<1>6. saver'[s] = new
  BY <1>1
<1> HIDE DEF new
<1>7. ASSUME NEW l \in Loaders PROVE loader'[l] \in Loader /\ ~loader'[l].quiet
  BY <1>0, <1>1, FileRecords DEF Loader
<1>8. FilesTypeOK'
  <2>1. saver' \in [Savers -> Saver]
    BY <1>1, <1>4, <1>5, <1>6
  <2>2. loader' \in [Loaders -> Loader]
    BY <1>1, <1>7
  <2>3. ordered' \in BOOLEAN
    BY <1>1
  <2>4. \A t, u \in Savers : saver'[t].writing /\ saver'[u].writing => t = u
    BY <1>0, <1>4, <1>5, <1>6 DEF FilesTypeOK
  <2> QED BY <1>0, <1>1, <1>2, <2>1, <2>2, <2>3, <2>4 DEF FilesTypeOK
<1>9. SaverInv'
  BY <1>4, <1>5, <1>6 DEF FilesInv, SaverInv, Saving
<1>10. TornInv'
  BY <1>1, <1>5 DEF FilesInv, TornInv, SaverInv, Saving
<1>11. NumbersInv'
  <2>1. lastSave' <= saves'
    BY <1>1, <1>2 DEF FilesInv, NumbersInv
  <2>2. \A f \in Files : file'[f] # Torn => file'[f] <= saves'
    BY <1>0, <1>1, <1>2, FileRecords DEF FilesInv, NumbersInv
  <2>3. ASSUME NEW t \in Savers PROVE saver'[t].state <= saves'
    <3>1. saver[t].state \in Nat /\ saver[t].state <= saves
      BY <1>0, FileRecords DEF FilesInv, NumbersInv
    <3> QED BY <1>1, <1>2, <1>4, <1>5, <1>6, <3>1
  <2> QED BY <2>1, <2>2, <2>3 DEF NumbersInv
<1>12. AloneInv'
  <2> SUFFICES ASSUME NEW t \in Savers, Saving(t)', saver'[t].alone
               PROVE  /\ \A u \in Savers : u # t => ~Saving(u)'
                      /\ saver'[t].state = saves' /\ lastSave' < saves'
                      /\ \A f \in Files : f < saver'[t].next => file'[f] = saves' /\ f \notin damaged'
    BY DEF AloneInv
  <2>1. t = s /\ NobodySaves
    BY <1>4, <1>5, <1>6
  <2>2. lastSave' < saves'
    BY <1>1, <1>2 DEF FilesInv, NumbersInv
  <2>3. \A u \in Savers : u # s => ~Saving(u)'
    BY <1>3, <1>5, <2>1 DEF Saving
  <2> QED BY <1>1, <1>4, <1>6, <2>1, <2>2, <2>3 DEF Files
<1>13. OrderedInv'
  <2> SUFFICES ASSUME ordered' PROVE OrderedInv'
    BY DEF OrderedInv
  <2>1. ordered /\ NobodySaves
    BY <1>1
  <2>2. \A t \in Savers : Saving(t)' => saver'[t].alone
    BY <1>3, <1>4, <1>5, <1>6, <2>1 DEF Saving
  <2>3. lastSave' # saves'
    BY <1>1, <1>2 DEF FilesInv, NumbersInv
  <2> QED BY <1>1, <2>1, <2>2, <2>3 DEF FilesInv, OrderedInv
<1>14. QuietInv'
  BY <1>7 DEF QuietInv
<1> QED BY <1>8, <1>9, <1>10, <1>11, <1>12, <1>13, <1>14 DEF FilesInv

\* The file is cut to nothing and the mutex taken.
LEMMA OpenKeepsInv ==
    ASSUME FilesInv, NEW s \in Savers, OpenFile(s) PROVE FilesInv'
<1>0. FilesTypeOK
  BY DEF FilesInv
<1>1. /\ saver[s].next # 0 /\ \A t \in Savers : ~saver[t].writing
      /\ saver' = [saver EXCEPT ![s].writing = TRUE]
      /\ file' = [file EXCEPT ![saver[s].next] = Torn]
      /\ UNCHANGED <<damaged, saves, loader, lastSave, ordered>>
  BY DEF OpenFile, FilesUnlocked
<1>2. saver[s].next \in Files /\ Saving(s)
  BY <1>0, <1>1, FileRecords DEF Files, Saving
<1>3. /\ saver'[s] \in Saver /\ saver'[s].writing /\ saver'[s].next = saver[s].next
      /\ saver'[s].state = saver[s].state /\ saver'[s].alone = saver[s].alone
      /\ \A t \in Savers : t # s => saver'[t] = saver[t]
  BY <1>0, <1>1, FileRecords DEF Saver, FilesTypeOK
<1>4. \A t \in Savers : (Saving(t)' <=> Saving(t)) /\ saver'[t].alone = saver[t].alone
                        /\ saver'[t].next = saver[t].next /\ saver'[t].state = saver[t].state
  BY <1>3 DEF Saving
<1>5. /\ file'[saver[s].next] = Torn
      /\ \A f \in Files : f # saver[s].next => file'[f] = file[f]
  BY <1>0, <1>1, <1>2 DEF FilesTypeOK
<1>6. FilesTypeOK'
  BY <1>0, <1>1, <1>2, <1>3 DEF FilesTypeOK
<1>7. SaverInv'
  BY <1>1, <1>3 DEF FilesInv, SaverInv, Saving
<1>8. TornInv'
  <2> SUFFICES ASSUME NEW f \in Files, file'[f] = Torn
               PROVE  f \in damaged' \/ \E t \in Savers : saver'[t].writing /\ saver'[t].next = f
    BY DEF TornInv
  <2>1. CASE f = saver[s].next
    BY <1>3, <2>1
  <2>2. CASE f # saver[s].next
    BY <1>1, <1>5, <2>2 DEF FilesInv, TornInv
  <2> QED BY <2>1, <2>2
<1>9. NumbersInv'
  BY <1>1, <1>4, <1>5 DEF FilesInv, NumbersInv
<1>10. AloneInv'
  <2> SUFFICES ASSUME NEW t \in Savers, Saving(t), saver[t].alone
               PROVE  /\ \A u \in Savers : u # t => ~Saving(u)
                      /\ saver[t].state = saves /\ lastSave < saves
                      /\ \A f \in Files : f < saver[t].next => file'[f] = saves /\ f \notin damaged
    BY <1>1, <1>4 DEF AloneInv
  <2>1. /\ \A u \in Savers : u # t => ~Saving(u)
        /\ saver[t].state = saves /\ lastSave < saves
        /\ \A f \in Files : f < saver[t].next => file[f] = saves /\ f \notin damaged
    BY DEF FilesInv, AloneInv
  <2>2. t = s
    BY <1>2, <2>1
  <2>3. \A f \in Files : f < saver[s].next => f # saver[s].next
    BY <1>0, FileRecords DEF Files
  <2> QED BY <1>5, <2>1, <2>2, <2>3
<1>11. OrderedInv'
  BY <1>1, <1>4, <1>5 DEF FilesInv, OrderedInv
<1>12. QuietInv'
  BY <1>1, <1>2, NothingQuiet DEF QuietInv
<1> QED BY <1>6, <1>7, <1>8, <1>9, <1>10, <1>11, <1>12 DEF FilesInv

\* A file has got the state of its saver, who is alone or has made the order void:
\* the other files are as old or older, if they come later.
LEMMA FileWritten ==
    ASSUME FilesInv, NEW s \in Savers, saver[s].writing, NEW g, g = saver[s].next,
           file' = [file EXCEPT ![g] = saver[s].state], damaged' = damaged \ {g},
           UNCHANGED saves
    PROVE  /\ g \in 1..3 /\ Saving(s)
           /\ file' \in [Files -> Numbers \cup {Torn}] /\ damaged' \subseteq Files
           /\ file'[g] = saver[s].state /\ \A f \in Files : f # g => file'[f] = file[f]
           /\ \A f \in Files : file'[f] = Torn => f \in damaged'
           /\ \A f \in Files : file'[f] # Torn => file'[f] <= saves
           /\ saver[s].alone =>
                 /\ \A t \in Savers : t # s => ~Saving(t)
                 /\ saver[s].state = saves /\ lastSave < saves
                 /\ \A f \in Files : f <= g => file'[f] = saves /\ f \notin damaged'
           /\ ordered =>
                 /\ saver[s].alone
                 /\ \A f \in Files : file'[f] # Torn =>
                       /\ lastSave <= file'[f]
                       /\ \A h \in Files : h <= f /\ file'[h] # Torn => file'[f] <= file'[h]
<1>0. FilesTypeOK
  BY DEF FilesInv
<1>1. Saving(s) /\ g \in 1..3 /\ g \in Files
  BY <1>0, FileRecords DEF FilesInv, SaverInv, Saving, Files
<1>2. saver[s].state \in Numbers /\ saver[s].state # Torn /\ saver[s].state <= saves
  BY <1>0, FileRecords DEF FilesInv, NumbersInv
<1>3. /\ file' \in [Files -> Numbers \cup {Torn}] /\ damaged' \subseteq Files
      /\ file'[g] = saver[s].state /\ \A f \in Files : f # g => file'[f] = file[f]
  BY <1>0, <1>1, <1>2 DEF FilesTypeOK
<1>4. ASSUME NEW f \in Files, file'[f] = Torn PROVE f \in damaged'
  <2>1. f # g /\ file[f] = Torn
    BY <1>2, <1>3, <1>4
  <2>2. \A t \in Savers : saver[t].writing => t = s
    BY <1>0 DEF FilesTypeOK
  <2> QED BY <2>1, <2>2 DEF FilesInv, TornInv
<1>5. \A f \in Files : file'[f] # Torn => file'[f] <= saves
  BY <1>2, <1>3 DEF FilesInv, NumbersInv
<1>6. ASSUME saver[s].alone
      PROVE  /\ \A t \in Savers : t # s => ~Saving(t)
             /\ saver[s].state = saves /\ lastSave < saves
             /\ \A f \in Files : f <= g => file'[f] = saves /\ f \notin damaged'
  <2>1. /\ \A t \in Savers : t # s => ~Saving(t)
        /\ saver[s].state = saves /\ lastSave < saves
        /\ \A f \in Files : f < g => file[f] = saves /\ f \notin damaged
    BY <1>1, <1>6 DEF FilesInv, AloneInv
  <2>2. \A f \in Files : f <= g => f = g \/ (f < g /\ f # g)
    BY <1>1 DEF Files
  <2> QED BY <1>3, <2>1, <2>2
<1>7. ASSUME ordered
      PROVE  /\ saver[s].alone
             /\ \A f \in Files : file'[f] # Torn =>
                   /\ lastSave <= file'[f]
                   /\ \A h \in Files : h <= f /\ file'[h] # Torn => file'[f] <= file'[h]
  <2>1. saver[s].alone
    BY <1>1, <1>7 DEF FilesInv, OrderedInv
  <2>2. /\ lastSave \in Nat /\ saves \in Nat
        /\ \A f \in Files : f \in Nat /\ (file'[f] # Torn => file'[f] \in Nat)
    BY <1>0, <1>3, FileRecords DEF Files
  <2>3. ASSUME NEW f \in Files, file'[f] # Torn PROVE lastSave <= file'[f]
    <3>1. CASE f = g
      BY <1>3, <1>6, <2>1, <2>2, <3>1
    <3>2. CASE f # g
      BY <1>3, <1>7, <2>3, <3>2 DEF FilesInv, OrderedInv
    <3> QED BY <3>1, <3>2
  <2>4. ASSUME NEW f \in Files, NEW h \in Files, file'[f] # Torn, file'[h] # Torn, h <= f
        PROVE  file'[f] <= file'[h]
    <3>1. CASE h <= g
      BY <1>5, <1>6, <2>1, <2>2, <2>4, <3>1
    <3>2. CASE ~(h <= g)
      <4>1. f # g /\ h # g
        BY <1>1, <2>2, <2>4, <3>2
      <4> QED BY <1>3, <1>7, <2>4, <4>1 DEF FilesInv, OrderedInv
    <3> QED BY <3>1, <3>2
  <2> QED BY <2>1, <2>3, <2>4
<1> QED BY <1>1, <1>3, <1>4, <1>5, <1>6, <1>7

LEMMA WriteKeepsInv ==
    ASSUME FilesInv, NEW s \in Savers, WriteFile(s) PROVE FilesInv'
<1> DEFINE g == saver[s].next
           new == IF g = 3 THEN IdleSaver ELSE [saver[s] EXCEPT !.writing = FALSE, !.next = @ + 1]
<1>0. FilesTypeOK
  BY DEF FilesInv
<1>1. /\ saver[s].writing
      /\ file' = [file EXCEPT ![g] = saver[s].state]
      /\ damaged' = damaged \ {g}
      /\ saver' = [saver EXCEPT ![s] = new]
      /\ lastSave' = IF g = 3 /\ saver[s].alone THEN saver[s].state ELSE lastSave
      /\ ordered' = (ordered \/ (g = 3 /\ saver[s].alone))
      /\ UNCHANGED <<saves, loader>>
  <2>1. CASE g = 3
    BY <1>0, <2>1, FileRecords DEF WriteFile
  <2>2. CASE g # 3
    BY <1>0, <2>2, FileRecords DEF WriteFile, FilesTypeOK
  <2> QED BY <2>1, <2>2
<1>2. /\ g \in 1..3 /\ Saving(s)
      /\ file' \in [Files -> Numbers \cup {Torn}] /\ damaged' \subseteq Files
      /\ file'[g] = saver[s].state /\ \A f \in Files : f # g => file'[f] = file[f]
      /\ \A f \in Files : file'[f] = Torn => f \in damaged'
      /\ \A f \in Files : file'[f] # Torn => file'[f] <= saves
      /\ saver[s].alone =>
            /\ \A t \in Savers : t # s => ~Saving(t)
            /\ saver[s].state = saves /\ lastSave < saves
            /\ \A f \in Files : f <= g => file'[f] = saves /\ f \notin damaged'
      /\ ordered =>
            /\ saver[s].alone
            /\ \A f \in Files : file'[f] # Torn =>
                  /\ lastSave <= file'[f]
                  /\ \A h \in Files : h <= f /\ file'[h] # Torn => file'[f] <= file'[h]
  BY <1>1, FileWritten
<1>3. /\ new \in Saver /\ ~new.writing /\ new.state <= saves
      /\ g = 3 => new.next = 0
      /\ g # 3 => new.next = g + 1 /\ new.state = saver[s].state /\ new.alone = saver[s].alone
  <2>1. CASE g = 3
    BY <1>0, <2>1, FileRecords DEF IdleSaver
  <2>2. CASE g # 3
    <3>1. saver[s] \in Saver /\ new = [saver[s] EXCEPT !.writing = FALSE, !.next = g + 1]
      BY <1>0, <2>2, FileRecords
    <3>2. g + 1 \in 0..3 /\ saver[s].state <= saves
      BY <1>2, <2>2 DEF FilesInv, NumbersInv
    <3> HIDE DEF g, new
    <3> QED BY <2>2, <3>1, <3>2 DEF Saver
  <2> QED BY <2>1, <2>2
<1>4. saver'[s] = new /\ \A t \in Savers : t # s => saver'[t] = saver[t]
  BY <1>0, <1>1 DEF FilesTypeOK
<1>5. saver[s].state \in Numbers /\ saves \in Nat /\ lastSave \in Nat /\ saver[s].alone \in BOOLEAN
  BY <1>0, FileRecords
<1> HIDE DEF new
<1>6. \A l \in Loaders : ~loader'[l].quiet
  BY <1>1, <1>2, NothingQuiet
<1>7. FilesTypeOK'
  BY <1>0, <1>1, <1>2, <1>3, <1>4, <1>5 DEF FilesTypeOK
<1>8. SaverInv'
  BY <1>3, <1>4 DEF FilesInv, SaverInv, Saving
<1>9. TornInv'
  BY <1>2 DEF TornInv
<1>10. NumbersInv'
  <2>1. lastSave' <= saves'
    BY <1>1, <1>2, <1>5 DEF FilesInv, NumbersInv
  <2>2. \A t \in Savers : saver'[t].state <= saves'
    BY <1>1, <1>3, <1>4 DEF FilesInv, NumbersInv
  <2> QED BY <1>1, <1>2, <2>1, <2>2 DEF NumbersInv
<1>11. AloneInv'
  <2> SUFFICES ASSUME NEW t \in Savers, Saving(t)', saver'[t].alone
               PROVE  /\ \A u \in Savers : u # t => ~Saving(u)'
                      /\ saver'[t].state = saves' /\ lastSave' < saves'
                      /\ \A f \in Files : f < saver'[t].next => file'[f] = saves' /\ f \notin damaged'
    BY DEF AloneInv
  <2>1. t = s
    BY <1>2, <1>4 DEF FilesInv, AloneInv, Saving
  <2>2. g # 3 /\ saver[s].alone
    BY <1>3, <1>4, <2>1 DEF Saving
  <2>3. \A f \in Files : f < g + 1 => f <= g
    BY <1>2 DEF Files
  <2>4. /\ saver'[s].state = saves' /\ saver'[s].next = g + 1 /\ lastSave' < saves'
        /\ \A f \in Files : f <= g => file'[f] = saves' /\ f \notin damaged'
    BY <1>1, <1>2, <1>3, <1>4, <2>2
  <2>5. \A u \in Savers : u # s => ~Saving(u)'
    BY <1>2, <1>4, <2>2 DEF Saving
  <2> QED BY <2>1, <2>3, <2>4, <2>5
<1>12. OrderedInv'
  <2> SUFFICES ASSUME ordered' PROVE OrderedInv'
    BY DEF OrderedInv
  <2>1. saver[s].alone
    BY <1>1, <1>2
  <2>2. \A t \in Savers : Saving(t)' => saver'[t].alone
    BY <1>2, <1>3, <1>4, <2>1 DEF Saving
  <2>3. CASE g = 3
    <3>1. \A f \in Files : file'[f] = saves /\ f \notin damaged'
      BY <1>2, <2>1, <2>3 DEF Files
    <3>2. lastSave' = saves /\ saves' = saves
      BY <1>1, <1>2, <2>1, <2>3
    <3> QED BY <1>2, <1>5, <2>2, <3>1, <3>2 DEF OrderedInv
  <2>4. CASE g # 3
    <3>1. lastSave' = lastSave /\ saves' = saves /\ ordered
      BY <1>1, <2>4
    <3>2. lastSave # saves
      BY <1>2, <1>5, <2>1
    <3> QED BY <1>2, <2>2, <3>1, <3>2 DEF OrderedInv
  <2> QED BY <2>3, <2>4
<1>13. QuietInv'
  BY <1>6 DEF QuietInv
<1> QED BY <1>7, <1>8, <1>9, <1>10, <1>11, <1>12, <1>13 DEF FilesInv

\* A call that gives up leaves the file as it is, or entirely written.
LEMMA FailKeepsInv ==
    ASSUME FilesInv, NEW s \in Savers, OpenFails(s) \/ WriteFails(s) PROVE FilesInv'
<1> DEFINE g == saver[s].next
<1>0. FilesTypeOK
  BY DEF FilesInv
<1>1. /\ Saving(s) /\ saver' = [saver EXCEPT ![s] = IdleSaver]
      /\ UNCHANGED <<saves, loader, lastSave, ordered>>
  BY DEF OpenFails, WriteFails, FilesInv, SaverInv, Saving
<1>2. /\ saver'[s] = IdleSaver /\ \A t \in Savers : t # s => saver'[t] = saver[t]
      /\ IdleSaver.next = 0 /\ ~IdleSaver.writing /\ IdleSaver.state = 0
  BY <1>0, <1>1 DEF FilesTypeOK, IdleSaver
<1>3. g \in Files /\ saves \in Nat
  BY <1>0, <1>1, FileRecords DEF Saving, Files
<1>4. \A l \in Loaders : ~loader'[l].quiet
  BY <1>1, NothingQuiet
<1>5. /\ file' \in [Files -> Numbers \cup {Torn}] /\ damaged' \subseteq Files
      /\ \A f \in Files : file'[f] = Torn =>
            f \in damaged' \/ \E t \in Savers : saver'[t].writing /\ saver'[t].next = f
      /\ \A f \in Files : file'[f] # Torn => file'[f] <= saves
      /\ ordered => \A f \in Files : file'[f] # Torn =>
            /\ lastSave <= file'[f]
            /\ \A h \in Files : h <= f /\ file'[h] # Torn => file'[f] <= file'[h]
  <2>1. CASE UNCHANGED file /\ damaged \subseteq damaged' /\ damaged' \subseteq damaged \cup {g}
             /\ (saver[s].writing => g \in damaged')
    <3>1. ASSUME NEW f \in Files, file'[f] = Torn
          PROVE  f \in damaged' \/ \E t \in Savers : saver'[t].writing /\ saver'[t].next = f
      BY <1>2, <2>1, <3>1 DEF FilesInv, TornInv
    <3> QED BY <1>0, <1>3, <2>1, <3>1 DEF FilesInv, NumbersInv, OrderedInv, FilesTypeOK
  <2>2. CASE /\ saver[s].writing /\ damaged' = damaged \ {g}
             /\ file' = [file EXCEPT ![g] = saver[s].state]
    BY <1>1, <2>2, FileWritten
  <2> QED BY <2>1, <2>2 DEF OpenFails, WriteFails, FilesUnlocked
<1>6. FilesTypeOK'
  BY <1>0, <1>1, <1>2, <1>5, FileRecords DEF FilesTypeOK
<1>7. SaverInv'
  BY <1>2 DEF FilesInv, SaverInv, Saving
<1>8. TornInv'
  BY <1>5 DEF TornInv
<1>9. NumbersInv'
  BY <1>1, <1>2, <1>3, <1>5 DEF FilesInv, NumbersInv
<1>10. AloneInv'
  BY <1>1, <1>2 DEF FilesInv, AloneInv, Saving
<1>11. OrderedInv'
  <2> SUFFICES ASSUME ordered PROVE OrderedInv'
    BY <1>1 DEF OrderedInv
  <2>1. saver[s].alone
    BY <1>1 DEF FilesInv, OrderedInv
  <2>2. lastSave # saves
    BY <1>0, <1>1, <2>1, FileRecords DEF FilesInv, AloneInv
  <2>3. \A t \in Savers : ~Saving(t)'
    BY <1>1, <1>2, <2>1 DEF FilesInv, AloneInv, Saving
  <2> QED BY <1>1, <1>5, <2>2, <2>3 DEF OrderedInv
<1>12. QuietInv'
  BY <1>4 DEF QuietInv
<1> QED BY <1>6, <1>7, <1>8, <1>9, <1>10, <1>11, <1>12 DEF FilesInv

\* A loader that ends with the error o.
Ended(x, o) == [x EXCEPT !.next = 0, !.outcome = o]

LEMMA LoaderEnds ==
    ASSUME NEW x \in Loader, NEW o \in {"corrupt", "unreadable"}
    PROVE  /\ Ended(x, o) \in Loader
           /\ Ended(x, o).next = 0
           /\ Ended(x, o).outcome = o
           /\ Ended(x, o).quiet = x.quiet
<1>1. PICK n, g, e, q : x = [next |-> n, got |-> g, outcome |-> e, quiet |-> q]
  BY DEF Loader
<1>2. Ended(x, o) = [[next |-> n, got |-> g, outcome |-> e, quiet |-> q]
                       EXCEPT !.next = 0, !.outcome = o]
  BY <1>1, Zenon DEF Ended
<1>3. Ended(x, o) = [next |-> 0, got |-> g, outcome |-> o, quiet |-> q]
  BY <1>2, Zenon
<1>4. g \in [Files -> Numbers] /\ q \in BOOLEAN
  BY <1>1 DEF Loader
<1> QED BY <1>1, <1>3, <1>4 DEF Loader

\* What the record of a loader that begins holds.
LEMMA LoaderBegins ==
    ASSUME NEW got \in [Files -> Numbers], NEW q \in BOOLEAN, NEW r,
           r = [[next |-> 0, got |-> got, outcome |-> "none", quiet |-> FALSE]
                   EXCEPT !.next = 1, !.quiet = q]
    PROVE  r \in Loader /\ r.next = 1 /\ r.outcome = "none" /\ r.quiet = q
<1>1. r = [next |-> 1, got |-> got, outcome |-> "none", quiet |-> q]
  BY Zenon
<1> QED BY <1>1 DEF Loader

\* Who only reads disturbs nobody.
LEMMA LoaderKeepsInv ==
    ASSUME FilesInv, NEW l \in Loaders,
           LoadState(l) \/ LoadFile(l) \/ LoadFails(l) \/ ReadFails(l)
    PROVE  FilesInv'
<1>0. FilesTypeOK
  BY DEF FilesInv
<1>1. UNCHANGED <<file, damaged, saves, saver, lastSave, ordered>>
  BY DEF LoadState, LoadFile, LoadFails, ReadFails
<1>2. SaverInv' /\ TornInv' /\ NumbersInv' /\ AloneInv' /\ OrderedInv'
  BY <1>1 DEF FilesInv, SaverInv, TornInv, NumbersInv, AloneInv, OrderedInv, Saving
<1>3. ASSUME NEW new \in Loader, loader' = [loader EXCEPT ![l] = new],
             new.quiet =>
                 /\ \A s \in Savers : ~Saving(s)
                 /\ \A f \in Files : f < new.next \/ new.outcome = "loaded" =>
                       file[f] # Torn /\ new.got[f] = file[f]
      PROVE  FilesInv'
  <2>1. loader'[l] = new /\ \A k \in Loaders : k # l => loader'[k] = loader[k]
    BY <1>0, <1>3 DEF FilesTypeOK
  <2>2. FilesTypeOK'
    BY <1>0, <1>1, <1>3 DEF FilesTypeOK
  <2>3. QuietInv'
    <3> SUFFICES ASSUME NEW k \in Loaders, loader'[k].quiet
                 PROVE  /\ \A s \in Savers : ~Saving(s)
                        /\ \A f \in Files : f < loader'[k].next \/ loader'[k].outcome = "loaded" =>
                              file[f] # Torn /\ loader'[k].got[f] = file[f]
      BY <1>1 DEF QuietInv, Saving
    <3>1. CASE k = l
      BY <1>3, <2>1, <3>1
    <3>2. CASE k # l
      BY <2>1, <3>2 DEF FilesInv, QuietInv
    <3> QED BY <3>1, <3>2
  <2> QED BY <1>2, <2>2, <2>3 DEF FilesInv
<1>4. CASE LoadState(l)
  <2> DEFINE new == [IdleLoader EXCEPT !.next = 1, !.quiet = NobodySaves]
  <2>0. NobodySaves \in BOOLEAN /\ (NobodySaves <=> \A s \in Savers : ~Saving(s))
    BY DEF NobodySaves, Saving
  <2>1. /\ new \in Loader /\ new.quiet = NobodySaves /\ new.outcome = "none" /\ new.next = 1
    <3>1. 0 \in Numbers
      BY FilesAssumption DEF Numbers
    <3>2. [f \in Files |-> 0] \in [Files -> Numbers]
      BY <3>1
    <3>3. IdleLoader = [next |-> 0, got |-> [f \in Files |-> 0], outcome |-> "none", quiet |-> FALSE]
      BY DEF IdleLoader
    <3>4. new = [[next |-> 0, got |-> [f \in Files |-> 0], outcome |-> "none", quiet |-> FALSE]
                    EXCEPT !.next = 1, !.quiet = NobodySaves]
      BY <3>3, Zenon
    <3> HIDE DEF new
    <3> QED BY <2>0, <3>2, <3>4, LoaderBegins, Zenon
  <2>2. loader' = [loader EXCEPT ![l] = new]
    BY <1>4 DEF LoadState
  <2>3. \A f \in Files : ~(f < 1)
    BY DEF Files
  <2> HIDE DEF new
  <2>4. new.quiet => \A s \in Savers : ~Saving(s)
    BY <2>0, <2>1, Zenon
  <2>5. \A f \in Files : ~(f < new.next \/ new.outcome = "loaded")
    BY <2>1, <2>3
  <2> QED BY <1>3, <2>1, <2>2, <2>4, <2>5
<1>5. CASE LoadFile(l)
  <2> DEFINE g == loader[l].next
             new == [loader[l] EXCEPT !.got = [@ EXCEPT ![g] = file[g]],
                                      !.next = IF g = 3 THEN 0 ELSE g + 1,
                                      !.outcome = IF g = 3 THEN "loaded" ELSE "none"]
  <2>1. g # 0 /\ file[g] # Torn /\ loader' = [loader EXCEPT ![l] = new]
    BY <1>5 DEF LoadFile
  <2>2. /\ g \in 1..3 /\ g \in Files /\ loader[l] \in Loader
        /\ loader[l].got \in [Files -> Numbers]
    BY <1>0, <2>1, FileRecords DEF Files
  <2>3. file[g] \in Numbers
    BY <1>0, <2>1, <2>2 DEF FilesTypeOK
  <2>4. /\ new \in Loader /\ new.quiet = loader[l].quiet
        /\ new.outcome = "loaded" => g = 3
        /\ g # 3 => new.next = g + 1
        /\ g = 3 => new.next = 0
        /\ new.got = [loader[l].got EXCEPT ![g] = file[g]]
    <3> DEFINE got == [loader[l].got EXCEPT ![g] = file[g]]
               next == IF g = 3 THEN 0 ELSE g + 1
               outcome == IF g = 3 THEN "loaded" ELSE "none"
    <3>1. /\ got \in [Files -> Numbers] /\ next \in 0..3 /\ outcome \in {"none", "loaded"}
          /\ outcome = "loaded" => g = 3
          /\ g # 3 => next = g + 1
          /\ g = 3 => next = 0
      BY <2>2, <2>3
    <3>2. new = [loader[l] EXCEPT !.got = got, !.next = next, !.outcome = outcome]
      OBVIOUS
    <3> HIDE DEF got, next, outcome, new
    <3>3. new \in Loader /\ new.quiet = loader[l].quiet /\ new.got = got /\ new.next = next
          /\ new.outcome = outcome
      BY <2>2, <3>1, <3>2 DEF Loader
    <3> QED BY <3>1, <3>3 DEF got
  <2>5. ASSUME loader[l].quiet
        PROVE  /\ \A s \in Savers : ~Saving(s)
               /\ \A f \in Files : f < new.next \/ new.outcome = "loaded" =>
                     file[f] # Torn /\ new.got[f] = file[f]
    <3>1. /\ \A s \in Savers : ~Saving(s)
          /\ \A f \in Files : f < g => file[f] # Torn /\ loader[l].got[f] = file[f]
      BY <2>5 DEF FilesInv, QuietInv
    <3>2. \A f \in Files : f <= g => file[f] # Torn /\ new.got[f] = file[f]
      BY <2>1, <2>2, <2>4, <3>1 DEF Files
    <3>3. \A f \in Files : f < new.next \/ new.outcome = "loaded" => f <= g
      BY <2>2, <2>4 DEF Files
    <3> QED BY <3>1, <3>2, <3>3
  <2> HIDE DEF new
  <2>6. new.quiet => loader[l].quiet
    BY <2>4, Zenon
  <2> QED BY <1>3, <2>1, <2>4, <2>5, <2>6
<1>6. ASSUME NEW o \in {"corrupt", "unreadable"},
             loader' = [loader EXCEPT ![l] = Ended(loader[l], o)]
      PROVE  FilesInv'
  <2> DEFINE new == Ended(loader[l], o)
  <2>1. loader[l] \in Loader
    BY <1>0, FileRecords
  <2>2. /\ new \in Loader /\ new.next = 0 /\ new.outcome = o
        /\ new.quiet = loader[l].quiet
    BY <2>1, LoaderEnds
  <2> HIDE DEF new
  <2>3. \A f \in Files : ~(f < new.next \/ new.outcome = "loaded")
    BY <2>2 DEF Files
  <2>4. new.quiet => \A s \in Savers : ~Saving(s)
    BY <2>2 DEF FilesInv, QuietInv
  <2>5. loader' = [loader EXCEPT ![l] = new]
    BY <1>6 DEF new
  <2> QED BY <1>3, <2>2, <2>3, <2>4, <2>5
<1>7. CASE LoadFails(l)
  BY <1>6, <1>7 DEF LoadFails, Ended
<1>8. CASE ReadFails(l)
  BY <1>6, <1>8 DEF ReadFails, Ended
<1> QED BY <1>4, <1>5, <1>7, <1>8

LEMMA CrashKeepsInv ==
    ASSUME FilesInv, Crash PROVE FilesInv'
<1>0. FilesTypeOK
  BY DEF FilesInv
<1>1. /\ saver' = [s \in Savers |-> IdleSaver] /\ loader' = [l \in Loaders |-> IdleLoader]
      /\ damaged' = damaged \cup {saver[s].next : s \in {t \in Savers : saver[t].writing}}
      /\ UNCHANGED <<file, saves, lastSave, ordered>>
  BY DEF Crash
<1>2. /\ \A s \in Savers : saver'[s].next = 0 /\ ~saver'[s].writing /\ saver'[s].state = 0
      /\ \A l \in Loaders : ~loader'[l].quiet
  BY <1>1 DEF IdleSaver, IdleLoader
<1>3. \A s \in Savers : saver[s].writing => saver[s].next \in Files /\ Saving(s)
  BY <1>0, FileRecords DEF FilesInv, SaverInv, Saving, Files
<1>4. FilesTypeOK'
  BY <1>0, <1>1, <1>2, <1>3, FileRecords DEF FilesTypeOK
<1>5. NumbersInv'
  BY <1>0, <1>1, <1>2, FileRecords DEF FilesInv, NumbersInv
<1>6. SaverInv' /\ AloneInv' /\ QuietInv'
  BY <1>1, <1>2 DEF FilesInv, SaverInv, AloneInv, QuietInv, Saving
<1>7. TornInv'
  BY <1>1 DEF FilesInv, TornInv
<1>8. OrderedInv'
  <2> SUFFICES ASSUME ordered PROVE OrderedInv'
    BY <1>1 DEF OrderedInv
  <2>1. ASSUME lastSave = saves PROVE damaged' = {}
    <3>1. ASSUME NEW s \in Savers, Saving(s) PROVE FALSE
      <4>1. saver[s].alone
        BY <3>1 DEF FilesInv, OrderedInv
      <4>2. lastSave < saves /\ saves \in Nat
        BY <1>0, <3>1, <4>1, FileRecords DEF FilesInv, AloneInv
      <4> QED BY <2>1, <4>2
    <3> QED BY <1>1, <1>3, <2>1, <3>1 DEF FilesInv, OrderedInv
  <2> QED BY <1>1, <1>2, <2>1 DEF FilesInv, OrderedInv, Saving
<1> QED BY <1>4, <1>5, <1>6, <1>7, <1>8 DEF FilesInv

LEMMA FilesInvariant == FilesSpec => []FilesInv
<1>1. FilesInit => FilesInv
  <2> SUFFICES ASSUME FilesInit PROVE FilesInv
    OBVIOUS
  <2>1. /\ file = [f \in Files |-> 0] /\ damaged = {} /\ saves = 0 /\ lastSave = 0 /\ ordered = TRUE
        /\ saver = [s \in Savers |-> IdleSaver] /\ loader = [l \in Loaders |-> IdleLoader]
    BY DEF FilesInit
  <2>2. 0 \in Numbers /\ 0 # Torn
    BY FilesAssumption DEF Numbers
  <2>3. IdleSaver \in Saver /\ IdleLoader \in Loader
    BY <2>2 DEF IdleSaver, IdleLoader, Saver, Loader
  <2>4. /\ \A s \in Savers : saver[s].next = 0 /\ ~saver[s].writing /\ saver[s].state = 0
        /\ \A l \in Loaders : ~loader[l].quiet
    BY <2>1 DEF IdleSaver, IdleLoader
  <2>5. FilesTypeOK
    BY <2>1, <2>2, <2>3, <2>4 DEF FilesTypeOK
  <2> QED BY <2>1, <2>2, <2>4, <2>5 DEF FilesInv, SaverInv, TornInv, NumbersInv, AloneInv,
             OrderedInv, QuietInv, Saving
<1>2. FilesInv /\ [FilesNext]_fileVars => FilesInv'
  <2>1. ASSUME FilesInv, UNCHANGED fileVars PROVE FilesInv'
    BY <2>1 DEF fileVars, FilesInv, FilesTypeOK, SaverInv, TornInv, NumbersInv, AloneInv,
                OrderedInv, QuietInv, Saving
  <2> QED BY <2>1, SaveStateKeepsInv, OpenKeepsInv, WriteKeepsInv, FailKeepsInv, LoaderKeepsInv,
             CrashKeepsInv DEF FilesNext
<1> QED BY <1>1, <1>2, PTL DEF FilesSpec

-----------------------------------------------------------------------------
\* The files hold the numbers of calls or are torn, and the mutex has one holder.
THEOREM FilesTypeCorrect == FilesSpec => []FilesTypeOK
<1>1. FilesInv => FilesTypeOK
  BY DEF FilesInv
<1> QED BY <1>1, FilesInvariant, PTL

\* Whatever crashes, failing writes and reads there are, what LoadState returns has
\* no part that is older than the last SaveState that returned nil, nor one that
\* is newer than the part before it, as long as no calls of SaveState overlap.
THEOREM SavesAreRestored == FilesSpec => []LastSaveIsRestored
<1>1. FilesInv => LastSaveIsRestored
  <2> SUFFICES ASSUME FilesInv, NEW l \in Loaders,
                      loader[l].outcome = "loaded", loader[l].quiet, ordered
               PROVE  /\ lastSave <= loader[l].got[3] /\ loader[l].got[3] <= loader[l].got[2]
                      /\ loader[l].got[2] <= loader[l].got[1] /\ loader[l].got[1] <= saves
    BY DEF LastSaveIsRestored
  <2>1. \A f \in Files : file[f] # Torn /\ loader[l].got[f] = file[f]
    BY DEF FilesInv, QuietInv
  <2>2. 1 \in Files /\ 2 \in Files /\ 3 \in Files
    BY DEF Files
  <2> QED BY <2>1, <2>2 DEF FilesInv, OrderedInv, NumbersInv
<1> QED BY <1>1, FilesInvariant, PTL

\* With any number of savers and loaders, LoadState finds a document that is no JSON
\* only in the file that a crash or an error has left half written, and not after
\* a SaveState that returned nil, unless another has begun since.
THEOREM LoadsFailOnDamage == FilesSpec => LoadFailsOnlyOnDamage
<1>1. FilesInv /\ [FilesNext]_fileVars =>
         [\A l \in Loaders :
            loader[l].outcome # "corrupt" /\ loader'[l].outcome = "corrupt" =>
                /\ loader[l].next \in damaged
                /\ ordered => lastSave < saves]_fileVars
  <2> SUFFICES ASSUME FilesInv, FilesNext, NEW l \in Loaders,
                      loader[l].outcome # "corrupt", loader'[l].outcome = "corrupt"
               PROVE  /\ loader[l].next \in damaged
                      /\ ordered => lastSave < saves
    OBVIOUS
  <2>0. FilesTypeOK
    BY DEF FilesInv
  <2>1. LoadFails(l)
    <3>1. ASSUME NEW s \in Savers,
                 SaveState(s) \/ OpenFile(s) \/ WriteFile(s) \/ OpenFails(s) \/ WriteFails(s)
          PROVE  FALSE
      <4>1. CASE SaveState(s)
        BY <2>0, <4>1, FileRecords DEF SaveState, Loader
      <4>2. CASE OpenFile(s) \/ WriteFile(s) \/ OpenFails(s) \/ WriteFails(s)
        BY <4>2 DEF OpenFile, WriteFile, OpenFails, WriteFails
      <4> QED BY <3>1, <4>1, <4>2
    <3>2. ASSUME NEW k \in Loaders, LoadState(k) \/ LoadFile(k) \/ ReadFails(k) PROVE FALSE
      <4>1. loader'[l].outcome \in {loader[l].outcome, "none", "loaded", "unreadable"}
        <5>1. CASE LoadState(k)
          BY <2>0, <5>1 DEF LoadState, IdleLoader, FilesTypeOK, Loader
        <5>2. CASE LoadFile(k)
          BY <2>0, <5>2 DEF LoadFile, FilesTypeOK, Loader
        <5>3. CASE ReadFails(k)
          BY <2>0, <5>3 DEF ReadFails, FilesTypeOK, Loader
        <5> QED BY <3>2, <5>1, <5>2, <5>3
      <4> QED BY <4>1
    <3>3. ~Crash
      BY DEF Crash, IdleLoader
    <3>4. ASSUME NEW k \in Loaders, LoadFails(k) PROVE k = l
      BY <2>0, <3>4 DEF LoadFails, FilesTypeOK
    <3> QED BY <3>1, <3>2, <3>3, <3>4 DEF FilesNext
  <2>2. /\ loader[l].next # 0 /\ file[loader[l].next] = Torn
        /\ \A s \in Savers : ~saver[s].writing
    BY <2>1 DEF LoadFails, FilesUnlocked
  <2>3. loader[l].next \in Files
    BY <2>0, <2>2, FileRecords DEF Files
  <2>4. loader[l].next \in damaged
    BY <2>2, <2>3 DEF FilesInv, TornInv
  <2>5. ASSUME ordered PROVE lastSave < saves
    BY <2>0, <2>4, <2>5, FileRecords DEF FilesInv, OrderedInv, NumbersInv
  <2> QED BY <2>4, <2>5
<1> QED BY <1>1, FilesInvariant, PTL DEF FilesSpec, LoadFailsOnlyOnDamage

-----------------------------------------------------------------------------
(* BackupLogStore: the types.                                              *)

\* Whatever is stored, deleted and expired, no entry is in both stores.
THEOREM BackupTypeCorrect == BackupSpec => []BackupTypeOK
<1>1. BackupInit => BackupTypeOK
  BY DEF BackupInit, BackupTypeOK
<1>2. BackupTypeOK /\ [BackupNext]_backupVars => BackupTypeOK'
  <2> SUFFICES ASSUME BackupTypeOK, [BackupNext]_backupVars PROVE BackupTypeOK'
    OBVIOUS
  <2>1. ASSUME NEW e \in StatEntries, StorePrimary(e) PROVE BackupTypeOK'
    BY <2>1 DEF StorePrimary, BackupTypeOK
  <2>2. ASSUME NEW e \in StatEntries, StoreBackup(e) PROVE BackupTypeOK'
    BY <2>2 DEF StoreBackup, BackupTypeOK
  <2>3. ASSUME NEW e \in StatEntries, DeleteEither(e) PROVE BackupTypeOK'
    BY <2>3 DEF DeleteEither, BackupTypeOK
  <2>4. ASSUME NEW expired \in SUBSET StatEntries, DiscardPrimary(expired) PROVE BackupTypeOK'
    BY <2>4 DEF DiscardPrimary, BackupTypeOK
  <2>5. CASE DiscardBackup
    BY <2>5 DEF DiscardBackup, BackupTypeOK
  <2>6. CASE UNCHANGED backupVars
    BY <2>6 DEF backupVars, BackupTypeOK
  <2> QED
    BY <2>1, <2>2, <2>3, <2>4, <2>5, <2>6 DEF BackupNext
<1> QED
  BY <1>1, <1>2, PTL DEF BackupSpec

LEMMA StoredEntries ==
    ASSUME BackupTypeOK
    PROVE  /\ primary \in SUBSET StatEntries /\ backup \in SUBSET StatEntries
           /\ primary \cap backup = {}
           /\ primary \cup backup \in SUBSET StatEntries
           /\ Stamps \subseteq Int
BY BackupAssumption DEF BackupTypeOK, Stamps, StatEntry

\* The two ways of the code to say that an entry is within a range are one.
LEMMA RangeOfEntries ==
    ASSUME NEW S \in SUBSET StatEntries, NEW from \in Int, NEW to \in Int
    PROVE  /\ IsFiniteSet(InRange(S, from, to))
           /\ InRange(S, from, to) \subseteq S
           /\ CountInRange(S, from, to) = Cardinality(InRange(S, from, to))
<1>1. InRange(S, from, to) \subseteq S /\ IsFiniteSet(S)
  BY BackupAssumption, FS_Subset DEF InRange
<1>2. {e \in S : ~(e.ts < from) /\ ~(e.ts > to)} = InRange(S, from, to)
  BY BackupAssumption DEF InRange, StatEntry
<1> QED
  BY <1>1, <1>2, FS_Subset DEF CountInRange

-----------------------------------------------------------------------------
(* How much the two stores hold.                                           *)

\* A store of size 0 still keeps the entry it was given last.
SizeBound(size) == IF size < 1 THEN 1 ELSE size

BothBounded ==
    /\ Cardinality(primary) <= SizeBound(PrimarySize)
    /\ Cardinality(backup) <= SizeBound(BackupSize)

LEMMA InsertStaysBounded ==
    ASSUME NEW S \in SUBSET StatEntries, NEW size \in Nat,
           Cardinality(S) <= SizeBound(size),
           NEW gone \in SUBSET S, MakesRoom(gone, S, StampOf, size), NEW e
    PROVE  Cardinality((S \ gone) \cup {e}) <= SizeBound(size)
<1>1. IsFiniteSet(S)
  BY BackupAssumption, FS_Subset
<1> DEFINE limit == SizeBound(size)
<1>2. limit \in Nat /\ limit = IF size < 1 THEN 1 ELSE size
  BY DEF SizeBound
<1>3. Cardinality(S) <= limit
  OBVIOUS
<1> HIDE DEF limit
<1>4. /\ size \in Int /\ limit \in Nat /\ limit = IF size < 1 THEN 1 ELSE size
      /\ gone \in SUBSET S
      /\ IsFiniteSet(S) /\ Cardinality(S) <= limit
      /\ MakesRoom(gone, S, StampOf, size)
  BY <1>1, <1>2, <1>3
<1>5. Cardinality((S \ gone) \cup {e}) <= limit
  BY <1>4, RoomForOne
<1> QED
  BY <1>5 DEF limit

LEMMA PartStaysBounded ==
    ASSUME NEW S \in SUBSET StatEntries, NEW size \in Nat,
           Cardinality(S) <= SizeBound(size), NEW T \in SUBSET S
    PROVE  Cardinality(T) <= SizeBound(size)
<1>1. IsFiniteSet(S)
  BY BackupAssumption, FS_Subset
<1>2. /\ Cardinality(T) <= Cardinality(S)
      /\ Cardinality(S) \in Nat /\ Cardinality(T) \in Nat
  BY <1>1, FS_Subset, FS_CardinalityType
<1>3. SizeBound(size) \in Nat
  BY DEF SizeBound
<1> QED
  BY <1>2, <1>3

\* Neither store of a BackupLogStore ever holds more than its size, a single
\* entry if that is 0, though both are filled, emptied and expired through one
\* interface (backup_log_store.go:26-51, memory_log_store.go:42).
THEOREM BackupBounded == BackupSpec => []BothBounded
<1>1. BackupInit => BothBounded
  <2>1. SizeBound(PrimarySize) \in Nat /\ SizeBound(BackupSize) \in Nat
    BY BackupAssumption DEF SizeBound
  <2> QED
    BY <2>1, FS_EmptySet DEF BackupInit, BothBounded
<1>2. BackupTypeOK /\ BothBounded /\ [BackupNext]_backupVars => BothBounded'
  <2> SUFFICES ASSUME BackupTypeOK, BothBounded, [BackupNext]_backupVars PROVE BothBounded'
    OBVIOUS
  <2>1. /\ primary \in SUBSET StatEntries /\ backup \in SUBSET StatEntries
        /\ Cardinality(primary) <= SizeBound(PrimarySize)
        /\ Cardinality(backup) <= SizeBound(BackupSize)
        /\ PrimarySize \in Nat /\ BackupSize \in Nat
    BY StoredEntries, BackupAssumption DEF BothBounded
  <2>2. ASSUME NEW e \in StatEntries, StorePrimary(e) PROVE BothBounded'
    <3>1. PICK gone \in SUBSET primary :
             /\ MakesRoom(gone, primary, StampOf, PrimarySize)
             /\ primary' = (primary \ gone) \cup {e}
      BY <2>2 DEF StorePrimary
    <3>2. Cardinality((primary \ gone) \cup {e}) <= SizeBound(PrimarySize)
      BY <2>1, <3>1, InsertStaysBounded
    <3>3. backup' = backup
      BY <2>2 DEF StorePrimary
    <3> QED
      BY <2>1, <3>1, <3>2, <3>3 DEF BothBounded, SizeBound
  <2>3. ASSUME NEW e \in StatEntries, StoreBackup(e) PROVE BothBounded'
    <3>1. PICK gone \in SUBSET backup :
             /\ MakesRoom(gone, backup, StampOf, BackupSize)
             /\ backup' = (backup \ gone) \cup {e}
      BY <2>3 DEF StoreBackup
    <3>2. Cardinality((backup \ gone) \cup {e}) <= SizeBound(BackupSize)
      BY <2>1, <3>1, InsertStaysBounded
    <3>3. primary' = primary
      BY <2>3 DEF StoreBackup
    <3> QED
      BY <2>1, <3>1, <3>2, <3>3 DEF BothBounded, SizeBound
  <2>4. ASSUME primary' \in SUBSET primary, backup' \in SUBSET backup PROVE BothBounded'
    <3>1. /\ Cardinality(primary') <= SizeBound(PrimarySize)
          /\ Cardinality(backup') <= SizeBound(BackupSize)
      BY <2>1, <2>4, PartStaysBounded
    <3> QED
      BY <3>1 DEF BothBounded, SizeBound
  <2>5. CASE \/ \E e \in StatEntries : DeleteEither(e)
             \/ \E e \in StatEntries : DiscardPrimary({o \in StatEntries : o.ts < e.ts})
             \/ DiscardPrimary(StatEntries)
             \/ DiscardBackup
             \/ UNCHANGED backupVars
    BY <2>4, <2>5 DEF DeleteEither, DiscardPrimary, DiscardBackup, backupVars
  <2> QED
    BY <2>2, <2>3, <2>5 DEF BackupNext
<1> QED
  BY <1>1, <1>2, BackupTypeCorrect, PTL DEF BackupSpec

-----------------------------------------------------------------------------
(* The endpoints agree.                                                    *)

LEMMA Answers ==
    ASSUME NEW S, NEW start, NEW end, NEW now, NEW from, NEW to,
           from = RequestedFrom(start, now), to = RequestedTo(end, now)
    PROVE  /\ StatsAnswer(<<>>, S, start, end, now) = Statistics(S, from, to)
           /\ StatsAnswer(<<"hourly">>, S, start, end, now) = HourlyBreakdown(S, from, to)
           /\ StatsAnswer(<<"error-rate">>, S, start, end, now)
              = ErrorRateTrend(HourlyBreakdown(S, from, to))
           /\ StatsAnswer(<<"sources">>, S, start, end, now) = Statistics(S, from, to).bySource
           /\ StatsAnswer(<<"levels">>, S, start, end, now) = Statistics(S, from, to).byLevel
<1>1. /\ StatsRoute(<<>>) = "stats"
      /\ StatsRoute(<<"hourly">>) = "hourly"
      /\ StatsRoute(<<"error-rate">>) = "error-rate"
      /\ StatsRoute(<<"sources">>) = "sources"
      /\ StatsRoute(<<"levels">>) = "levels"
  BY DEF StatsRoute, StatsRoutes
<1> QED
  BY <1>1, Zenon DEF StatsAnswer

\* Each count of a kind, added up over the kinds, is the count of all.
LEMMA StatisticsAddUp ==
    ASSUME NEW S \in SUBSET StatEntries, NEW from \in Int, NEW to \in Int,
           NEW R, R = InRange(S, from, to), NEW stats, stats = Statistics(S, from, to)
    PROVE  /\ stats.total = Cardinality(R)
           /\ SumFunction(stats.byLevel) = Cardinality(R)
           /\ SumFunction(stats.bySource) = Cardinality(R)
           /\ SumFunction(stats.byService) <= Cardinality(R)
           /\ stats.errors = Cardinality({e \in R : e.level \in ErrorLevels})
           /\ \A s \in Sources : stats.bySource[s] > 0 => s \in ListSources(S)
<1>1. IsFiniteSet(R) /\ R \subseteq S /\ R \subseteq StatEntry
  BY RangeOfEntries, BackupAssumption
<1> DEFINE byLevel == [l \in Levels |-> Cardinality({e \in R : e.level = l})]
           bySource == [s \in Sources |-> Cardinality({e \in R : e.source = s})]
           byService == [s \in Services |-> Cardinality({e \in R : e.service = s})]
<1>2. /\ stats.total = Cardinality(R) /\ stats.byLevel = byLevel
      /\ stats.bySource = bySource /\ stats.byService = byService
      /\ stats.errors = SumFunctionOnSet(byLevel, ErrorLevels)
  BY DEF Statistics
<1>3. ASSUME NEW K \in SUBSET Levels
      PROVE  SumFunctionOnSet(byLevel, K) = Cardinality({e \in R : e.level \in K})
  <2> DEFINE key == [e \in R |-> e.level]
  <2>1. IsFiniteSet(K)
    BY StatisticsAssumption, FS_Subset
  <2>2. CountsKeys(byLevel, R, key, K)
    <3>1. \A k : {e \in R : key[e] = k} = {e \in R : e.level = k}
      OBVIOUS
    <3> HIDE DEF key
    <3> QED
      BY <3>1 DEF CountsKeys
  <2>3. {e \in R : key[e] \in K} = {e \in R : e.level \in K}
    OBVIOUS
  <2> HIDE DEF key, byLevel
  <2> QED
    BY <1>1, <2>1, <2>2, <2>3, PartitionSum
<1>4. SumFunctionOnSet(bySource, Sources) = Cardinality({e \in R : e.source \in Sources})
  <2> DEFINE key == [e \in R |-> e.source]
  <2>1. CountsKeys(bySource, R, key, Sources)
    <3>1. \A k : {e \in R : key[e] = k} = {e \in R : e.source = k}
      OBVIOUS
    <3> HIDE DEF key
    <3> QED
      BY <3>1 DEF CountsKeys
  <2>2. {e \in R : key[e] \in Sources} = {e \in R : e.source \in Sources}
    OBVIOUS
  <2> HIDE DEF key, bySource
  <2> QED
    BY <1>1, <2>1, <2>2, StatisticsAssumption, PartitionSum
<1>5. SumFunctionOnSet(byService, Services) = Cardinality({e \in R : e.service \in Services})
  <2> DEFINE key == [e \in R |-> e.service]
  <2>1. CountsKeys(byService, R, key, Services)
    <3>1. \A k : {e \in R : key[e] = k} = {e \in R : e.service = k}
      OBVIOUS
    <3> HIDE DEF key
    <3> QED
      BY <3>1 DEF CountsKeys
  <2>2. {e \in R : key[e] \in Services} = {e \in R : e.service \in Services}
    OBVIOUS
  <2> HIDE DEF key, byService
  <2> QED
    BY <1>1, <2>1, <2>2, StatisticsAssumption, PartitionSum
<1>6. {e \in R : e.level \in Levels} = R /\ {e \in R : e.source \in Sources} = R
  BY <1>1 DEF StatEntry
<1>7. Cardinality({e \in R : e.service \in Services}) <= Cardinality(R)
  BY <1>1, FS_Subset
<1>8. ASSUME NEW s \in Sources, bySource[s] > 0 PROVE s \in ListSources(S)
  <2> SUFFICES ASSUME \A e \in S : e.source # s PROVE FALSE
    BY DEF ListSources
  <2>1. {e \in R : e.source = s} = {}
    BY <1>1
  <2>2. bySource[s] = 0
    BY <2>1, FS_EmptySet
  <2> QED
    BY <1>8, <2>2
<1>9. ErrorLevels \in SUBSET Levels
  BY StatisticsAssumption
<1>10. DOMAIN byLevel = Levels /\ DOMAIN bySource = Sources /\ DOMAIN byService = Services
  OBVIOUS
<1> HIDE DEF byLevel, bySource, byService
<1> QED
  BY <1>2, <1>3, <1>4, <1>5, <1>6, <1>7, <1>8, <1>9, <1>10 DEF SumFunction

\* The hour and the level of an entry.
HourKey(R) == [e \in R |-> <<HourLabel(e), e.level>>]

\* b has the hours and levels of the entries R, and counts them.
CountsHours(b, R) ==
    /\ \A e \in R : HourKey(R)[e] = <<HourLabel(e), e.level>> /\ HourKey(R)[e] \in DOMAIN b
    /\ \A k \in DOMAIN b : \E e \in R : k = HourKey(R)[e]
    /\ IsFiniteSet(DOMAIN b)
    /\ CountsKeys(b, R, HourKey(R), DOMAIN b)

LEMMA HourlyCounts ==
    ASSUME NEW S \in SUBSET StatEntries, NEW from \in Int, NEW to \in Int,
           NEW R, R = InRange(S, from, to), NEW b, b = HourlyBreakdown(S, from, to)
    PROVE  CountsHours(b, R)
<1>1. b = [k \in {<<HourLabel(e), e.level>> : e \in R} |->
              Cardinality({e \in R : <<HourLabel(e), e.level>> = k})]
  BY DEF HourlyBreakdown
<1>2. DOMAIN b = {HourKey(R)[e] : e \in R}
  BY <1>1 DEF HourKey
<1>3. IsFiniteSet(R)
  BY RangeOfEntries
<1>4. IsFiniteSet(DOMAIN b)
  BY <1>2, <1>3, ImageIsFinite
<1>5. ASSUME NEW k \in DOMAIN b PROVE b[k] = Cardinality({e \in R : HourKey(R)[e] = k})
  <2>1. {e \in R : HourKey(R)[e] = k} = {e \in R : <<HourLabel(e), e.level>> = k}
    BY DEF HourKey
  <2> QED
    BY <1>1, <2>1
<1>6. \A e \in R : HourKey(R)[e] = <<HourLabel(e), e.level>>
  BY DEF HourKey
<1>7. CountsKeys(b, R, HourKey(R), DOMAIN b)
  BY <1>5 DEF CountsKeys
<1> QED
  BY <1>2, <1>4, <1>6, <1>7 DEF CountsHours

\* The sum over some of the hours and levels counts the entries that are of them.
LEMMA HourlySum ==
    ASSUME NEW S \in SUBSET StatEntries, NEW from \in Int, NEW to \in Int,
           NEW R, R = InRange(S, from, to), NEW b, b = HourlyBreakdown(S, from, to),
           NEW K \in SUBSET DOMAIN b
    PROVE  SumFunctionOnSet(b, K) = Cardinality({e \in R : HourKey(R)[e] \in K})
<1>1. /\ IsFiniteSet(R)
      /\ IsFiniteSet(K)
  BY RangeOfEntries, HourlyCounts, FS_Subset DEF CountsHours
<1>2. CountsKeys(b, R, HourKey(R), K)
  <2>1. CountsKeys(b, R, HourKey(R), DOMAIN b)
    BY HourlyCounts DEF CountsHours
  <2> QED
    BY <2>1 DEF CountsKeys
<1> QED
  BY <1>1, <1>2, PartitionSum

\* The point of the trend for an hour.
PointOf(R, hour) ==
    [time |-> hour,
     total |-> Cardinality({e \in R : HourLabel(e) = hour}),
     errors |-> Cardinality({e \in R : HourLabel(e) = hour /\ e.level \in ErrorLevels})]

LEMMA TrendPoints ==
    ASSUME NEW S \in SUBSET StatEntries, NEW from \in Int, NEW to \in Int,
           NEW R, R = InRange(S, from, to), NEW b, b = HourlyBreakdown(S, from, to)
    PROVE  ErrorRateTrend(b) = {PointOf(R, HourLabel(e)) : e \in R}
<1>0. /\ \A e \in R : HourKey(R)[e] = <<HourLabel(e), e.level>> /\ HourKey(R)[e] \in DOMAIN b
      /\ \A k \in DOMAIN b : \E e \in R : k = HourKey(R)[e]
  <2>1. CountsHours(b, R)
    BY HourlyCounts
  <2> QED
    BY <2>1 DEF CountsHours
<1> DEFINE of(hour) == {k \in DOMAIN b : k[1] = hour}
           bad(hour) == {k \in of(hour) : k[2] \in ErrorLevels}
           pt(hour) == [time |-> hour, total |-> SumFunctionOnSet(b, of(hour)),
                        errors |-> SumFunctionOnSet(b, bad(hour))]
<1>1. ErrorRateTrend(b) = {pt(hour) : hour \in {k[1] : k \in DOMAIN b}}
  BY DEF ErrorRateTrend
<1>2. \A hour : {e \in R : HourKey(R)[e] \in of(hour)} = {e \in R : HourLabel(e) = hour}
  BY <1>0
<1>3. \A hour : {e \in R : HourKey(R)[e] \in bad(hour)}
                = {e \in R : HourLabel(e) = hour /\ e.level \in ErrorLevels}
  BY <1>0
<1>4. ASSUME NEW hour PROVE pt(hour) = PointOf(R, hour)
  <2>1. of(hour) \in SUBSET DOMAIN b /\ bad(hour) \in SUBSET DOMAIN b
    OBVIOUS
  <2> HIDE DEF of, bad
  <2>2. SumFunctionOnSet(b, of(hour)) = Cardinality({e \in R : HourLabel(e) = hour})
    BY <1>2, <2>1, HourlySum
  <2>3. SumFunctionOnSet(b, bad(hour))
        = Cardinality({e \in R : HourLabel(e) = hour /\ e.level \in ErrorLevels})
    BY <1>3, <2>1, HourlySum
  <2> QED
    BY <2>2, <2>3 DEF PointOf
<1>5. {k[1] : k \in DOMAIN b} = {HourLabel(e) : e \in R}
  BY <1>0
<1> HIDE DEF pt
<1> QED
  BY <1>1, <1>4, <1>5

\* The points have an hour of their own each: the entries of a point are those of
\* its hour.
LEMMA TrendAddsUp ==
    ASSUME NEW S \in SUBSET StatEntries, NEW from \in Int, NEW to \in Int,
           NEW R, R = InRange(S, from, to),
           NEW trend, trend = ErrorRateTrend(HourlyBreakdown(S, from, to))
    PROVE  /\ SumFunction([p \in trend |-> p.total]) = Cardinality(R)
           /\ SumFunction([p \in trend |-> p.errors])
              = Cardinality({e \in R : e.level \in ErrorLevels})
<1> DEFINE key == [e \in R |-> PointOf(R, HourLabel(e))]
           errorsOf == {e \in R : e.level \in ErrorLevels}
<1>1. IsFiniteSet(R) /\ IsFiniteSet(errorsOf)
  BY RangeOfEntries, FS_Subset
<1>2. trend = {PointOf(R, HourLabel(e)) : e \in R}
  BY TrendPoints
<1>3. trend = {key[e] : e \in R}
  BY <1>2
<1>4. IsFiniteSet(trend)
  <2> HIDE DEF key
  <2> QED
    BY <1>1, <1>3, ImageIsFinite
<1>5. ASSUME NEW p \in trend
      PROVE  /\ p.total = Cardinality({e \in R : key[e] = p})
             /\ p.errors = Cardinality({e \in errorsOf : key[e] = p})
  <2>1. PICK o \in R : p = PointOf(R, HourLabel(o))
    BY <1>2
  <2>2. \A e \in R : key[e] = p <=> HourLabel(e) = HourLabel(o)
    BY <2>1 DEF PointOf
  <2>3. /\ p.total = Cardinality({e \in R : HourLabel(e) = HourLabel(o)})
        /\ p.errors = Cardinality({e \in R : HourLabel(e) = HourLabel(o) /\ e.level \in ErrorLevels})
    BY <2>1 DEF PointOf
  <2>4. {e \in R : key[e] = p} = {e \in R : HourLabel(e) = HourLabel(o)}
    BY <2>2
  <2>5. {e \in errorsOf : key[e] = p}
        = {e \in R : HourLabel(e) = HourLabel(o) /\ e.level \in ErrorLevels}
    BY <2>2
  <2> HIDE DEF key, errorsOf
  <2> QED
    BY <2>3, <2>4, <2>5
<1>6. {e \in R : key[e] \in trend} = R /\ {e \in errorsOf : key[e] \in trend} = errorsOf
  BY <1>3
<1> HIDE DEF key, errorsOf
<1>7. SumFunction([p \in trend |-> p.total]) = Cardinality(R)
  <2> DEFINE f == [p \in trend |-> p.total]
  <2>1. CountsKeys(f, R, key, trend) /\ DOMAIN f = trend
    BY <1>5 DEF CountsKeys
  <2> HIDE DEF f
  <2>2. SumFunctionOnSet(f, trend) = Cardinality({e \in R : key[e] \in trend})
    BY <1>1, <1>4, <2>1, PartitionSum
  <2>3. SumFunction(f) = Cardinality(R)
    BY <1>6, <2>1, <2>2 DEF SumFunction
  <2> QED
    BY <2>3 DEF f
<1>8. SumFunction([p \in trend |-> p.errors]) = Cardinality(errorsOf)
  <2> DEFINE f == [p \in trend |-> p.errors]
  <2>1. CountsKeys(f, errorsOf, key, trend) /\ DOMAIN f = trend
    BY <1>5 DEF CountsKeys
  <2> HIDE DEF f
  <2>2. SumFunctionOnSet(f, trend) = Cardinality({e \in errorsOf : key[e] \in trend})
    BY <1>1, <1>4, <2>1, PartitionSum
  <2>3. SumFunction(f) = Cardinality(errorsOf)
    BY <1>6, <2>1, <2>2 DEF SumFunction
  <2> QED
    BY <2>3 DEF f
<1> QED
  BY <1>7, <1>8 DEF errorsOf

\* The five endpoints, Count and the list of sources tell one story of any logs,
\* for any range that can be asked for: each entry in it is counted once in every
\* breakdown, whatever its location, source and level
\* (memory_log_store.go:116-272, stats_service.go:87).
THEOREM EndpointsAgree == BackupSpec => []StatisticsAgree
<1>1. BackupTypeOK => StatisticsAgree
  <2> SUFFICES ASSUME BackupTypeOK, NEW now \in Stamps,
                      NEW start \in Stamps \cup {NoTime}, NEW end \in Stamps \cup {NoTime}
               PROVE  LET Answer(path) == StatsAnswer(path, primary, start, end, now)
                          stats == Answer(<<>>)
                          hourly == Answer(<<"hourly">>)
                          trend == Answer(<<"error-rate">>) IN
                      /\ stats.total = CountInRange(primary, RequestedFrom(start, now),
                                                             RequestedTo(end, now))
                      /\ stats.total = SumFunction(hourly)
                      /\ stats.total = SumFunction(Answer(<<"sources">>))
                      /\ stats.total = SumFunction(Answer(<<"levels">>))
                      /\ stats.total >= SumFunction(stats.byService)
                      /\ stats.total = SumFunction([p \in trend |-> p.total])
                      /\ stats.errors = SumFunction([p \in trend |-> p.errors])
                      /\ \A s \in Sources : stats.bySource[s] > 0 => s \in ListSources(primary)
    BY DEF StatisticsAgree
  <2> DEFINE from == RequestedFrom(start, now)
             to == RequestedTo(end, now)
             R == InRange(primary, from, to)
             stats == Statistics(primary, from, to)
             hourly == HourlyBreakdown(primary, from, to)
             trend == ErrorRateTrend(hourly)
  <2>1. primary \in SUBSET StatEntries /\ from \in Int /\ to \in Int
    BY StoredEntries, StatisticsAssumption DEF RequestedFrom, RequestedTo
  <2>2. /\ StatsAnswer(<<>>, primary, start, end, now) = stats
        /\ StatsAnswer(<<"hourly">>, primary, start, end, now) = hourly
        /\ StatsAnswer(<<"error-rate">>, primary, start, end, now) = trend
        /\ StatsAnswer(<<"sources">>, primary, start, end, now) = stats.bySource
        /\ StatsAnswer(<<"levels">>, primary, start, end, now) = stats.byLevel
    BY Answers
  <2> HIDE DEF from, to
  <2>3. CountInRange(primary, from, to) = Cardinality(R) /\ IsFiniteSet(R)
    BY <2>1, RangeOfEntries
  <2>4. /\ stats.total = Cardinality(R)
        /\ SumFunction(stats.byLevel) = Cardinality(R)
        /\ SumFunction(stats.bySource) = Cardinality(R)
        /\ SumFunction(stats.byService) <= Cardinality(R)
        /\ stats.errors = Cardinality({e \in R : e.level \in ErrorLevels})
        /\ \A s \in Sources : stats.bySource[s] > 0 => s \in ListSources(primary)
    BY <2>1, StatisticsAddUp
  <2>5. SumFunction(hourly) = Cardinality(R)
    <3>1. \A e \in R : HourKey(R)[e] \in DOMAIN hourly
      BY <2>1, HourlyCounts DEF CountsHours
    <3>2. SumFunctionOnSet(hourly, DOMAIN hourly)
          = Cardinality({e \in R : HourKey(R)[e] \in DOMAIN hourly})
      BY <2>1, HourlySum
    <3>3. {e \in R : HourKey(R)[e] \in DOMAIN hourly} = R
      BY <3>1
    <3> HIDE DEF hourly
    <3> QED
      BY <3>2, <3>3 DEF SumFunction
  <2>6. /\ SumFunction([p \in trend |-> p.total]) = Cardinality(R)
        /\ SumFunction([p \in trend |-> p.errors])
           = Cardinality({e \in R : e.level \in ErrorLevels})
    BY <2>1, TrendAddsUp
  <2> DEFINE serviceSum == SumFunction(stats.byService)
             count == Cardinality(R)
  <2>7. serviceSum <= count => count >= serviceSum
    OBVIOUS
  <2> HIDE DEF R, stats, hourly, trend
  <2> QED
    BY <2>2, <2>3, <2>4, <2>5, <2>6 DEF from, to
<1> QED
  BY <1>1, BackupTypeCorrect, PTL

-----------------------------------------------------------------------------
(* The merged answers of the two stores.                                   *)

\* P and B are two stores with nothing in common.
Apart(P, B) == P \in SUBSET StatEntries /\ B \in SUBSET StatEntries /\ P \cap B = {}

\* W has what R and Q have, and no entry twice.
Merges(W, R, Q) == W = R \cup Q /\ R \cap Q = {} /\ IsFiniteSet(R) /\ IsFiniteSet(Q)

\* The entries of S that are of a kind.
OfKind(S, kind) == {e \in S : e \in kind}

\* Counting the entries of a kind in both stores counts those of their union.
LEMMA CountsMerge ==
    ASSUME NEW both, NEW one, NEW other, Merges(both, one, other), NEW T
    PROVE  Cardinality(OfKind(both, T))
           = Cardinality(OfKind(one, T)) + Cardinality(OfKind(other, T))
<1>1. /\ OfKind(both, T) = OfKind(one, T) \cup OfKind(other, T)
      /\ OfKind(one, T) \cap OfKind(other, T) = {}
  BY DEF Merges, OfKind
<1>2. IsFiniteSet(OfKind(one, T)) /\ IsFiniteSet(OfKind(other, T))
  BY FS_Subset DEF Merges, OfKind
<1> QED
  BY <1>1, <1>2, CountedApart

LEMMA RangesMerge ==
    ASSUME NEW P, NEW B, Apart(P, B), NEW from \in Int, NEW to \in Int
    PROVE  Merges(InRange(P \cup B, from, to), InRange(P, from, to), InRange(B, from, to))
<1>1. P \in SUBSET StatEntries /\ B \in SUBSET StatEntries /\ P \cap B = {}
  BY DEF Apart
<1>2. IsFiniteSet(InRange(P, from, to)) /\ IsFiniteSet(InRange(B, from, to))
  BY <1>1, RangeOfEntries
<1>3. InRange(P, from, to) \cap InRange(B, from, to) = {}
  BY <1>1 DEF InRange
<1>4. InRange(P \cup B, from, to) = InRange(P, from, to) \cup InRange(B, from, to)
  BY DEF InRange
<1> QED
  BY <1>2, <1>3, <1>4 DEF Merges

\* What is not merged are the counts by service.
AgreeButServices(merged, whole) == [merged EXCEPT !.byService = whole.byService] = whole

LEMMA StatisticsMerge ==
    ASSUME NEW P, NEW B, Apart(P, B), NEW from \in Int, NEW to \in Int
    PROVE  AgreeButServices(StatisticsBoth(P, B, from, to), Statistics(P \cup B, from, to))
<1> DEFINE merged == StatisticsBoth(P, B, from, to)
           whole == Statistics(P \cup B, from, to)
           R == InRange(P, from, to)
           Q == InRange(B, from, to)
           W == InRange(P \cup B, from, to)
           ofLevel(T) == [l \in Levels |-> Cardinality({e \in T : e.level = l})]
           ofSource(T) == [s \in Sources |-> Cardinality({e \in T : e.source = s})]
           ofService(T) == [s \in Services |-> Cardinality({e \in T : e.service = s})]
           level == [l \in Levels |-> ofLevel(R)[l] + ofLevel(Q)[l]]
           source == [s \in Sources |-> ofSource(R)[s] + ofSource(Q)[s]]
<1>1. Merges(W, R, Q)
  BY RangesMerge
<1>2. merged = [total |-> Cardinality(R) + Cardinality(Q), byLevel |-> level,
                bySource |-> source, byService |-> [s \in Services |-> 0],
                errors |-> SumFunctionOnSet(level, ErrorLevels)]
  BY DEF StatisticsBoth, Statistics
<1>3. whole = [total |-> Cardinality(W), byLevel |-> ofLevel(W),
               bySource |-> ofSource(W), byService |-> ofService(W),
               errors |-> SumFunctionOnSet(ofLevel(W), ErrorLevels)]
  BY DEF Statistics
<1> HIDE DEF R, Q, W
<1>4. Cardinality(W) = Cardinality(R) + Cardinality(Q)
  BY <1>1, CountedApart DEF Merges
<1>5. ofLevel(W) = level
  <2>1. ASSUME NEW l \in Levels
        PROVE  Cardinality({e \in W : e.level = l})
               = Cardinality({e \in R : e.level = l}) + Cardinality({e \in Q : e.level = l})
    <3> DEFINE kind == {e \in R \cup Q : e.level = l}
    <3>1. /\ OfKind(W, kind) = {e \in W : e.level = l}
          /\ OfKind(R, kind) = {e \in R : e.level = l}
          /\ OfKind(Q, kind) = {e \in Q : e.level = l}
      BY <1>1 DEF Merges, OfKind
    <3> HIDE DEF kind
    <3>2. Cardinality(OfKind(W, kind)) = Cardinality(OfKind(R, kind)) + Cardinality(OfKind(Q, kind))
      BY <1>1, CountsMerge
    <3> QED
      BY <3>1, <3>2
  <2> QED
    BY <2>1
<1>6. ofSource(W) = source
  <2>1. ASSUME NEW s \in Sources
        PROVE  Cardinality({e \in W : e.source = s})
               = Cardinality({e \in R : e.source = s}) + Cardinality({e \in Q : e.source = s})
    <3> DEFINE kind == {e \in R \cup Q : e.source = s}
    <3>1. /\ OfKind(W, kind) = {e \in W : e.source = s}
          /\ OfKind(R, kind) = {e \in R : e.source = s}
          /\ OfKind(Q, kind) = {e \in Q : e.source = s}
      BY <1>1 DEF Merges, OfKind
    <3> HIDE DEF kind
    <3>2. Cardinality(OfKind(W, kind)) = Cardinality(OfKind(R, kind)) + Cardinality(OfKind(Q, kind))
      BY <1>1, CountsMerge
    <3> QED
      BY <3>1, <3>2
  <2> QED
    BY <2>1
<1> HIDE DEF ofLevel, ofSource, ofService, level, source, merged, whole
<1>7. AgreeButServices(merged, whole)
  BY <1>2, <1>3, <1>4, <1>5, <1>6 DEF AgreeButServices
<1> QED
  BY <1>7 DEF merged, whole

\* A key that one store does not have counts for nothing there.
LEMMA HourlyMerge ==
    ASSUME NEW P, NEW B, Apart(P, B), NEW from \in Int, NEW to \in Int
    PROVE  HourlyBreakdownBoth(P, B, from, to) = HourlyBreakdown(P \cup B, from, to)
<1> DEFINE R == InRange(P, from, to)
           Q == InRange(B, from, to)
           W == InRange(P \cup B, from, to)
           key(e) == <<HourLabel(e), e.level>>
           hours(T) == [k \in {key(e) : e \in T} |-> Cardinality({e \in T : key(e) = k})]
           of(T, k) == Cardinality({e \in T : key(e) = k})
<1>1. Merges(W, R, Q)
  BY RangesMerge
<1>2. /\ HourlyBreakdown(P, from, to) = hours(R)
      /\ HourlyBreakdown(B, from, to) = hours(Q)
      /\ HourlyBreakdown(P \cup B, from, to) = hours(W)
  BY DEF HourlyBreakdown
<1> HIDE DEF R, Q, W
<1>3. HourlyBreakdownBoth(P, B, from, to)
      = [k \in DOMAIN hours(R) \cup DOMAIN hours(Q) |->
            CountOf(hours(R), k) + CountOf(hours(Q), k)]
  BY <1>2, Zenon DEF HourlyBreakdownBoth
<1>4. ASSUME NEW T, NEW k PROVE CountOf(hours(T), k) = of(T, k)
  <2>1. CASE k \in {key(e) : e \in T}
    BY <2>1 DEF CountOf
  <2>2. CASE k \notin {key(e) : e \in T}
    <3>1. {e \in T : key(e) = k} = {}
      BY <2>2
    <3>2. of(T, k) = 0
      BY <3>1, FS_EmptySet
    <3>3. k \notin DOMAIN hours(T)
      BY <2>2
    <3> HIDE DEF hours, of
    <3> QED
      BY <3>2, <3>3 DEF CountOf
  <2> QED
    BY <2>1, <2>2
<1>5. ASSUME NEW k PROVE of(W, k) = of(R, k) + of(Q, k)
  <2> HIDE DEF key
  <2> DEFINE kind == {e \in R \cup Q : key(e) = k}
  <2>1. /\ OfKind(W, kind) = {e \in W : key(e) = k}
        /\ OfKind(R, kind) = {e \in R : key(e) = k}
        /\ OfKind(Q, kind) = {e \in Q : key(e) = k}
    BY <1>1 DEF Merges, OfKind
  <2> HIDE DEF kind
  <2>2. Cardinality(OfKind(W, kind)) = Cardinality(OfKind(R, kind)) + Cardinality(OfKind(Q, kind))
    BY <1>1, CountsMerge
  <2> QED
    BY <2>1, <2>2
<1>6. DOMAIN hours(W) = DOMAIN hours(R) \cup DOMAIN hours(Q)
  BY <1>1 DEF Merges
<1>7. hours(W) = [k \in DOMAIN hours(W) |-> of(W, k)]
  OBVIOUS
<1> HIDE DEF hours, of
<1>8. HourlyBreakdownBoth(P, B, from, to) = [k \in DOMAIN hours(W) |-> of(R, k) + of(Q, k)]
  BY <1>3, <1>4, <1>6
<1>9. hours(W) = [k \in DOMAIN hours(W) |-> of(R, k) + of(Q, k)]
  BY <1>5, <1>7
<1> QED
  BY <1>2, <1>8, <1>9

LEMMA FirstPagesMerge ==
    ASSUME NEW P, NEW B, Apart(P, B), NEW limit \in Nat
    PROVE  QueryBoth(P, B, limit, 0) = PageSize(Cardinality(P \cup B), limit, 0)
<1>1. IsFiniteSet(P) /\ IsFiniteSet(B) /\ P \cap B = {}
  BY BackupAssumption, FS_Subset DEF Apart
<1>2. /\ Cardinality(P \cup B) = Cardinality(P) + Cardinality(B)
      /\ Cardinality(P) \in Nat /\ Cardinality(B) \in Nat
  BY <1>1, CountedApart
<1> QED
  BY <1>2 DEF QueryBoth, PageSize

\* What BackupLogStore answers for its two stores is what one store with all of
\* their entries would answer, however many entries were evicted, deleted and
\* expired: no entry is ever counted twice (backup_log_store.go:62-249).
THEOREM MergedAnswersAgree == BackupSpec => []MergeAgrees
<1>1. BackupTypeOK => MergeAgrees
  <2> SUFFICES ASSUME BackupTypeOK PROVE MergeAgrees
    OBVIOUS
  <2>1. Apart(primary, backup) /\ Stamps \subseteq Int
    BY StoredEntries DEF Apart
  <2>2. /\ ListSourcesBoth(primary, backup) = ListSources(primary \cup backup)
        /\ ListServicesBoth(primary, backup) = ListServices(primary \cup backup)
    BY DEF ListSourcesBoth, ListSources, ListServicesBoth, ListServices
  <2>3. ASSUME NEW limit \in 0..Cardinality(StatEntries)
        PROVE  QueryBoth(primary, backup, limit, 0)
               = PageSize(Cardinality(primary \cup backup), limit, 0)
    BY <2>1, FirstPagesMerge
  <2>4. ASSUME NEW from \in Stamps, NEW to \in Stamps
        PROVE  LET merged == StatisticsBoth(primary, backup, from, to)
                   whole == Statistics(primary \cup backup, from, to) IN
               /\ [merged EXCEPT !.byService = whole.byService] = whole
               /\ CountBoth(primary, backup, from, to) = whole.total
               /\ HourlyBreakdownBoth(primary, backup, from, to)
                  = HourlyBreakdown(primary \cup backup, from, to)
    <3> DEFINE merged == StatisticsBoth(primary, backup, from, to)
               whole == Statistics(primary \cup backup, from, to)
               R == InRange(primary, from, to)
               Q == InRange(backup, from, to)
    <3>1. from \in Int /\ to \in Int
      BY <2>1
    <3>2. AgreeButServices(merged, whole)
      BY <2>1, <3>1, StatisticsMerge
    <3>3. HourlyBreakdownBoth(primary, backup, from, to)
          = HourlyBreakdown(primary \cup backup, from, to)
      BY <2>1, <3>1, HourlyMerge
    <3>4. CountBoth(primary, backup, from, to) = Cardinality(R) + Cardinality(Q)
      BY <2>1, <3>1, RangeOfEntries DEF CountBoth, Apart
    <3>5. whole.total = Cardinality(InRange(primary \cup backup, from, to))
      BY DEF Statistics
    <3>6. Merges(InRange(primary \cup backup, from, to), R, Q)
      BY <2>1, <3>1, RangesMerge
    <3> HIDE DEF R, Q, merged, whole
    <3>7. Cardinality(R \cup Q) = Cardinality(R) + Cardinality(Q)
      BY <3>6, CountedApart DEF Merges
    <3>8. CountBoth(primary, backup, from, to) = whole.total
      BY <3>4, <3>5, <3>6, <3>7 DEF Merges
    <3>9. [merged EXCEPT !.byService = whole.byService] = whole
      BY <3>2 DEF AgreeButServices
    <3> QED
      BY <3>3, <3>8, <3>9 DEF merged, whole
  <2> QED
    BY <2>2, <2>3, <2>4 DEF MergeAgrees
<1> QED
  BY <1>1, BackupTypeCorrect, PTL

-----------------------------------------------------------------------------
(* The stores together.                                                    *)

\* A behaviour of the stores is one of each of them: a walk through the pages is
\* a series of calls of the log store, and the others leave it alone.
LEMMA StoresAreApart == StoresSpec => Spec /\ AlertSpec /\ FilesSpec /\ BackupSpec
<1>1. StoresInit => Init /\ AlertInit /\ FilesInit /\ BackupInit
  BY DEF StoresInit, PagingInit
<1>2. PagingNext => [Next]_vars
  BY DEF PagingNext, NextPage, StartAgain, Written, Next
<1>3. [StoresNext]_<<pagingVars, alertVars, fileVars, backupVars, exercised>>
      => [Next]_vars /\ [AlertNext]_alertVars /\ [FilesNext]_fileVars /\ [BackupNext]_backupVars
  BY <1>2 DEF StoresNext, pagingVars
<1> QED
  BY <1>1, <1>3, PTL DEF StoresSpec, Spec, AlertSpec, FilesSpec, BackupSpec

\* Logs, alerts, files and the store with a backup always have their types, for
\* any entries, callers and sizes: what StoreBatch has still to insert is not in
\* the store (memory_log_store.go:52-72), no entry is in both stores of a
\* BackupLogStore (backup_log_store.go:35-51).
THEOREM StoresTypeCorrect == StoresSpec => []StoresTypeOK
<1>1. TypeOK /\ AlertTypeOK /\ FilesTypeOK /\ BackupTypeOK => StoresTypeOK
  BY DEF StoresTypeOK
<1> QED
  BY <1>1, StoresAreApart, TypeCorrect, AlertTypeCorrect, FilesTypeCorrect, BackupTypeCorrect, PTL
=============================================================================
