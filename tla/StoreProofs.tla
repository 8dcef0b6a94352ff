---------------------------- MODULE StoreProofs -----------------------------
(***************************************************************************)
(* For any number of profiles and saves: no crash and no failing system    *)
(* call tears a file or takes it back to an older version, and only a      *)
(* crash leaves a temporary file behind.                                   *)
(***************************************************************************)
EXTENDS Store, TLAPS

USE StoreAssumption

Saving == {"create", "write", "chmod", "close", "rename"}

\* The temporary file that is renamed is complete, and newer than all files.
Newest ==
    /\ pc \in {"chmod", "close", "rename"} => tmp = version
    /\ pc = "return" => disk[target] = version
    /\ pc \in Saving \cup {"return"} => version > 0

\* Versions are handed out in order: none that is saved is from the future.
InOrder ==
    \A f \in File :
       /\ disk[f] \in Version => disk[f] <= version
       /\ acked[f] \in Version => acked[f] <= version
       /\ pc \in Saving \cup {"return"} /\ acked[f] \in Version => acked[f] < version

StoreInv == TypeOK /\ Newest /\ InOrder /\ SavesAreAtomic

LEMMA StoreInvInit == Init => StoreInv
  <1> SUFFICES ASSUME Init PROVE StoreInv
    OBVIOUS
  <1>1. NoFile \notin Version
    BY DEF Version
  <1>2. TypeOK
    <2>1. crashed \in BOOLEAN
      BY Zenon DEF Init
    <2>2. litter \in Nat /\ version \in 0..MaxVersions
      BY DEF Init
    <2>3. /\ disk \in [File -> Content] /\ acked \in [File -> Version \cup {NoFile}]
          /\ tmp \in Content /\ target \in File
      BY DEF Init, File, Content
    <2> QED
      BY <2>1, <2>2, <2>3, Zenon DEF Init, TypeOK
  <1>3. Newest /\ SavesAreAtomic
    BY DEF Init, Newest, SavesAreAtomic, Saving
  <1>4. InOrder
    BY <1>1 DEF Init, InOrder
  <1> QED
    BY <1>2, <1>3, <1>4 DEF StoreInv

\* A system call that fails, and one that only changes the temporary file.
LEMMA FailKeeps == StoreInv /\ Fail => StoreInv'
  BY DEF Fail, StoreInv, TypeOK, Newest, InOrder, SavesAreAtomic, Content, Saving

LEMMA TempOnlyKeeps ==
    ASSUME StoreInv,
           CreateTemp \/ WriteTemp \/ ChmodTemp \/ CloseTemp
    PROVE  StoreInv'
  <1>1. CASE Fail
    BY <1>1, FailKeeps
  <1>2. CASE ~Fail
    <2>1. UNCHANGED <<disk, litter, target, version, acked, crashed>>
      BY <1>2 DEF CreateTemp, WriteTemp, ChmodTemp, CloseTemp, Then
    <2>2. /\ pc \in Saving /\ pc' \in Saving
          /\ pc' \in {"chmod", "close", "rename"} => tmp' = version
          /\ tmp' \in {Torn, version, tmp}
      BY <1>2 DEF CreateTemp, WriteTemp, ChmodTemp, CloseTemp, Then, Saving, StoreInv, Newest
    <2>3. version \in Version
      BY <2>2 DEF StoreInv, TypeOK, Newest, Version
    <2> QED
      BY <2>1, <2>2, <2>3
      DEF StoreInv, TypeOK, Newest, InOrder, SavesAreAtomic, Content, Saving
  <1> QED
    BY <1>1, <1>2

LEMMA StoreInvStep == StoreInv /\ [Next]_vars => StoreInv'
  <1> SUFFICES ASSUME StoreInv, [Next]_vars PROVE StoreInv'
    OBVIOUS
  <1> USE DEF StoreInv
  <1>1. ASSUME NEW f \in File, Save(f) PROVE StoreInv'
    BY <1>1 DEF Save, TypeOK, Newest, InOrder, SavesAreAtomic, Version, Content, Saving
  <1>2. ASSUME NEW p \in Profile, Delete(p) PROVE StoreInv'
    BY <1>2 DEF Delete, TypeOK, Newest, InOrder, SavesAreAtomic, File, Version, Content, Saving
  <1>3. ASSUME CreateTemp \/ WriteTemp \/ ChmodTemp \/ CloseTemp PROVE StoreInv'
    BY <1>3, TempOnlyKeeps
  <1>4. CASE Rename
    <2>1. CASE Fail
      BY <2>1, FailKeeps
    <2>2. CASE ~Fail
      <3>1. version \in Version /\ tmp = version
        BY <1>4 DEF Rename, TypeOK, Newest, Version, Saving
      <3> QED
        BY <1>4, <2>2, <3>1
        DEF Rename, TypeOK, Newest, InOrder, SavesAreAtomic, Version, Content, Saving
    <2> QED
      BY <2>1, <2>2
  <1>5. CASE Return
    <2>1. version \in Version /\ disk[target] = version
      BY <1>5 DEF Return, TypeOK, Newest, Version
    <2> QED
      BY <1>5, <2>1 DEF Return, TypeOK, Newest, InOrder, SavesAreAtomic, Version, Content, Saving
  <1>6. CASE Crash
    BY <1>6 DEF Crash, TypeOK, Newest, InOrder, SavesAreAtomic, Content, Saving
  <1>7. CASE Restart
    <2>1. NoFile \notin Version /\ Torn \notin Version
      BY DEF Version
    <2>2. PICK gone \in SUBSET Examples :
            /\ disk' = [f \in File |-> IF f \in gone THEN NoFile ELSE disk[f]]
            /\ acked' = [f \in File |-> IF f \in gone THEN NoFile
                                        ELSE IF disk[f] = Torn THEN acked[f] ELSE disk[f]]
            /\ pc' = IF gone = Examples THEN "up" ELSE "down"
      BY <1>7 DEF Restart
    <2>3. ASSUME NEW f \in File
          PROVE  /\ disk'[f] \in Content /\ disk'[f] \in {disk[f], NoFile}
                 /\ acked'[f] \in Version \cup {NoFile}
                 /\ acked'[f] \in {disk[f], acked[f], NoFile}
                 /\ disk'[f] = acked'[f]
      BY <2>1, <2>2 DEF TypeOK, Content, SavesAreAtomic
    <2>4. TypeOK'
      BY <1>7, <2>2, <2>3 DEF Restart, TypeOK
    <2>5. InOrder'
      BY <1>7, <2>1, <2>2, <2>3 DEF Restart, InOrder, Saving
    <2>6. Newest' /\ SavesAreAtomic'
      BY <2>2, <2>3 DEF Newest, SavesAreAtomic, Saving
    <2> QED
      BY <2>4, <2>5, <2>6
  <1>8. CASE UNCHANGED vars
    BY <1>8 DEF vars, TypeOK, Newest, InOrder, SavesAreAtomic, Content, Saving
  <1> QED
    BY <1>1, <1>2, <1>3, <1>4, <1>5, <1>6, <1>7, <1>8 DEF Next

(***************************************************************************)
(* Every file holds what its user was told is saved, or a later complete   *)
(* version, whatever fails and whenever the process dies.                  *)
(***************************************************************************)
THEOREM FilesStayWhole == Spec => []SavesAreAtomic
  <1>1. StoreInv => SavesAreAtomic
    BY DEF StoreInv
  <1> QED
    BY <1>1, StoreInvInit, StoreInvStep, PTL DEF Spec

(***************************************************************************)
(* A system call that fails removes the temporary file it stood over.      *)
(* The invariant needs no help: between operations there is no temporary   *)
(* file, and litter grows in no step but the one that sets crashed.        *)
(***************************************************************************)
LEMMA LitterStep == OnlyCrashesLitter /\ [Next]_vars => OnlyCrashesLitter'
  <1> SUFFICES ASSUME OnlyCrashesLitter, [Next]_vars PROVE OnlyCrashesLitter'
    OBVIOUS
  <1> USE DEF OnlyCrashesLitter
  <1>1. ASSUME NEW f \in File, Save(f) PROVE OnlyCrashesLitter'
    BY <1>1 DEF Save
  <1>2. ASSUME NEW p \in Profile, Delete(p) PROVE OnlyCrashesLitter'
    BY <1>2 DEF Delete
  <1>3. ASSUME CreateTemp \/ WriteTemp \/ ChmodTemp \/ CloseTemp PROVE OnlyCrashesLitter'
    BY <1>3 DEF CreateTemp, WriteTemp, ChmodTemp, CloseTemp, Then, Fail
  <1>4. CASE Rename
    BY <1>4 DEF Rename, Fail
  <1>5. CASE Return
    BY <1>5 DEF Return
  <1>6. CASE Crash
    BY <1>6 DEF Crash
  <1>7. CASE Restart
    BY <1>7 DEF Restart
  <1>8. CASE UNCHANGED vars
    BY <1>8 DEF vars
  <1> QED
    BY <1>1, <1>2, <1>3, <1>4, <1>5, <1>6, <1>7, <1>8 DEF Next

(***************************************************************************)
(* writeFileAtomic leaves a temporary file only when the process dies in   *)
(* the middle of it, whichever of its system calls fail.                   *)
(***************************************************************************)
THEOREM OnlyCrashesLeaveFiles == Spec => []OnlyCrashesLitter
  <1>1. Init => OnlyCrashesLitter
    BY DEF Init, OnlyCrashesLitter
  <1> QED
    BY <1>1, LitterStep, PTL DEF Spec
=============================================================================
