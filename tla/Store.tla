------------------------------- MODULE Store --------------------------------
(***************************************************************************)
(* The files the program keeps: profiles (internal/config/config.go) and   *)
(* the settings (internal/config/settings.go), all of them written by      *)
(* writeFileAtomic, a temporary file renamed over the old one.  The user   *)
(* interface saves and deletes one file at a time; the process may die     *)
(* between any two system calls, and any of them may fail.                 *)
(*                                                                         *)
(* The content of a file is the version that was saved, or Torn when only  *)
(* a part of it has been written.  A version is a number: each call of     *)
(* Save stamps UpdatedAt.                                                  *)
(***************************************************************************)
EXTENDS Naturals

CONSTANTS
    Profile,      \* profile IDs
    Bundled,      \* those that carry the name of a bundled example
    Settings,     \* the settings file
    NoFile,       \* a file that does not exist
    Torn,         \* a file of which only a part was written
    MaxVersions   \* bound: how often something is saved

File == Profile \cup {Settings}
Version == 1..MaxVersions

ASSUME StoreAssumption ==
    /\ Bundled \subseteq Profile /\ Settings \notin Profile
    /\ MaxVersions \in Nat
    /\ NoFile # Torn /\ NoFile \notin Nat /\ Torn \notin Nat

VARIABLES
    disk,      \* what is under each name
    tmp,       \* the temporary file of the save under way
    litter,    \* temporary files nobody will remove
    pc,        \* the next system call, "up" between operations, "down" after a crash
    target,    \* the file being saved
    version,   \* versions handed out
    acked,     \* per file, the version its user was told is saved
    crashed    \* the process has died before

vars == <<disk, tmp, litter, pc, target, version, acked, crashed>>

Content == Version \cup {NoFile, Torn}

TypeOK ==
    /\ disk \in [File -> Content] /\ acked \in [File -> Version \cup {NoFile}]
    /\ tmp \in Content
    /\ litter \in Nat /\ crashed \in BOOLEAN
    /\ pc \in {"up", "create", "write", "chmod", "close", "rename", "return", "down"}
    /\ target \in File
    /\ version \in 0..MaxVersions

Init ==
    /\ disk = [f \in File |-> NoFile] /\ acked = [f \in File |-> NoFile]
    /\ tmp = NoFile /\ litter = 0 /\ crashed = FALSE
    /\ pc = "up" /\ target = Settings /\ version = 0
-----------------------------------------------------------------------------
(***************************************************************************)
(* Save and SaveSettings, up to writeFileAtomic.  Validate may reject any  *)
(* profile, which then goes no further; settings are not validated.        *)
(***************************************************************************)
MayReject(f) == f \in Profile

Save(f) ==
    /\ pc = "up" /\ version < MaxVersions
    /\ version' = version + 1
    /\ target' = f
    /\ \/ pc' = "create"
       \/ MayReject(f) /\ pc' = "up"
    /\ UNCHANGED <<disk, tmp, litter, acked, crashed>>

\* writeFileAtomic returns an error, having removed its temporary file.
Fail_KeepsTemp ==
    /\ pc' = "up" /\ tmp' = NoFile
    /\ litter' = IF tmp = NoFile THEN litter ELSE litter + 1
    /\ UNCHANGED <<disk, target, version, acked, crashed>>

Fail ==
    /\ pc' = "up" /\ tmp' = NoFile
    /\ UNCHANGED <<disk, litter, target, version, acked, crashed>>

Then(next, content) ==
    /\ pc' = next /\ tmp' = content
    /\ UNCHANGED <<disk, litter, target, version, acked, crashed>>

CreateTemp_InPlace ==
    /\ pc = "create"
    /\ pc' = "write" /\ tmp' = Torn
    /\ disk' = [disk EXCEPT ![target] = Torn]
    /\ UNCHANGED <<litter, target, version, acked, crashed>>

CreateTemp == pc = "create" /\ (Then("write", Torn) \/ Fail)

\* The data reaches the file piece by piece; it is Torn until the last.
WriteTemp == pc = "write" /\ (Then("chmod", version) \/ Fail)

ChmodTemp == pc = "chmod" /\ (Then("close", tmp) \/ Fail)

CloseTemp == pc = "close" /\ (Then("rename", tmp) \/ Fail)

\* rename replaces the old file in one step.
Rename ==
    /\ pc = "rename"
    /\ \/ /\ disk' = [disk EXCEPT ![target] = tmp]
          /\ tmp' = NoFile /\ pc' = "return"
          /\ UNCHANGED <<litter, target, version, acked, crashed>>
       \/ Fail

Return ==
    /\ pc = "return"
    /\ pc' = "up"
    /\ acked' = [acked EXCEPT ![target] = version]
    /\ UNCHANGED <<disk, tmp, litter, target, version, crashed>>

\* Delete; a file that does not exist is no error.
Delete(p) ==
    /\ pc = "up"
    /\ disk' = [disk EXCEPT ![p] = NoFile]
    /\ acked' = [acked EXCEPT ![p] = NoFile]
    /\ UNCHANGED <<tmp, litter, pc, target, version, crashed>>

\* The process dies; a temporary file stays behind.
Crash ==
    /\ pc # "down"
    /\ pc' = "down" /\ crashed' = TRUE
    /\ litter' = IF tmp = NoFile THEN litter ELSE litter + 1
    /\ tmp' = NoFile
    /\ UNCHANGED <<disk, target, version, acked>>

(***************************************************************************)
(* app.New: settings that cannot be parsed end it.  It lists the profiles, *)
(* skipping what does not decode, and deletes those with the name of a     *)
(* bundled example, or ends at the first it cannot delete.  What the user  *)
(* sees from then on is what is on the disk.                               *)
(***************************************************************************)
SettingsReadable == disk[Settings] # Torn
List == {p \in Profile : disk[p] \in Version}
Examples == Bundled \cap List

Restart ==
    /\ pc = "down" /\ SettingsReadable
    /\ \E gone \in SUBSET Examples :
          /\ disk' = [f \in File |-> IF f \in gone THEN NoFile ELSE disk[f]]
          /\ acked' = [f \in File |-> IF f \in gone THEN NoFile
                                      ELSE IF disk[f] = Torn THEN acked[f] ELSE disk[f]]
          /\ pc' = IF gone = Examples THEN "up" ELSE "down"
    /\ UNCHANGED <<tmp, litter, target, version, crashed>>

Next ==
    \/ \E f \in File : Save(f)
    \/ \E p \in Profile : Delete(p)
    \/ CreateTemp \/ WriteTemp \/ ChmodTemp \/ CloseTemp \/ Rename \/ Return
    \/ Crash \/ Restart

Spec == Init /\ [][Next]_vars
-----------------------------------------------------------------------------
(***************************************************************************)
(* Above writeFileAtomic: it "prevents profile corruption when the app     *)
(* crashes or the disk fills while saving".  No file is ever torn, and     *)
(* none goes back: it holds what its user was told is saved, or a later    *)
(* version whose save was not over.                                        *)
(***************************************************************************)
SavesAreAtomic ==
    \A f \in File :
       \/ disk[f] = acked[f]
       \/ disk[f] \in Version /\ acked[f] = NoFile
       \/ disk[f] \in Version /\ acked[f] \in Version /\ disk[f] > acked[f]

(***************************************************************************)
(* Whatever system call fails, writeFileAtomic takes its temporary file    *)
(* away; only a process that dies leaves one.                              *)
(***************************************************************************)
OnlyCrashesLitter ==
    /\ pc \in {"up", "return", "down"} => tmp = NoFile
    /\ ~crashed => litter = 0
=============================================================================
