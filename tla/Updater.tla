------------------------------ MODULE Updater -------------------------------
(***************************************************************************)
(* Updates of the bundled tools and of the program itself                  *)
(* (internal/updater/updater.go), from the button to the last dialog       *)
(* (internal/nativeui/ui.go).  A job checks what is installed against the  *)
(* latest release, asks, downloads from one of several places, and copies  *)
(* file by file over the bundled tool.  Any call may fail, the process may *)
(* die, a new release may appear, and the engine may start the tool that   *)
(* is being replaced: nothing but the dialog's words keeps it from it.     *)
(*                                                                         *)
(* A file holds a version, or Torn while or after it was cut off.  GitHub, *)
(* the OpenVPN server and msiexec are external.  A release may lack a file *)
(* of an earlier one, and an installer leaves files in use to the reboot.  *)
(***************************************************************************)
EXTENDS Naturals, Sequences, FiniteSets

CONSTANTS
    Job,             \* updates that may run at a time
    Tools,           \* the buttons the user presses
    MayLack,         \* files a release may come without
    MaxVersion,      \* bound: releases published
    MaxUpdates       \* bound: updates confirmed

ASSUME ToolsAssumption == Tools \subseteq {"xray", "openvpn", "app"}

Torn == 0
Missing == 0
OpenVPN26 == 1       \* openvpnTapMSI26
NoTool == "none"

\* The files in the order they are copied: a list in UpdateXray, the directory
\* in name order in UpdateOpenVPN.  The app's installer replaces it as a whole.
Files(t) == CASE t = "xray" -> <<"xray.exe", "geoip.dat", "geosite.dat">>
              [] t = "openvpn" -> <<"libcrypto.dll", "openvpn.exe", "tapctl.exe">>
              [] t = "app" -> << >>
Locked == {"xray.exe", "openvpn.exe", "libcrypto.dll"}
File == {"xray.exe", "geoip.dat", "geosite.dat", "libcrypto.dll", "openvpn.exe", "tapctl.exe"}

OpenVPNFile == {"libcrypto.dll", "openvpn.exe", "tapctl.exe"}

VARIABLES
    published,   \* the latest release, of every tool
    onDisk,      \* the bundled files
    system,      \* what the installers have put on the system: OpenVPN's files, "app"
    pending,     \* what the next reboot puts in the place of OpenVPN's files
    driver,      \* there is a virtual adapter driver
    inUse,       \* the engine runs the bundled tool
    job,         \* what each update is about and its next step
    shown,       \* the dialog that closed the last update of each job
    litter,      \* temporary directories left by a crash
    updates

toolVars == <<published, onDisk, system, pending, driver, inUse, job, shown, litter, updates>>
world == <<published, inUse>>

Idle == [pc |-> "idle", tool |-> NoTool, tag |-> 0, rel |-> 0, urls |-> << >>,
         got |-> 0, next |-> 1, kept |-> {}]
NoDialog == [text |-> "", tool |-> NoTool, tag |-> 0, left |-> 0, found |-> TRUE,
             kept |-> {}]

UpdateInit ==
    /\ published = 2
    /\ onDisk = [f \in File |-> 1]
    /\ system = [f \in OpenVPNFile \cup {"app"} |-> IF f = "app" THEN 1 ELSE Missing]
    /\ pending = [f \in OpenVPNFile |-> Missing]
    /\ driver \in BOOLEAN
    /\ inUse = FALSE
    /\ job = [j \in Job |-> Idle] /\ shown = [j \in Job |-> NoDialog]
    /\ litter = 0 /\ updates = 0

\* InstalledXrayVersion and InstalledOpenVPNVersion ask the executable.
InstalledVersion(t) == CASE t = "xray" -> onDisk["xray.exe"]
                         [] t = "openvpn" -> onDisk["openvpn.exe"]
                         [] t = "app" -> system["app"]

(***************************************************************************)
(* Steps of a job.  It holds a temporary directory from "driver" on, which *)
(* a deferred call removes however it ends.                                *)
(***************************************************************************)
At(j, pc) == job[j].pc = pc
Goto(j, pc) == job' = [job EXCEPT ![j].pc = pc]
HoldsTemp(j) == job[j].pc \in {"driver", "download", "unpack", "install", "copy", "write"}

Ends(j, text, found) ==
    /\ job' = [job EXCEPT ![j] = Idle]
    /\ shown' = [shown EXCEPT ![j] =
         [text |-> text, tool |-> job[j].tool, tag |-> job[j].tag,
          left |-> IF job[j].urls = << >> THEN 0 ELSE Len(job[j].urls) - 1, found |-> found,
          kept |-> job[j].kept]]

Fails(j, text) == Ends(j, text, TRUE) /\ UNCHANGED <<onDisk, system, pending, driver>>
Rest == UNCHANGED <<world, litter, updates>>

\* The button: two versions, then a question unless they agree.
Ask(j, t) ==
    /\ At(j, "idle") /\ updates < MaxUpdates
    /\ updates' = updates + 1
    /\ IF InstalledVersion(t) = published
       THEN /\ shown' = [shown EXCEPT ![j] = [NoDialog EXCEPT !.text = "up to date", !.tool = t]]
            /\ UNCHANGED job
       ELSE /\ job' = [job EXCEPT ![j] = [Idle EXCEPT !.pc = "tag", !.tool = t]]
            /\ shown' = [shown EXCEPT ![j] = NoDialog]
    /\ UNCHANGED <<world, onDisk, system, pending, driver, litter>>

\* fetchLatestTag: the website, then the API; both may fail.
FetchTag(j) ==
    /\ At(j, "tag")
    /\ \/ /\ job' = [job EXCEPT ![j].pc = "urls", ![j].tag = published]
          /\ UNCHANGED <<onDisk, system, pending, driver, shown>>
       \/ Fails(j, "no release")
    /\ Rest

(***************************************************************************)
(* Where to download from: the address made of the tag, and what the API   *)
(* names if it answers, which may be a newer release.  OpenVPN's has one:  *)
(* the API's, or the first build the community server has.  There may be   *)
(* none, and no temporary directory to download to.                        *)
(***************************************************************************)
Urls(t, api) ==
    IF t = "openvpn" THEN (IF api THEN <<"asset">> ELSE <<"direct">>)
    ELSE IF api THEN <<"direct", "asset">> ELSE <<"direct">>

FindUrls(j) ==
    /\ At(j, "urls")
    /\ \/ /\ \E api \in BOOLEAN :
                job' = [job EXCEPT ![j].pc = IF job[j].tool = "openvpn" THEN "driver" ELSE "download",
                                   ![j].rel = published, ![j].urls = Urls(job[j].tool, api)]
          /\ UNCHANGED <<onDisk, system, pending, driver, shown>>
       \/ Fails(j, "not started")
    /\ Rest

\* Without a driver the 2.6 installer runs first; if that fails, so be it.
InstallDriver(j) ==
    /\ At(j, "driver")
    /\ Goto(j, "download")
    /\ \/ UNCHANGED <<driver, system>>
       \/ /\ ~driver /\ driver' = TRUE
          /\ system' = IF \E f \in OpenVPNFile : system[f] # Missing THEN system
                       ELSE [f \in DOMAIN system |->
                               IF f \in OpenVPNFile THEN OpenVPN26 ELSE system[f]]
    /\ UNCHANGED <<onDisk, pending, shown>> /\ Rest

(***************************************************************************)
(* The name UpdateXray asks for: the suffix ends in ".zip" and gets it a   *)
(* second time, so nothing is served under it.                             *)
(***************************************************************************)
XrayAsset == <<"Xray-", "windows-64", ".zip">>
xrayAssetSuffix == <<"windows-64", ".zip">>
Serves(t, url) ==
    t = "xray" /\ url = "direct" => <<"Xray-">> \o xrayAssetSuffix \o <<".zip">> = XrayAsset

\* The loop over the addresses: the next one after an error.
NextUrl(j) ==
    IF Len(job[j].urls) > 1
    THEN /\ job' = [job EXCEPT ![j].urls = Tail(@)]
         /\ UNCHANGED <<onDisk, system, pending, driver, shown>>
    ELSE /\ Ends(j, "download failed", Serves(job[j].tool, Head(job[j].urls)))
         /\ UNCHANGED <<onDisk, system, pending, driver>>

Download(j) ==
    /\ At(j, "download")
    /\ LET url == Head(job[j].urls)
       IN  \/ /\ Serves(job[j].tool, url)
              /\ job' = [job EXCEPT ![j].got = IF url = "asset" THEN job[j].rel ELSE job[j].tag,
                                    ![j].pc = IF job[j].tool = "xray" THEN "unpack" ELSE "install",
                                    ![j].urls = << >>]
              /\ UNCHANGED <<onDisk, system, pending, driver, shown>>
           \/ NextUrl(j)
    /\ Rest

Unpack(j) ==
    /\ At(j, "unpack")
    /\ \/ Goto(j, "copy") /\ UNCHANGED <<onDisk, system, pending, driver, shown>>
       \/ Fails(j, "extract failed")
    /\ Rest

(***************************************************************************)
(* The installer.  With 3010 it asks for a reboot, until which the files   *)
(* in use (left) are the old ones; that counts as success if it is         *)
(* printed.  Files the release has no more (absent) are removed.           *)
(***************************************************************************)
Installed(v, left, absent) ==
    /\ system' = [f \in DOMAIN system |-> IF f \in left \cup {"app"} THEN system[f]
                                          ELSE IF f \in absent THEN Missing ELSE v]
    /\ pending' = [f \in OpenVPNFile |-> IF f \in left THEN v ELSE Missing]

InUse == {f \in OpenVPNFile \cap Locked : system[f] # Missing}

RunOpenVPNInstaller(j) ==
    /\ At(j, "install") /\ job[j].tool = "openvpn"
    /\ \/ Fails(j, "installer failed")
       \/ \E left \in SUBSET InUse, absent \in SUBSET (OpenVPNFile \cap MayLack) :
             /\ Installed(job[j].got, left, absent)
             /\ \/ job' = [job EXCEPT ![j].pc = "copy", ![j].kept = left] /\ UNCHANGED shown
                \/ Ends(j, "updated", FALSE)                  \* the folder is not there
                \/ Ends(j, "installer failed", TRUE)
             /\ UNCHANGED <<onDisk, driver>>
    /\ Rest

RunAppInstaller(j) ==
    /\ At(j, "install") /\ job[j].tool = "app"
    /\ \/ Fails(j, "installer failed")
       \/ /\ system' = [system EXCEPT !["app"] = job[j].got]
          /\ Ends(j, "updated", TRUE)
          /\ UNCHANGED <<onDisk, pending, driver>>
    /\ Rest

(***************************************************************************)
(* copyFile: os.Create empties the file, io.Copy fills it.  A file of a    *)
(* running tool cannot be created, and a disk may be full.  A file the     *)
(* archive or the system's folder does not hold is passed over in silence, *)
(* and the old one stays.                                                  *)
(***************************************************************************)
CopyFails_Ignored(j) ==
    /\ job' = [job EXCEPT ![j].pc = "copy", ![j].next = @ + 1]
    /\ UNCHANGED <<onDisk, system, pending, driver, shown>>

CopyFails(j) == Fails(j, "replace failed")

FileOf(j) == Files(job[j].tool)[job[j].next]

SkipFile(j) ==
    /\ At(j, "copy") /\ job[j].next <= Len(Files(job[j].tool))
    /\ IF job[j].tool = "openvpn" THEN system[FileOf(j)] = Missing ELSE FileOf(j) \in MayLack
    /\ job' = [job EXCEPT ![j].next = @ + 1, ![j].kept = @ \cup {FileOf(j)}]
    /\ UNCHANGED <<onDisk, system, pending, driver, shown>>
    /\ Rest

CreateFile(j) ==
    /\ At(j, "copy") /\ job[j].next <= Len(Files(job[j].tool))
    /\ job[j].tool = "openvpn" => system[FileOf(j)] # Missing
    /\ \/ /\ ~(inUse /\ FileOf(j) \in Locked)
          /\ onDisk' = [onDisk EXCEPT ![FileOf(j)] = Torn]
          /\ Goto(j, "write")
          /\ UNCHANGED <<system, pending, driver, shown>>
       \/ CopyFails(j)
    /\ Rest

FillFile(j) ==
    /\ At(j, "write")
    /\ \/ /\ onDisk' = [onDisk EXCEPT ![FileOf(j)] =
                IF job[j].tool = "openvpn" THEN system[FileOf(j)] ELSE job[j].got]
          /\ job' = [job EXCEPT ![j].pc = "copy", ![j].next = @ + 1]
          /\ UNCHANGED <<system, pending, driver, shown>>
       \/ CopyFails(j)
    /\ Rest

CopiesDone(j) ==
    /\ At(j, "copy") /\ job[j].next > Len(Files(job[j].tool))
    /\ Ends(j, "updated", TRUE)
    /\ UNCHANGED <<onDisk, system, pending, driver>>
    /\ Rest
-----------------------------------------------------------------------------
Die ==
    /\ litter' = litter + Cardinality({j \in Job : HoldsTemp(j)})
    /\ job' = [j \in Job |-> Idle] /\ shown' = [j \in Job |-> NoDialog]
    /\ inUse' = FALSE
    /\ UNCHANGED <<published, onDisk, driver, updates>>

\* The process dies and is started again, or the whole machine is.
CrashAll == job # [j \in Job |-> Idle] /\ Die /\ UNCHANGED <<system, pending>>

Reboot ==
    /\ \E f \in OpenVPNFile : pending[f] # Missing
    /\ system' = [f \in DOMAIN system |-> IF f \in OpenVPNFile /\ pending[f] # Missing
                                          THEN pending[f] ELSE system[f]]
    /\ pending' = [f \in OpenVPNFile |-> Missing]
    /\ Die

Publish ==
    /\ published < MaxVersion
    /\ published' = published + 1
    /\ UNCHANGED <<onDisk, system, pending, driver, inUse, job, shown, litter, updates>>

\* The engine starts or stops the bundled tool; a torn file does not start.
Engine ==
    /\ \E t \in Tools \ {"app"} : InstalledVersion(t) # Torn
    /\ inUse' = ~inUse
    /\ UNCHANGED <<published, onDisk, system, pending, driver, job, shown, litter, updates>>

JobStep(j) ==
    \/ FetchTag(j) \/ FindUrls(j) \/ InstallDriver(j) \/ Download(j) \/ Unpack(j)
    \/ RunOpenVPNInstaller(j) \/ RunAppInstaller(j)
    \/ SkipFile(j) \/ CreateFile(j) \/ FillFile(j) \/ CopiesDone(j)

UpdateNext ==
    \/ \E j \in Job : JobStep(j) \/ \E t \in Tools : Ask(j, t)
    \/ CrashAll \/ Reboot \/ Publish \/ Engine

UpdateSpec == UpdateInit /\ [][UpdateNext]_toolVars
-----------------------------------------------------------------------------
Updated(j) == shown[j].text = "updated"
Copying(t) == \E j \in Job : job[j].tool = t /\ job[j].pc \in {"copy", "write"}

(***************************************************************************)
(* When the dialog says a tool was updated to a version, every bundled     *)
(* file of it is whole and of one version, that one or one published while *)
(* the update ran; but for the files the release does not hold or the      *)
(* installer has left to the reboot, of which the code says nothing, and   *)
(* unless the installer's folder was not found, which only the log tells.  *)
(* Holds until the next update starts to copy.                             *)
(***************************************************************************)
UpdatedMeansReplaced ==
    \A j \in Job : LET d == shown[j] IN
       Updated(j) /\ d.found /\ d.tool # "app" /\ ~Copying(d.tool) =>
          \E v \in d.tag..published : \A i \in DOMAIN Files(d.tool) :
             Files(d.tool)[i] \in d.kept \/ onDisk[Files(d.tool)[i]] = v

(***************************************************************************)
(* UpdateXray "replaces the bundled executable and data files", and        *)
(* UpdateOpenVPN "refreshes the bundled copy": none is left as it was.     *)
(***************************************************************************)
UpdatedKeepsNone ==
    \A j \in Job : Updated(j) /\ shown[j].found => shown[j].kept = {}

(***************************************************************************)
(* A download fails only after every address it could be had from failed.  *)
(***************************************************************************)
EverySourceTried ==
    \A j \in Job : shown[j].text = "download failed" => shown[j].left = 0

(***************************************************************************)
(* However often calls fail, every update comes to its closing dialog.     *)
(***************************************************************************)
UpdatesEnd == \A j \in Job : ~At(j, "idle") ~> At(j, "idle")

(***************************************************************************)
(* "You are already up to date" is said of a tool all of whose files are   *)
(* the ones of the latest release.                                         *)
(***************************************************************************)
UpToDateMeansWhole ==
    \A j \in Job : LET d == shown[j] IN
       d.text = "up to date" /\ ~Copying(d.tool) =>
          \A i, k \in DOMAIN Files(d.tool) : onDisk[Files(d.tool)[i]] = onDisk[Files(d.tool)[k]]

(***************************************************************************)
(* UpdateXray: "The direct release-download URL works without the GitHub   *)
(* API".                                                                   *)
(***************************************************************************)
DirectURLWorks == \A j \in Job : shown[j].text = "download failed" => shown[j].found
=============================================================================
