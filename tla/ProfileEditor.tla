--------------------------- MODULE ProfileEditor ----------------------------
(***************************************************************************)
(* The profile editor of internal/nativeui/ui.go: the sidebar's list, the  *)
(* profile on screen, the form it was filled into, and the handlers that   *)
(* read the form back, save, connect, select, delete, import and export.   *)
(*                                                                         *)
(* A handler runs on the UI thread from start to end, so each is one step; *)
(* reading the directory or writing a file may fail in the middle of it.   *)
(* Number fields hold text: Blank, Junk, or the number.  What a file holds *)
(* is the profile encoded in it; Store says how it gets there.             *)
(***************************************************************************)
EXTENDS Profile

CONSTANTS
    Imports,    \* the profiles in the files a user imports
    MaxIDs,     \* bound: IDs handed out
    MaxEdits    \* bound: changes of the form

Blank == -1
Junk == -2
NoChoice == ""

VARIABLES
    files,      \* the profile in the file of each ID
    profiles,   \* u.profiles, the IDs the sidebar shows
    current,    \* u.current
    form,       \* the widgets, as a profile with texts for numbers
    edited,     \* the form was changed after it was filled
    choice,     \* the route the user chose last since then
    nextID, edits

bounds == <<nextID, edits>>
vars == <<files, profiles, current, form, edited, choice, bounds>>
-----------------------------------------------------------------------------
(***************************************************************************)
(* Widgets.  The check "full-device TUN" and the route select change each  *)
(* other; syncingRoute keeps the second callback from answering the first. *)
(* A check calls back only when it changes, a select always, and a select  *)
(* ignores a value that is not among its options.                          *)
(***************************************************************************)
CheckTun(f, on) ==
    IF f.enabled = on THEN f
    ELSE [f EXCEPT !.enabled = on, !.route = IF on THEN "tun" ELSE "proxy"]

SelectRoute(f, r) == [f EXCEPT !.route = r, !.enabled = (r = "tun")]

Protocols == {"badvpn", "legacy"}
Resolvers == {"doh", "dot", "udp"}

SelectProtocol(f, proto) ==
    [f EXCEPT !.proto = IF proto \in Protocols THEN proto ELSE @]
SelectResolver(f, type) ==
    [f EXCEPT !.resolver = IF type \in Resolvers THEN type ELSE @]

itoa(n) == IF n = 0 THEN Blank ELSE n
mustInt(t, default) == IF t \in {Blank, Junk} THEN default ELSE t

\* The widgets as profileEditor builds them.
EmptyForm ==
    [ZeroProfile EXCEPT !.verb = Blank, !.port = Blank, !.proto = "badvpn",
                        !.route = "tun", !.mode = "direct"]

\* The entries of setProfile: numbers as texts, arguments joined to words.
Texts(f, p) ==
    [p EXCEPT !.verb = itoa(p.verb), !.port = itoa(p.port), !.odd = {},
              !.proto = f.proto, !.resolver = f.resolver, !.route = f.route,
              !.enabled = f.enabled]

\* setProfile: every widget in turn, the check before the select.
Filled_CheckLast(f, p) ==
    CheckTun([SelectProtocol(SelectResolver(Texts(f, p), p.resolver), p.proto)
                EXCEPT !.route = RouteOf(p)], p.enabled)

Filled(f, p) ==
    SelectRoute(
        CheckTun(SelectProtocol(SelectResolver(Texts(f, p), p.resolver), p.proto), p.enabled),
        RouteOf(p))

\* readProfileFromForm, over the fields of the profile on screen: strings.Fields
\* makes an argument of every word.
ReadForm(f, p) ==
    ApplyDefaults([f EXCEPT !.id = p.id, !.verb = mustInt(f.verb, DefaultVerb),
                            !.port = mustInt(f.port, DefaultPort)], nextID)
-----------------------------------------------------------------------------
(***************************************************************************)
(* Parts of handlers.                                                      *)
(***************************************************************************)
setProfile(f, p) ==
    /\ current' = ApplyDefaults(p, nextID)
    /\ form' = Filled(f, ApplyDefaults(p, nextID))
    /\ edited' = FALSE /\ choice' = NoChoice

newProfile ==
    [ZeroProfile EXCEPT !.given = {"name"}, !.mode = "direct", !.payload = "text",
                        !.embedded = TRUE, !.resolver = "doh", !.proto = "badvpn"]

\* Store.List skips what does not decode.
Listed(disk) == {i \in DOMAIN disk : Decodes(disk[i])}

\* Store.Save gives an ID, applies the defaults and validates.
Saved(p) == ApplyDefaults(p, nextID)
Written(p) == [i \in DOMAIN files \cup {Saved(p).id} |->
                 IF i = Saved(p).id THEN Saved(p) ELSE files[i]]

IDTaken(p) == nextID' = IF p.id = NoID THEN nextID + 1 ELSE nextID
Unbounded(p) == p.id = NoID => nextID <= MaxIDs

\* What saveProfile, connect and the imports end with: save, reload the list,
\* show what was saved.  The old list stays when the directory cannot be read.
StoreAndShow(p) ==
    /\ Validate(Saved(p))
    /\ files' = Written(p)
    /\ profiles' \in {Listed(Written(p)), profiles}
    /\ setProfile(form, Saved(p))

SaveForm(p) == Validate(p) /\ StoreAndShow(p) /\ IDTaken(current)

-----------------------------------------------------------------------------
Init ==
    /\ files = << >> /\ profiles = {}
    /\ nextID = 2 /\ edits = 0
    /\ edited = FALSE /\ choice = NoChoice
    /\ current = ApplyDefaults(newProfile, 1)
    /\ form = Filled(EmptyForm, ApplyDefaults(newProfile, 1))

\* The user changes one widget.
Change(f) ==
    /\ edits < MaxEdits /\ edits' = edits + 1
    /\ form' = f /\ edited' = TRUE
    /\ UNCHANGED <<files, profiles, current, nextID>>

EditText ==
    /\ \E t \in Text : Change([form EXCEPT !.given = (@ \ {t}) \cup ({t} \ @)])
    /\ UNCHANGED choice

\* Numbers typed into the form: none, no number, the default's, one too large.
TypedVerbs == {Blank, Junk, 0, 12}
TypedPorts == {Blank, 0, 70000}

EditField ==
    /\ \/ \E m \in Mode : Change([form EXCEPT !.mode = m])
       \/ \E x \in {"", "blank"} : Change([form EXCEPT !.payload = x])
       \/ \E x \in {"", "valid", "broken"} : Change([form EXCEPT !.json = x])
       \/ \E x \in {"", "other.json", "my file.json"} : Change([form EXCEPT !.path = x])
       \/ Change([form EXCEPT !.args = ""])
       \/ Change([form EXCEPT !.embedded = ~@]) \/ Change([form EXCEPT !.exe = ""])
       \/ \E n \in TypedVerbs : Change([form EXCEPT !.verb = n])
       \/ \E n \in TypedPorts : Change([form EXCEPT !.port = n])
       \/ Change([form EXCEPT !.udpgw = ~@])
       \/ Change(SelectProtocol(form, "legacy")) \/ Change(SelectResolver(form, "udp"))
       \/ Change([form EXCEPT !.ipv6 = ~@]) \/ Change([form EXCEPT !.cidr = "bad"])
       \/ Change([form EXCEPT !.dns = "bad"])
    /\ UNCHANGED choice

EditRoute ==
    \/ \E r \in Route : Change(SelectRoute(form, r)) /\ choice' = r
    \/ /\ Change(CheckTun(form, ~form.enabled))
       /\ choice' = IF form.enabled THEN "proxy" ELSE "tun"

New ==
    /\ nextID <= MaxIDs
    /\ setProfile(form, newProfile) /\ nextID' = nextID + 1
    /\ UNCHANGED <<files, profiles, edits>>

\* saveProfile, and connect up to Engine.Start: it starts what was saved, which
\* is then the current profile.  A rule or the disk may refuse.
SaveProfile ==
    /\ Unbounded(current)
    /\ \/ SaveForm(ReadForm(form, current))
       \/ UNCHANGED <<files, profiles, current, form, edited, choice, nextID>>
    /\ UNCHANGED edits

\* exportProfile saves too, but neither reloads the list nor the form.
ExportProfile ==
    /\ Unbounded(current)
    /\ LET p == ReadForm(form, current)
       IN  Validate(p) /\ files' = Written(p)
    /\ IDTaken(current)
    /\ UNCHANGED <<profiles, current, form, edited, choice, edits>>

Select(i) ==
    /\ i \in profiles
    /\ i \in DOMAIN files /\ Decodes(files[i])
    /\ setProfile(form, Decoded(files[i]))
    /\ UNCHANGED <<files, profiles, bounds>>

(***************************************************************************)
(* loadProfiles over what is on the disk: without a current profile the    *)
(* first is shown if it can be loaded, without any a new one.  If the      *)
(* directory cannot be read nothing changes but the current profile the    *)
(* caller has set.                                                         *)
(***************************************************************************)
loadProfiles(disk, cur) ==
    \/ /\ profiles' = Listed(disk)
       /\ \/ /\ Listed(disk) # {} /\ cur.id = NoID
             /\ \E i \in Listed(disk) : setProfile(form, Decoded(disk[i]))
             /\ UNCHANGED nextID
          \/ /\ Listed(disk) # {}
             /\ current' = cur /\ UNCHANGED <<form, edited, choice, nextID>>
          \/ /\ Listed(disk) = {} /\ nextID <= MaxIDs
             /\ setProfile(form, newProfile) /\ nextID' = nextID + 1
    \/ current' = cur /\ UNCHANGED <<profiles, form, edited, choice, nextID>>

DeleteProfile ==
    /\ current.id # NoID
    /\ files' = [i \in DOMAIN files \ {current.id} |-> files[i]]
    /\ loadProfiles(files', ZeroProfile)
    /\ UNCHANGED <<edits>>

Imported_SameID(file) == Decoded(file)
Imported(file) == [Decoded(file) EXCEPT !.id = NoID]

ImportProfile(file) ==
    /\ Decodes(file) /\ nextID <= MaxIDs
    /\ StoreAndShow(Imported(file))
    /\ IDTaken(Imported(file))
    /\ UNCHANGED <<edits>>

\* importLink: defaults, then the TUN adapter, then Save with its defaults.
LinkProfile(id) ==
    [ApplyDefaults([ZeroProfile EXCEPT !.given = {"name"}, !.mode = "xray",
                                       !.json = "valid"], id)
       EXCEPT !.enabled = TRUE]

\* What was saved is shown if the list can be read.
ImportLink ==
    /\ nextID <= MaxIDs
    /\ LET p == LinkProfile(nextID)
       IN  \/ StoreAndShow(p)
           \/ files' = Written(p) /\ UNCHANGED <<profiles, current, form, edited, choice>>
    /\ nextID' = nextID + 1
    /\ UNCHANGED edits

\* No line of the text is a link.
ImportNoLink ==
    /\ loadProfiles(files, current)
    /\ UNCHANGED <<files, edits>>

\* The program is closed and started again: the form is built, loadProfiles
\* fills it, or leaves it as it was built.
AsBuilt ==
    /\ current' = ZeroProfile /\ form' = EmptyForm
    /\ edited' = FALSE /\ choice' = NoChoice
    /\ UNCHANGED nextID

Restart ==
    /\ \/ /\ profiles' = Listed(files)
          /\ \/ /\ \E i \in Listed(files) : setProfile(EmptyForm, Decoded(files[i]))
                /\ UNCHANGED nextID
             \/ /\ Listed(files) = {} /\ nextID <= MaxIDs
                /\ setProfile(EmptyForm, newProfile) /\ nextID' = nextID + 1
             \/ Listed(files) # {} /\ AsBuilt
       \/ profiles' = {} /\ AsBuilt
    /\ UNCHANGED <<files, edits>>

Next ==
    \/ EditText \/ EditField \/ EditRoute
    \/ New \/ SaveProfile \/ ExportProfile \/ DeleteProfile
    \/ \E i \in profiles : Select(i)
    \/ \E file \in Imports : ImportProfile(file)
    \/ ImportLink \/ ImportNoLink \/ Restart

Spec == Init /\ [][Next]_vars
-----------------------------------------------------------------------------
\* What the widgets can hold: arguments that are words, and one of the options.
Showable(p) == p.odd = {} /\ p.proto \in Protocols /\ p.resolver \in Resolvers

(***************************************************************************)
(* A form nobody has touched describes the profile it was filled from:     *)
(* readProfileFromForm undoes setProfile, callbacks and texts included, so *)
(* saving or connecting does not change what was only looked at.  A        *)
(* profile the widgets cannot hold keeps all but its arguments and the two *)
(* choices.                                                                *)
(***************************************************************************)
FormShowsProfile ==
    ~edited /\ current.id # NoID =>
       LET p == ReadForm(form, current)
       IN  /\ Showable(current) => p = current
           /\ p = [current EXCEPT !.args = p.args, !.odd = p.odd,
                                  !.proto = p.proto, !.resolver = p.resolver]

(***************************************************************************)
(* Whatever the user saves, exports or imports, the file can be read back, *)
(* and reading, showing and starting it give the profile that was saved:   *)
(* its defaults are applied up to four times on the way.                   *)
(***************************************************************************)
SavedProfilesStand ==
    /\ \A i \in DOMAIN files : Decodes(files[i]) /\ Decoded(files[i]) = files[i]
    /\ ApplyDefaults(current, NoID) = current \/ current.id = NoID

(***************************************************************************)
(* Once a profile is on screen or the user has chosen, the two route       *)
(* widgets agree, and what would be saved routes the way the user chose    *)
(* last, although each widget's callback sets the other.                   *)
(***************************************************************************)
RouteChoiceKept ==
    /\ current.id # NoID \/ choice # NoChoice => form.enabled = (form.route = "tun")
    /\ choice # NoChoice => LET p == ReadForm(form, current)
                            IN  p.route = choice /\ p.enabled = (choice = "tun")

(***************************************************************************)
(* The form, the profile on screen and the files describe each other after *)
(* every handler, those that failed in the middle included.                *)
(***************************************************************************)
EditorConsistent == FormShowsProfile /\ SavedProfilesStand /\ RouteChoiceKept

(***************************************************************************)
(* No operation changes or removes the file of a profile other than the    *)
(* one on screen, not even importing the file of a profile that exists.    *)
(***************************************************************************)
OnlyShownProfileChanges ==
    [][\A i \in DOMAIN files :
          i \notin DOMAIN files' \/ files'[i] # files[i] => i = current.id]_vars

(***************************************************************************)
(* importLink: "Imported links are expected to route the whole system:     *)
(* enable the TUN adapter with route-all by default".                      *)
(***************************************************************************)
LinksRouteAll == [][ImportLink => files'[nextID].enabled]_vars

(***************************************************************************)
(* The "Config file" of the Xray tab is the file Xray is started with.     *)
(***************************************************************************)
XrayRunsShownFile ==
    current.mode = "xray" /\ current.json = "" => current.args = current.path

(***************************************************************************)
(* A verbosity of 0 to 11 may be chosen, config.go: "0 is silent".         *)
(***************************************************************************)
SilenceMayBeChosen == edited /\ form.verb = 0 => ReadForm(form, current).verb = 0

(***************************************************************************)
(* Whatever profile is on screen: "Profile saved" says that what was shown *)
(* is saved.                                                               *)
(***************************************************************************)
EveryProfileShown == ~edited /\ current.id # NoID => ReadForm(form, current) = current

(***************************************************************************)
(* The check and the select of the route agree from the start.             *)
(***************************************************************************)
RouteWidgetsAgree == form.enabled = (form.route = "tun")
=============================================================================
