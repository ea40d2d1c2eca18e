------------------------------- MODULE DeviceSetup -------------------------------
(***************************************************************************)
(* What a set-up of the entry makes of the appliances of the account:      *)
(* async_setup_entry in __init__.py, step by step over its awaits, with    *)
(* the discovery of coordinator_pat.py, the matching of device_router.py   *)
(* and the platforms' own set-ups.                                         *)
(*                                                                         *)
(* Both backends know the same appliances by ids of their own and by the   *)
(* name that the user gave them, so they are matched by kind and name; the *)
(* two lists are fetched one after the other, and a name can change at any *)
(* time.  Each request can fail: mostly the set-up goes on without what it *)
(* was for, but an exception that is not caught ends it.  The fan mode has *)
(* no read-back: it is what Home Assistant kept of an entity's last state. *)
(* Connecting, MQTT and closing the clients are those of EntryLifecycle.   *)
(***************************************************************************)
EXTENDS Integers, Sequences, FiniteSetsExt

CONSTANTS
    PatOrder,    \* the appliances of the account, as /devices lists them
    WideqOrder,  \* the same, as the wideq dashboard lists them
    Kind,        \* of each appliance: "ac", "washer", "dehumidifier", "other"
    Names,       \* names users give
    Modes,       \* fan modes
    FanAcs,      \* bound: the air conditioners whose fan mode is followed
    None

Appliances == {PatOrder[i] : i \in 1 .. Len(PatOrder)}

ASSUME SetupAssumption ==
    /\ PatOrder \in Seq(Appliances) /\ WideqOrder \in Seq(Appliances)
    /\ None \notin Appliances /\ None \notin Modes /\ None \notin Names
    /\ \A a \in Appliances : Kind[a] \in {"ac", "washer", "dehumidifier", "other"}
    /\ FanAcs \subseteq {a \in Appliances : Kind[a] = "ac"}

VARIABLES
    phase,      \* how far the set-up is
    next,       \* the device that it works on
    name,       \* the names of the supported ones, in the LG app
    wideq,      \* is the wideq client connected
    wideqName,  \* the names in its list of devices
    patName,    \* the names in the PAT list of devices
    coordinators, known,        \* pat_coordinators, and those that have a status
    acDevice, washerDevice,     \* ac_fan_swing_devices, washer_wideq_devices
    switches, filters,          \* energy-saving switches and filter sensors
    available,                  \* of FanAcs: their coordinator is available
    fan,                        \* _last_fan_mode
    saved, stored,              \* the last states: in memory, and on the disk
    renamed, troubled,          \* history of the set-up
    commanded, mislaid, onDisk  \* history of the fan modes

listVars   == <<wideq, wideqName, patName>>
deviceVars == <<acDevice, washerDevice>>
entityVars == <<switches, filters>>
fanVars    == <<fan, saved, stored, commanded, mislaid, onDisk>>
acVars     == <<available, fanVars>>
vars == <<phase, next, name, listVars, coordinators, known, deviceVars, entityVars, acVars,
          renamed, troubled>>

Supported == {a \in Appliances : Kind[a] # "other"}
Unnamed   == [a \in Supported |-> None]
Unmatched == [a \in Appliances |-> None]
NoFan     == [a \in FanAcs |-> None]
Acs       == {a \in Appliances : Kind[a] = "ac"}
Washers   == {a \in Appliances : Kind[a] = "washer"}

TypeOK ==
    /\ phase \in {"off", "listing", "building", "matching", "platforms", "loaded", "failed"}
    /\ next \in 1 .. Len(PatOrder) + Len(WideqOrder) + 1
    /\ name \in [Supported -> Names] /\ wideq \in {"up", "down"}
    /\ wideqName \in [Supported -> Names \cup {None}]
    /\ patName \in [Supported -> Names \cup {None}]
    /\ known \subseteq coordinators /\ coordinators \subseteq Supported
    /\ acDevice \in [Appliances -> Acs \cup {None}]
    /\ washerDevice \in [Appliances -> Washers \cup {None}]
    /\ \A a \in Appliances : acDevice[a] # None => a \in Acs
    /\ switches \subseteq Acs /\ filters \subseteq Acs
    /\ available \subseteq FanAcs
    /\ {fan, saved, stored, commanded} \subseteq [FanAcs -> Modes \cup {None}]
    /\ {mislaid, onDisk} \subseteq [FanAcs -> {"no", "hidden", "older"}]
    /\ renamed \in {"no", "yes"} /\ troubled \subseteq Appliances

Init ==
    /\ phase = "off" /\ next = 1
    /\ name \in [Supported -> Names]
    /\ wideq = "down" /\ wideqName = Unnamed /\ patName = Unnamed
    /\ coordinators = {} /\ known = {}
    /\ acDevice = Unmatched /\ washerDevice = Unmatched
    /\ switches = {} /\ filters = {}
    /\ available = {}
    /\ fan = NoFan /\ saved = NoFan /\ stored = NoFan /\ commanded = NoFan
    /\ mislaid = [a \in FanAcs |-> "no"] /\ onDisk = [a \in FanAcs |-> "no"]
    /\ renamed = "no" /\ troubled = {}

-----------------------------------------------------------------------------
(* device_router.py: the first PAT entry of a matching kind and the name.  *)
First(order, fitting) ==
    LET found == {i \in 1 .. Len(order) : order[i] \in fitting}
    IN  IF found = {} THEN None ELSE order[Min(found)]

MatchWideqToPat(device, entries) ==
    First(PatOrder, {a \in entries : Kind[a] = Kind[device] /\ patName[a] = wideqName[device]})

-----------------------------------------------------------------------------
(* _async_try_connect_wideq: logged in with a list of devices, or None.    *)
(* After a set-up that failed the user has to ask for the next one.        *)
Connect ==
    /\ phase \in {"off", "failed"} /\ phase' = "listing"
    /\ renamed' = "no" /\ troubled' = {}
    /\ \/ wideq' = "up" /\ wideqName' = name
       \/ wideq' = "down" /\ UNCHANGED wideqName
    /\ UNCHANGED <<next, name, patName, coordinators, known, deviceVars, entityVars, acVars>>

(* async_discover_pat_devices; without it the entry is not ready, and      *)
(* Home Assistant tries again.                                             *)
Discover ==
    /\ phase = "listing"
    /\ patName' = name
    /\ phase' = "building" /\ next' = 1
    /\ UNCHANGED <<name, wideq, wideqName, coordinators, known, deviceVars, entityVars, acVars,
                    renamed, troubled>>

NotReady ==
    /\ phase = "listing" /\ phase' = "off"
    /\ wideq' = "down" /\ wideqName' = Unnamed
    /\ UNCHANGED <<next, name, patName, coordinators, known, deviceVars, entityVars, acVars,
                    renamed, troubled>>

(* A status of the device has come: by a refresh, a poll or a push *)
Reached(a) == known' = known \cup {a} /\ available' = available \cup ({a} \cap FanAcs)

(* The entry's runtime data and its entities go. *)
EntryGone ==
    /\ wideq' = "down" /\ wideqName' = Unnamed /\ patName' = Unnamed
    /\ coordinators' = {} /\ known' = {} /\ available' = {}
    /\ switches' = {} /\ filters' = {}
    /\ acDevice' = Unmatched /\ washerDevice' = Unmatched
    /\ fan' = NoFan

(* async_build_pat_device, of a known type and with a profile, and the     *)
(* first refresh, whose failure leaves a coordinator without a status.     *)
(* ThinQ refusing the profile (ThinQAPIException) costs the device only.   *)
BuildOne(a) ==
    \/ a \notin Supported /\ UNCHANGED <<coordinators, known, available, troubled>>
    \/ /\ a \in Supported
       /\ \/ troubled' = troubled \cup {a} /\ UNCHANGED <<coordinators, known, available>>
          \/ /\ coordinators' = coordinators \cup {a}
             /\ \/ Reached(a) /\ UNCHANGED troubled
                \/ troubled' = troubled \cup {a} /\ UNCHANGED <<known, available>>

(* mutant: the first device that fails ends the loop *)
MutBuild ==
    /\ phase = "building" /\ next <= Len(PatOrder) /\ BuildOne(PatOrder[next])
    /\ next' = IF troubled' = troubled THEN next + 1 ELSE Len(PatOrder) + 1
    /\ UNCHANGED <<phase, name, listVars, deviceVars, entityVars, fanVars, renamed>>

Build ==
    /\ phase = "building" /\ next <= Len(PatOrder) /\ BuildOne(PatOrder[next])
    /\ next' = next + 1
    /\ UNCHANGED <<phase, name, listVars, deviceVars, entityVars, fanVars, renamed>>

(* Any other failure of that request, a timeout say, is caught nowhere: it *)
(* ends async_setup_entry, and nothing of what was built is kept.          *)
SetUpFails ==
    /\ phase = "building" /\ next <= Len(PatOrder) /\ PatOrder[next] \in Supported
    /\ phase' = "failed" /\ next' = 1
    /\ EntryGone
    /\ UNCHANGED <<name, saved, stored, commanded, mislaid, onDisk, renamed, troubled>>

Built ==
    /\ phase = "building" /\ next > Len(PatOrder)
    /\ phase' = "matching" /\ next' = 1
    /\ UNCHANGED <<name, listVars, coordinators, known, deviceVars, entityVars, acVars, renamed,
                    troubled>>

(* A status can come at any time after that, but once all is loaded, no    *)
(* entity is made of it any more.                                          *)
StatusArrives(a) ==
    /\ phase \in {"matching", "platforms", "loaded"} /\ a \in coordinators
    /\ a \notin known \/ a \in FanAcs \ available
    /\ Reached(a)
    /\ UNCHANGED <<phase, next, name, listVars, coordinators, deviceVars, entityVars,
                    fanVars, renamed, troubled>>

(* A failed poll or an undelivered command: the device is not available.   *)
GoesAway(a) ==
    /\ phase \in {"platforms", "loaded"} /\ a \in available
    /\ available' = available \ {a}
    /\ UNCHANGED <<phase, next, name, listVars, coordinators, known, deviceVars, entityVars,
                    fanVars, renamed, troubled>>

(* mutant: whatever is matched serves as an air conditioner *)
MutMatchAc ==
    /\ phase = "matching" /\ wideq = "up" /\ next <= Len(WideqOrder) /\ next' = next + 1
    /\ LET device == WideqOrder[next]
           a == MatchWideqToPat(device, Supported)
       IN  IF a = None THEN UNCHANGED <<acDevice, troubled>>
           ELSE \/ acDevice' = [acDevice EXCEPT ![a] = device] /\ UNCHANGED troubled
                \/ troubled' = troubled \cup {device} /\ UNCHANGED acDevice
    /\ UNCHANGED <<phase, name, listVars, coordinators, known, washerDevice, entityVars, acVars,
                    renamed>>

(* Step 4 of the set-up, for one wideq device: its description is loaded,  *)
(* and it serves the PAT device, in place of one that did before.          *)
MatchAc ==
    /\ phase = "matching" /\ wideq = "up" /\ next <= Len(WideqOrder) /\ next' = next + 1
    /\ LET device == WideqOrder[next]
           a == MatchWideqToPat(device, Supported)
       IN  IF Kind[device] # "ac" \/ a = None THEN UNCHANGED <<acDevice, troubled>>
           ELSE \/ acDevice' = [acDevice EXCEPT ![a] = device] /\ UNCHANGED troubled
                \/ troubled' = troubled \cup {device} /\ UNCHANGED acDevice
    /\ UNCHANGED <<phase, name, listVars, coordinators, known, washerDevice, entityVars, acVars,
                    renamed>>

-----------------------------------------------------------------------------
(* The platforms: climate entities, which restore the fan mode if they     *)
(* offer it, and switches at once, ...                                     *)
OffersFan(a) == a \in Acs \cap coordinators /\ acDevice[a] # None

(* mutant: the last state is not looked at *)
MutRestored(a) == None

Restored(a) == IF OffersFan(a) THEN saved[a] ELSE None

(* switch.py asks for a status, which there may be none of yet. *)
Switchable == Acs \cap known

SetUpClimate ==
    /\ phase = "matching" /\ (wideq = "up" => next > Len(WideqOrder))
    /\ phase' = "platforms" /\ next' = 1
    /\ fan' = [a \in FanAcs |-> Restored(a)]
    /\ switches' = Switchable
    /\ UNCHANGED <<name, listVars, coordinators, known, deviceVars, filters, available, saved,
                    stored, commanded, mislaid, onDisk, renamed, troubled>>

(* ... and the sensors one by one: a filter sensor by wideq, or by PAT if  *)
(* its status tells; a course sensor with the first wideq washer that is   *)
(* matched to this one.                                                    *)
MatchedWasher(a) ==
    IF wideq = "down" THEN None
    ELSE First(WideqOrder, {d \in Washers : MatchWideqToPat(d, coordinators) = a})

SetUpSensor ==
    /\ phase = "platforms" /\ next <= Len(PatOrder) /\ next' = next + 1
    /\ LET a == PatOrder[next]
       IN  /\ filters' = IF a \in Acs \cap coordinators /\ (acDevice[a] # None \/ a \in known)
                         THEN filters \cup {a} ELSE filters
           /\ IF a \in Washers \cap coordinators /\ MatchedWasher(a) # None
              THEN \/ washerDevice' = [washerDevice EXCEPT ![a] = MatchedWasher(a)]
                      /\ UNCHANGED troubled
                   \/ troubled' = troubled \cup {a} /\ UNCHANGED washerDevice
              ELSE UNCHANGED <<washerDevice, troubled>>
    /\ UNCHANGED <<phase, name, listVars, coordinators, known, acDevice, switches, acVars, renamed>>

Loaded ==
    /\ phase = "platforms" /\ next > Len(PatOrder)
    /\ phase' = "loaded" /\ next' = 1
    /\ UNCHANGED <<name, listVars, coordinators, known, deviceVars, entityVars, acVars, renamed,
                    troubled>>

-----------------------------------------------------------------------------
(* What Home Assistant keeps of an entity: an entity that is not available *)
(* is written without its fan mode, and one that is not there any more is  *)
(* kept as it was.                                                         *)
Exists(a) == phase \in {"platforms", "loaded"} /\ a \in coordinators
Shows(a)  == OffersFan(a) /\ a \in available

LastState(a) == IF ~Exists(a) THEN saved[a] ELSE IF Shows(a) THEN fan[a] ELSE None

(* Saved with the mode hidden, it can be missing after the next set-up. *)
Mislaying(a) == IF Exists(a) /\ ~Shows(a) /\ mislaid[a] = "no" THEN "hidden" ELSE mislaid[a]

(* A fan mode that wideq has acknowledged is shown from then on; until it  *)
(* is on the disk, a crash brings an older one back.                       *)
SetFan(a, mode) ==
    /\ phase = "loaded" /\ Shows(a) /\ fan[a] # mode
    /\ fan' = [fan EXCEPT ![a] = mode] /\ commanded' = [commanded EXCEPT ![a] = mode]
    /\ mislaid' = [mislaid EXCEPT ![a] = "no"] /\ onDisk' = [onDisk EXCEPT ![a] = "older"]
    /\ UNCHANGED <<phase, next, name, listVars, coordinators, known, deviceVars, entityVars,
                    available, saved, stored, renamed, troubled>>

(* Home Assistant writes the last states to the disk, from time to time    *)
(* and when it stops.                                                      *)
Dump ==
    /\ stored' = [a \in FanAcs |-> LastState(a)]
    /\ onDisk' = [a \in FanAcs |-> Mislaying(a)]
    /\ UNCHANGED <<phase, next, name, listVars, coordinators, known, deviceVars, entityVars,
                    available, fan, saved, commanded, mislaid, renamed, troubled>>

(* The entry is unloaded, to be set up again. *)
Unload ==
    /\ phase = "loaded" /\ phase' = "off"
    /\ EntryGone
    /\ saved' = [a \in FanAcs |-> LastState(a)]
    /\ mislaid' = [a \in FanAcs |-> Mislaying(a)]
    /\ UNCHANGED <<next, name, stored, commanded, onDisk, renamed, troubled>>

(* Home Assistant ends, after a Dump or in a crash, and starts again.      *)
Restart ==
    /\ phase' = "off" /\ next' = 1
    /\ EntryGone
    /\ saved' = stored /\ mislaid' = onDisk
    /\ UNCHANGED <<name, stored, commanded, onDisk, renamed, troubled>>

(* In the LG app, before the lists are fetched or between them: a name     *)
(* that changes later is seen by the next set-up only.                     *)
Rename(a, n) ==
    /\ phase \in {"off", "listing"}
    /\ name[a] # n /\ name' = [name EXCEPT ![a] = n]
    /\ renamed' = IF phase = "listing" THEN "yes" ELSE renamed
    /\ UNCHANGED <<phase, next, listVars, coordinators, known, deviceVars, entityVars, acVars,
                    troubled>>

Next ==
    \/ Connect \/ Discover \/ NotReady \/ Build \/ Built \/ MatchAc
    \/ SetUpFails \/ SetUpClimate \/ SetUpSensor \/ Loaded \/ Unload \/ Dump \/ Restart
    \/ \E a \in FanAcs : GoesAway(a) \/ \E m \in Modes : SetFan(a, m)
    \/ \E a \in Supported : StatusArrives(a) \/ \E n \in Names : Rename(a, n)

Spec == Init /\ [][Next]_vars

-----------------------------------------------------------------------------
Ambiguous ==
    \E a, b \in Supported : a # b /\ Kind[a] = Kind[b] /\ patName[a] = patName[b]

WideqLists(a) == \E i \in 1 .. Len(WideqOrder) : WideqOrder[i] = a

(* If the set-up is completed, what failed for one device has cost the     *)
(* others nothing: with names that tell them apart and were not changed    *)
(* between the two lists, an air conditioner or a washer is served by its  *)
(* own wideq device or by none, and has all its entities, and the wideq    *)
(* device if wideq lists one, unless a request for itself has failed.  A   *)
(* profile that fails in an unforeseen way does cost all: SetUpFails.      *)
EveryDeviceIsServed ==
    (phase = "loaded" /\ renamed = "no" /\ ~Ambiguous) =>
        \A a \in Acs \cup Washers :
            /\ acDevice[a] \in {a, None} /\ washerDevice[a] \in {a, None}
            /\ a \notin troubled =>
                 /\ a \in coordinators
                 /\ a \in Acs => a \in switches /\ a \in filters
                 /\ (wideq = "up" /\ WideqLists(a)) =>
                        IF a \in Acs THEN acDevice[a] = a ELSE washerDevice[a] = a

(* A fan mode that was commanded is shown after every later set-up in      *)
(* which the air conditioner offers fan modes.  It is missing only if Home *)
(* Assistant kept the entity's state while it did not show the mode (not   *)
(* available, or set up without wideq), and an older one is shown only     *)
(* after a crash before the newer one was written to the disk.             *)
FanModeSurvives ==
    phase \in {"platforms", "loaded"} =>
        \A a \in FanAcs : OffersFan(a) =>
            \/ fan[a] = commanded[a]
            \/ fan[a] = None /\ mislaid[a] = "hidden"
            \/ mislaid[a] = "older"
=============================================================================
