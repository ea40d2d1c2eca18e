---------------------------- MODULE DeviceSetupProofs ----------------------------
(***************************************************************************)
(* DeviceSetup for any appliances in any order, any names and fan modes:   *)
(* its types, which devices are served, and the fan modes shown.           *)
(***************************************************************************)
EXTENDS DeviceSetup, WellFoundedInduction, TLAPS

(* What the store has of a mode that was commanded, by how it was saved.   *)
Fits(v, mode, how) == v = mode \/ (v = None /\ how = "hidden") \/ how = "older"

(* Of every air conditioner, what each place holds fits what happened to   *)
(* the mode on its way there: the disk, the memory while there is no       *)
(* entity, and the entity itself while it offers fan modes.                *)
FanInv ==
    /\ {fan, saved, stored, commanded} \subseteq [FanAcs -> Modes \cup {None}]
    /\ {mislaid, onDisk} \subseteq [FanAcs -> {"no", "hidden", "older"}]
    /\ \A a \in FanAcs :
          /\ Fits(stored[a], commanded[a], onDisk[a])
          /\ ~Exists(a) => Fits(saved[a], commanded[a], mislaid[a])
          /\ (Exists(a) /\ OffersFan(a)) => Fits(fan[a], commanded[a], mislaid[a])

(* Steps that touch neither the fan modes nor which entities there are. *)
LEMMA FanUntouched ==
    ASSUME FanInv, UNCHANGED fanVars,
           \/ phase' \notin {"platforms", "loaded"} /\ phase \notin {"platforms", "loaded"}
           \/ phase' \in {"platforms", "loaded"} /\ phase \in {"platforms", "loaded"}
              /\ UNCHANGED <<coordinators, acDevice>>
    PROVE  FanInv'
  <1>1. CASE phase' \notin {"platforms", "loaded"} /\ phase \notin {"platforms", "loaded"}
    BY <1>1 DEF FanInv, Exists, Fits, fanVars
  <1>2. CASE /\ phase' \in {"platforms", "loaded"} /\ phase \in {"platforms", "loaded"}
             /\ UNCHANGED <<coordinators, acDevice>>
    BY <1>2 DEF FanInv, Exists, OffersFan, Fits, fanVars
  <1> QED BY <1>1, <1>2

LEMMA FanInit == Init => FanInv
  BY DEF Init, FanInv, Fits, Exists, NoFan

(* What Home Assistant writes fits as well. *)
LEMMA WrittenFits ==
    ASSUME FanInv, NEW a \in FanAcs
    PROVE  /\ LastState(a) \in Modes \cup {None}
           /\ Mislaying(a) \in {"no", "hidden", "older"}
           /\ Fits(LastState(a), commanded[a], Mislaying(a))
  <1>1. /\ fan[a] \in Modes \cup {None} /\ saved[a] \in Modes \cup {None}
        /\ mislaid[a] \in {"no", "hidden", "older"}
    BY DEF FanInv
  <1>2. CASE ~Exists(a)
    BY <1>1, <1>2 DEF FanInv, LastState, Mislaying
  <1>3. CASE Exists(a) /\ Shows(a)
    BY <1>1, <1>3 DEF FanInv, LastState, Mislaying, Shows
  <1>4. CASE Exists(a) /\ ~Shows(a)
    BY <1>1, <1>4 DEF LastState, Mislaying, Fits
  <1> QED BY <1>2, <1>3, <1>4

LEMMA FanStep == FanInv /\ [Next]_vars => FanInv'
  <1> SUFFICES ASSUME FanInv, [Next]_vars
               PROVE  FanInv'
    OBVIOUS
  <1>1. CASE Connect \/ Discover \/ NotReady \/ Build \/ Built \/ MatchAc
    BY <1>1, FanUntouched DEF Connect, Discover, NotReady, Build, Built, MatchAc, acVars
  <1>2. CASE SetUpFails
    BY <1>2 DEF SetUpFails, EntryGone, FanInv, Fits, Exists, NoFan
  <1>3. CASE SetUpSensor \/ Loaded
    BY <1>3, FanUntouched DEF SetUpSensor, Loaded, acVars, deviceVars
  <1>4. ASSUME NEW a \in Supported, StatusArrives(a)
        PROVE  FanInv'
    BY <1>4, FanUntouched DEF StatusArrives, deviceVars
  <1>5. ASSUME NEW a \in FanAcs, GoesAway(a)
        PROVE  FanInv'
    BY <1>5, FanUntouched DEF GoesAway, deviceVars
  <1>6. ASSUME NEW a \in Supported, NEW n \in Names, Rename(a, n)
        PROVE  FanInv'
    BY <1>6, FanUntouched DEF Rename, acVars
  <1>7. CASE SetUpClimate
    <2>1. /\ phase = "matching" /\ phase' = "platforms"
          /\ UNCHANGED <<coordinators, acDevice, saved, stored, commanded, mislaid, onDisk>>
          /\ fan' = [a \in FanAcs |-> Restored(a)]
      BY <1>7 DEF SetUpClimate, deviceVars
    <2>2. \A a \in FanAcs : ~Exists(a) /\ saved[a] \in Modes \cup {None}
      BY <2>1 DEF FanInv, Exists
    <2>3. fan' \in [FanAcs -> Modes \cup {None}]
      BY <2>1, <2>2 DEF Restored
    <2>4. \A a \in FanAcs : OffersFan(a)' = OffersFan(a) /\ (OffersFan(a) => fan'[a] = saved[a])
      BY <2>1 DEF OffersFan, Restored
    <2> QED BY <2>1, <2>2, <2>3, <2>4 DEF FanInv, Fits
  <1>8. ASSUME NEW a \in FanAcs, NEW m \in Modes, SetFan(a, m)
        PROVE  FanInv'
    <2>1. /\ phase = "loaded" /\ phase' = "loaded" /\ a \in coordinators
          /\ UNCHANGED <<coordinators, acDevice, saved, stored>>
          /\ fan' = [fan EXCEPT ![a] = m] /\ commanded' = [commanded EXCEPT ![a] = m]
          /\ mislaid' = [mislaid EXCEPT ![a] = "no"] /\ onDisk' = [onDisk EXCEPT ![a] = "older"]
      BY <1>8 DEF SetFan, Shows, OffersFan, deviceVars
    <2>2. \A b \in FanAcs : OffersFan(b)' = OffersFan(b) /\ Exists(b)' = Exists(b)
      BY <2>1 DEF OffersFan, Exists
    <2>3. Exists(a)
      BY <2>1 DEF Exists
    <2>4. ASSUME NEW b \in FanAcs
          PROVE  /\ Fits(stored[b], commanded'[b], onDisk'[b])
                 /\ ~Exists(b) => Fits(saved[b], commanded'[b], mislaid'[b])
                 /\ (Exists(b) /\ OffersFan(b)) => Fits(fan'[b], commanded'[b], mislaid'[b])
      <3>1. CASE b = a
        BY <2>1, <2>3, <3>1 DEF FanInv, Fits
      <3>2. CASE b # a
        BY <2>1, <3>2 DEF FanInv
      <3> QED BY <3>1, <3>2
    <2>5. /\ {fan', saved, stored, commanded'} \subseteq [FanAcs -> Modes \cup {None}]
          /\ {mislaid', onDisk'} \subseteq [FanAcs -> {"no", "hidden", "older"}]
      BY <2>1 DEF FanInv
    <2> QED BY <2>1, <2>2, <2>4, <2>5 DEF FanInv, Fits
  <1>9. CASE Dump
    <2>1. /\ stored' = [a \in FanAcs |-> LastState(a)] /\ onDisk' = [a \in FanAcs |-> Mislaying(a)]
          /\ UNCHANGED <<phase, coordinators, acDevice, fan, saved, commanded, mislaid>>
      BY <1>9 DEF Dump, deviceVars
    <2>2. \A a \in FanAcs : OffersFan(a)' = OffersFan(a) /\ Exists(a)' = Exists(a)
      BY <2>1 DEF OffersFan, Exists
    <2> QED BY <2>1, <2>2, WrittenFits DEF FanInv, Fits
  <1>10. CASE Unload
    <2>1. /\ saved' = [a \in FanAcs |-> LastState(a)] /\ mislaid' = [a \in FanAcs |-> Mislaying(a)]
          /\ phase' = "off" /\ fan' = NoFan /\ UNCHANGED <<stored, commanded, onDisk>>
      BY <1>10 DEF Unload, EntryGone
    <2>2. \A a \in FanAcs : ~Exists(a)'
      BY <2>1 DEF Exists
    <2> QED BY <2>1, <2>2, WrittenFits DEF FanInv, Fits, NoFan
  <1>11. CASE Restart
    <2>1. /\ phase' = "off" /\ fan' = NoFan /\ saved' = stored /\ mislaid' = onDisk
          /\ UNCHANGED <<stored, commanded, onDisk>>
      BY <1>11 DEF Restart, EntryGone
    <2>2. \A a \in FanAcs : ~Exists(a)'
      BY <2>1 DEF Exists
    <2> QED BY <2>1, <2>2 DEF FanInv, Fits, NoFan
  <1>12. CASE UNCHANGED vars
    BY <1>12 DEF vars, acVars, deviceVars, fanVars, FanInv, Fits, Exists, OffersFan
  <1> QED
    BY <1>1, <1>2, <1>3, <1>4, <1>5, <1>6, <1>7, <1>8, <1>9, <1>10, <1>11, <1>12 DEF Next

(* The inductive invariant holds throughout. *)
THEOREM FanInvariant == Spec => []FanInv
  BY FanInit, FanStep, PTL DEF Spec

(* However often the entry is set up again, in whatever order reloads,     *)
(* crashes and writes to the disk come, and whatever fails or is renamed:  *)
(* an air conditioner that offers fan modes shows the one commanded last,  *)
(* none only if it was saved while hidden, and an older one only after a   *)
(* crash before the newer one was written.                                 *)
THEOREM FanSurvives == Spec => []FanModeSurvives
  <1>1. FanInv => FanModeSurvives
    BY DEF FanInv, FanModeSurvives, Fits, Exists, OffersFan
  <1> QED BY <1>1, FanInvariant, PTL

-----------------------------------------------------------------------------
(* Matching: the first entry of a list that fits. *)
LEMMA MinIsMember ==
    ASSUME NEW S \in SUBSET Nat, S # {}
    PROVE  Min(S) \in S
  <1>1. PICK x \in S : \A y \in S : ~(<<y, x>> \in OpToRel(<, Nat))
    BY NatLessThanWellFounded, WFMin, Zenon
  <1>2. ASSUME NEW y \in Nat, NEW z \in Nat, y < z
        PROVE  <<y, z>> \in OpToRel(<, Nat)
    <2>1. <<y, z>> \in Nat \X Nat /\ <<y, z>>[1] < <<y, z>>[2]
      BY <1>2
    <2> QED BY <2>1, Zenon DEF OpToRel
  <1>3. \A y \in S : ~(y < x)
    BY <1>1, <1>2, Zenon
  <1>4. \A y \in S : x <= y
    BY <1>3
  <1> QED BY <1>4 DEF Min

LEMMA FirstFits ==
    ASSUME NEW order \in Seq(Appliances), NEW fitting
    PROVE  /\ First(order, fitting) \in fitting \cup {None}
           /\ (\E i \in 1 .. Len(order) : order[i] \in fitting) =>
                 First(order, fitting) \in fitting
  <1> DEFINE found == {i \in 1 .. Len(order) : order[i] \in fitting}
  <1>1. CASE found = {}
    BY <1>1 DEF First
  <1>2. CASE found # {}
    <2>1. found \in SUBSET Nat
      OBVIOUS
    <2>2. Min(found) \in found
      BY <1>2, <2>1, MinIsMember
    <2> QED BY <1>2, <2>2 DEF First
  <1> QED BY <1>1, <1>2

(* With names that tell the appliances apart, and are the same in both     *)
(* lists, an appliance is matched to itself, if it is among the entries.   *)
LEMMA MatchesItself ==
    ASSUME NEW device \in Supported, NEW entries \in SUBSET Supported,
           ~Ambiguous, \A a \in Supported : wideqName[a] = patName[a]
    PROVE  MatchWideqToPat(device, entries) = IF device \in entries THEN device ELSE None
  <1> DEFINE fitting ==
        {a \in entries : Kind[a] = Kind[device] /\ patName[a] = wideqName[device]}
  <1>1. fitting = IF device \in entries THEN {device} ELSE {}
    BY DEF Ambiguous
  <1>2. PatOrder \in Seq(Appliances)
    BY SetupAssumption
  <1>3. \E i \in 1 .. Len(PatOrder) : PatOrder[i] = device
    BY DEF Supported, Appliances
  <1>4. /\ First(PatOrder, fitting) \in fitting \cup {None}
        /\ device \in entries => First(PatOrder, fitting) \in fitting
    BY <1>1, <1>2, <1>3, FirstFits
  <1> QED BY <1>1, <1>4 DEF MatchWideqToPat

-----------------------------------------------------------------------------
LEMMA TypeInit == Init => TypeOK
  BY SetupAssumption DEF Init, TypeOK, Unnamed, Unmatched, NoFan, Supported

LEMMA TypeStep == TypeOK /\ [Next]_vars => TypeOK'
  <1> SUFFICES ASSUME TypeOK, [Next]_vars
               PROVE  TypeOK'
    OBVIOUS
  <1> USE SetupAssumption
  <1>1. CASE Connect
    BY <1>1 DEF Connect, TypeOK, deviceVars, entityVars, acVars, fanVars
  <1>2. CASE Discover
    BY <1>2 DEF Discover, TypeOK, deviceVars, entityVars, acVars, fanVars
  <1>3. CASE NotReady
    BY <1>3 DEF NotReady, TypeOK, deviceVars, entityVars, acVars, fanVars, Unnamed
  <1>4. CASE Build
    <2>1. PatOrder[next] \in Appliances
      BY <1>4 DEF Build, TypeOK
    <2> QED
      BY <1>4, <2>1 DEF Build, BuildOne, Reached, TypeOK, listVars, deviceVars, entityVars, acVars, fanVars
  <1>5. CASE Built
    BY <1>5 DEF Built, TypeOK, listVars, deviceVars, entityVars, acVars, fanVars
  <1>6. ASSUME NEW a \in Supported, StatusArrives(a)
        PROVE  TypeOK'
    BY <1>6 DEF StatusArrives, Reached, TypeOK, listVars, deviceVars, entityVars, acVars, fanVars
  <1>7. CASE MatchAc
    <2> DEFINE device == WideqOrder[next]
               a == MatchWideqToPat(device, Supported)
    <2>1. device \in Appliances /\ next' = next + 1 /\ next <= Len(WideqOrder)
      BY <1>7 DEF MatchAc, TypeOK
    <2>2. a \in {b \in Supported : Kind[b] = Kind[device]} \cup {None}
      BY FirstFits DEF MatchWideqToPat
    <2>3. \/ UNCHANGED <<acDevice, troubled>>
          \/ /\ device \in Acs /\ a \in Acs
             /\ \/ acDevice' = [acDevice EXCEPT ![a] = device] /\ UNCHANGED troubled
                \/ troubled' = troubled \cup {device} /\ UNCHANGED acDevice
      BY <1>7, <2>1, <2>2 DEF MatchAc, Acs, Supported
    <2>4. acDevice' \in [Appliances -> Acs \cup {None}] /\ troubled' \subseteq Appliances
      BY <2>1, <2>3 DEF TypeOK, Acs
    <2>5. \A b \in Appliances : acDevice'[b] # None => b \in Acs
      BY <2>3 DEF TypeOK, Acs
    <2> QED
      BY <1>7, <2>1, <2>4, <2>5 DEF MatchAc, TypeOK, listVars, deviceVars, entityVars, acVars, fanVars
  <1>8. CASE SetUpClimate
    <2>1. fan' \in [FanAcs -> Modes \cup {None}] /\ switches' \subseteq Acs
      BY <1>8 DEF SetUpClimate, TypeOK, Restored, Switchable
    <2> QED
      BY <1>8, <2>1 DEF SetUpClimate, TypeOK, listVars, deviceVars
  <1>9. CASE SetUpSensor
    <2> DEFINE a == PatOrder[next]
    <2>1. a \in Appliances /\ next' = next + 1 /\ next <= Len(PatOrder)
      BY <1>9 DEF SetUpSensor, TypeOK
    <2>2. MatchedWasher(a) \in Washers \cup {None}
      BY FirstFits DEF MatchedWasher
    <2>3. /\ filters' \subseteq Acs
          /\ washerDevice' \in [Appliances -> Washers \cup {None}]
          /\ troubled' \subseteq Appliances
      BY <1>9, <2>1, <2>2 DEF SetUpSensor, TypeOK
    <2> QED
      BY <1>9, <2>1, <2>3 DEF SetUpSensor, TypeOK, listVars, acVars, fanVars
  <1>10. CASE Loaded
    BY <1>10 DEF Loaded, TypeOK, listVars, deviceVars, entityVars, acVars, fanVars
  <1>11. CASE Unload
    <2>1. /\ saved' \in [FanAcs -> Modes \cup {None}]
          /\ mislaid' \in [FanAcs -> {"no", "hidden", "older"}]
      BY <1>11 DEF Unload, TypeOK, LastState, Mislaying
    <2> QED
      BY <1>11, <2>1 DEF Unload, EntryGone, TypeOK, Unnamed, Unmatched, NoFan
  <1>12. ASSUME NEW a \in FanAcs, NEW m \in Modes, SetFan(a, m)
         PROVE  TypeOK'
    BY <1>12 DEF SetFan, TypeOK, listVars, deviceVars, entityVars
  <1>13. ASSUME NEW a \in Supported, NEW n \in Names, Rename(a, n)
         PROVE  TypeOK'
    BY <1>13 DEF Rename, TypeOK, listVars, deviceVars, entityVars, acVars, fanVars
  <1>14. CASE SetUpFails
    BY <1>14 DEF SetUpFails, EntryGone, TypeOK, Unnamed, Unmatched, NoFan
  <1>15. ASSUME NEW a \in FanAcs, GoesAway(a)
         PROVE  TypeOK'
    BY <1>15 DEF GoesAway, TypeOK, listVars, deviceVars, entityVars, fanVars
  <1>16. CASE Dump
    <2>1. /\ stored' \in [FanAcs -> Modes \cup {None}]
          /\ onDisk' \in [FanAcs -> {"no", "hidden", "older"}]
      BY <1>16 DEF Dump, TypeOK, LastState, Mislaying
    <2> QED
      BY <1>16, <2>1 DEF Dump, TypeOK, listVars, deviceVars, entityVars
  <1>17. CASE Restart
    BY <1>17 DEF Restart, EntryGone, TypeOK, Unnamed, Unmatched, NoFan
  <1>18. CASE UNCHANGED vars
    BY <1>18 DEF vars, TypeOK, listVars, deviceVars, entityVars, acVars, fanVars
  <1> QED
    BY <1>1, <1>2, <1>3, <1>4, <1>5, <1>6, <1>7, <1>8, <1>9, <1>10, <1>11, <1>12, <1>13, <1>14,
       <1>15, <1>16, <1>17, <1>18 DEF Next

(* Every variable keeps its type, whatever is matched to what. *)
THEOREM TypeCorrect == Spec => []TypeOK
  BY TypeInit, TypeStep, PTL DEF Spec

-----------------------------------------------------------------------------
(* Which devices are served.  Step by step, over the devices that a loop   *)
(* has passed: each has what that step makes, or a request for it failed.  *)
Quiet == renamed = "no" /\ ~Ambiguous
SetUp == phase \in {"platforms", "loaded"}
Listed == phase = "building" \/ phase = "matching" \/ SetUp
Passed(order) == {order[i] : i \in {j \in 1 .. Len(order) : j < next}}

(* Nothing is left of an earlier set-up. *)
StartsEmpty ==
    /\ phase \in {"off", "failed", "listing", "building", "matching"} =>
          washerDevice = Unmatched /\ filters = {}
    /\ phase \in {"off", "failed", "listing", "building"} => acDevice = Unmatched

(* The two lists agree when no name changes between them. *)
NamesAgree ==
    (wideq = "up" /\ renamed = "no") =>
        /\ phase = "listing" => wideqName = name
        /\ Listed => \A a \in Supported : wideqName[a] = patName[a]

CoordinatorsBuilt ==
    /\ phase = "building" => Passed(PatOrder) \cap Supported \subseteq known \cup troubled
    /\ phase = "matching" \/ SetUp => Supported \subseteq known \cup troubled

AcsMatched ==
    Quiet =>
        /\ \A a \in Appliances : acDevice[a] \in {a, None}
        /\ (phase = "matching" /\ wideq = "up") =>
              \A a \in (Acs \cap Passed(WideqOrder)) \ troubled : acDevice[a] = a
        /\ (SetUp /\ wideq = "up") =>
              \A a \in Acs \ troubled : WideqLists(a) => acDevice[a] = a

EntitiesAdded ==
    /\ SetUp => Acs \subseteq switches \cup troubled
    /\ phase = "platforms" => Acs \cap Passed(PatOrder) \subseteq filters \cup troubled
    /\ phase = "loaded" => Acs \subseteq filters \cup troubled

WashersMatched ==
    Quiet =>
        /\ \A a \in Appliances : washerDevice[a] \in {a, None}
        /\ (phase = "platforms" /\ wideq = "up") =>
              \A a \in (Washers \cap Passed(PatOrder)) \ troubled :
                  WideqLists(a) => washerDevice[a] = a
        /\ (phase = "loaded" /\ wideq = "up") =>
              \A a \in Washers \ troubled : WideqLists(a) => washerDevice[a] = a

ServeInv ==
    /\ TypeOK /\ StartsEmpty /\ NamesAgree /\ CoordinatorsBuilt
    /\ AcsMatched /\ EntitiesAdded /\ WashersMatched

(* What a loop over a list has passed, at its start, after a step and at   *)
(* its end.                                                                *)
LEMMA PassedGrows ==
    ASSUME NEW order, Len(order) \in Nat, TypeOK
    PROVE  /\ next = 1 => Passed(order) = {}
           /\ (next <= Len(order) /\ next' = next + 1) =>
                 Passed(order)' = Passed(order) \cup {order[next]}
           /\ next > Len(order) => Passed(order) = {order[i] : i \in 1 .. Len(order)}
           /\ next' = 1 => Passed(order)' = {}
  <1>1. next \in Nat
    BY DEF TypeOK
  <1>2. next = 1 => Passed(order) = {}
    BY DEF Passed
  <1>3. ASSUME next <= Len(order), next' = next + 1
        PROVE  Passed(order)' = Passed(order) \cup {order[next]}
    <2>1. {j \in 1 .. Len(order) : j < next'} = {j \in 1 .. Len(order) : j < next} \cup {next}
      BY <1>1, <1>3, TypeOK DEF TypeOK
    <2> QED BY <2>1 DEF Passed
  <1>4. next > Len(order) => Passed(order) = {order[i] : i \in 1 .. Len(order)}
    BY <1>1 DEF Passed
  <1>5. next' = 1 => Passed(order)' = {}
    BY DEF Passed
  <1> QED BY <1>2, <1>3, <1>4, <1>5

LEMMA ServeInit == Init => ServeInv
  <1> SUFFICES ASSUME Init
               PROVE  ServeInv
    OBVIOUS
  <1>1. TypeOK
    BY TypeInit
  <1> QED
    BY <1>1 DEF Init, ServeInv, StartsEmpty, NamesAgree, CoordinatorsBuilt, AcsMatched,
                EntitiesAdded, WashersMatched, SetUp, Listed, Unmatched,
                Unnamed

(* While nothing has been matched there is nothing to show of it. *)
LEMMA ServeEmpty ==
    ASSUME TypeOK', phase' \in {"off", "failed", "listing", "building"}, StartsEmpty', NamesAgree',
           phase' = "building" => CoordinatorsBuilt'
    PROVE  ServeInv'
  <1>1. acDevice' = Unmatched /\ washerDevice' = Unmatched
    BY DEF StartsEmpty
  <1>2. AcsMatched' /\ WashersMatched'
    BY <1>1 DEF AcsMatched, WashersMatched, SetUp, Unmatched, Unnamed
  <1> QED
    BY <1>2 DEF ServeInv, CoordinatorsBuilt, EntitiesAdded, SetUp

(* Steps that change no more than a status, a fan mode or the bookkeeping. *)
LEMMA ServeUntouched ==
    ASSUME ServeInv, TypeOK', known \subseteq known',
           UNCHANGED <<phase, next, name, listVars, deviceVars, entityVars, renamed, troubled>>
    PROVE  ServeInv'
  <1>1. /\ phase' = phase /\ next' = next /\ name' = name /\ wideq' = wideq
        /\ wideqName' = wideqName /\ patName' = patName /\ acDevice' = acDevice
        /\ washerDevice' = washerDevice /\ switches' = switches /\ filters' = filters
        /\ renamed' = renamed /\ troubled' = troubled
    BY DEF listVars, deviceVars, entityVars
  <1>2. Passed(PatOrder)' = Passed(PatOrder) /\ Passed(WideqOrder)' = Passed(WideqOrder)
    BY <1>1 DEF Passed
  <1>3. StartsEmpty' /\ NamesAgree' /\ EntitiesAdded'
    BY <1>1, <1>2 DEF ServeInv, StartsEmpty, NamesAgree, EntitiesAdded, SetUp, Listed
  <1>4. CoordinatorsBuilt'
    BY <1>1, <1>2 DEF ServeInv, CoordinatorsBuilt, SetUp
  <1>5. AcsMatched' /\ WashersMatched'
    BY <1>1, <1>2 DEF ServeInv, AcsMatched, WashersMatched, SetUp, Quiet, Ambiguous
  <1> QED BY <1>3, <1>4, <1>5 DEF ServeInv

(* Under the same conditions a washer is served by its own wideq device,   *)
(* if wideq lists one, and never by another.                               *)
LEMMA ServesItself ==
    ASSUME ServeInv, phase = "platforms", Quiet, NEW a \in Appliances,
           a \in Washers \cap coordinators
    PROVE  /\ MatchedWasher(a) \in {a, None}
           /\ (wideq = "up" /\ WideqLists(a)) => MatchedWasher(a) = a
  <1> DEFINE mine == {d \in Washers : MatchWideqToPat(d, coordinators) = a}
  <1>1. CASE wideq = "down"
    BY <1>1 DEF MatchedWasher
  <1>2. CASE wideq = "up"
    <2>1. \A b \in Supported : wideqName[b] = patName[b]
      BY <1>2 DEF ServeInv, NamesAgree, Listed, SetUp, Quiet
    <2>2. coordinators \in SUBSET Supported
      BY DEF ServeInv, TypeOK
    <2>3. \A d \in Washers :
             MatchWideqToPat(d, coordinators) = IF d \in coordinators THEN d ELSE None
      BY <2>1, <2>2, MatchesItself DEF Quiet, Washers, Supported
    <2>4. mine = {a}
      BY <2>3, SetupAssumption
    <2>5. /\ First(WideqOrder, mine) \in mine \cup {None}
          /\ WideqLists(a) => First(WideqOrder, mine) \in mine
      BY <2>4, FirstFits, SetupAssumption DEF WideqLists
    <2> QED BY <1>2, <2>4, <2>5 DEF MatchedWasher
  <1> QED BY <1>1, <1>2 DEF ServeInv, TypeOK

LEMMA ServeStep == ServeInv /\ [Next]_vars => ServeInv'
  <1> SUFFICES ASSUME ServeInv, [Next]_vars
               PROVE  ServeInv'
    OBVIOUS
  <1> USE SetupAssumption
  <1>t. TypeOK /\ TypeOK'
    BY TypeStep DEF ServeInv
  <1>1. CASE Connect
    <2>1. /\ phase \in {"off", "failed"} /\ phase' = "listing"
          /\ UNCHANGED <<name, acDevice, washerDevice, filters>>
          /\ wideq' = "up" => wideqName' = name
      BY <1>1 DEF Connect, deviceVars, entityVars
    <2> QED
      BY <2>1, <1>t, ServeEmpty DEF ServeInv, StartsEmpty, NamesAgree, Listed, SetUp
  <1>2. CASE Discover
    <2>1. /\ phase = "listing" /\ phase' = "building" /\ next' = 1
          /\ UNCHANGED <<name, wideq, wideqName, acDevice, washerDevice, filters, renamed>>
          /\ patName' = name
      BY <1>2 DEF Discover, deviceVars, entityVars
    <2>2. StartsEmpty' /\ NamesAgree'
      BY <2>1 DEF ServeInv, StartsEmpty, NamesAgree, Listed, SetUp
    <2>3. CoordinatorsBuilt'
      BY <2>1, <1>t, PassedGrows DEF CoordinatorsBuilt, SetUp
    <2> QED BY <1>t, <2>1, <2>2, <2>3, ServeEmpty
  <1>3. CASE NotReady
    <2>1. /\ phase = "listing" /\ phase' = "off" /\ wideq' = "down"
          /\ UNCHANGED <<acDevice, washerDevice, filters>>
      BY <1>3 DEF NotReady, deviceVars, entityVars
    <2> QED
      BY <2>1, <1>t, ServeEmpty DEF ServeInv, StartsEmpty, NamesAgree
  <1>4. CASE Build
    <2>1. /\ phase = "building" /\ phase' = "building"
          /\ next <= Len(PatOrder) /\ next' = next + 1
          /\ UNCHANGED <<name, wideq, wideqName, patName, acDevice, washerDevice, filters, renamed>>
      BY <1>4 DEF Build, listVars, deviceVars, entityVars
    <2>2. /\ known \subseteq known' /\ troubled \subseteq troubled'
          /\ PatOrder[next] \in Supported => PatOrder[next] \in known' \cup troubled'
      BY <1>4 DEF Build, BuildOne, Reached
    <2>3. StartsEmpty' /\ NamesAgree'
      BY <2>1 DEF ServeInv, StartsEmpty, NamesAgree, Listed, SetUp
    <2>4. CoordinatorsBuilt'
      BY <2>1, <2>2, <1>t, PassedGrows DEF ServeInv, CoordinatorsBuilt, SetUp
    <2> QED BY <1>t, <2>1, <2>3, <2>4, ServeEmpty
  <1>5. CASE Built
    <2>1. /\ phase = "building" /\ phase' = "matching" /\ next > Len(PatOrder) /\ next' = 1
          /\ UNCHANGED <<name, wideq, wideqName, patName, known, acDevice, washerDevice, filters,
                          renamed, troubled>>
      BY <1>5 DEF Built, listVars, deviceVars, entityVars
    <2>2. acDevice' = Unmatched /\ washerDevice' = Unmatched
      BY <2>1 DEF ServeInv, StartsEmpty
    <2>3. Passed(PatOrder) = Appliances /\ Passed(WideqOrder)' = {}
      BY <2>1, <1>t, PassedGrows DEF Appliances
    <2>4. CoordinatorsBuilt'
      BY <2>1, <2>3 DEF ServeInv, CoordinatorsBuilt, SetUp, Supported
    <2>5. AcsMatched' /\ WashersMatched'
      BY <2>1, <2>2, <2>3 DEF AcsMatched, WashersMatched, SetUp, Unmatched, Unnamed
    <2>6. StartsEmpty' /\ NamesAgree' /\ EntitiesAdded'
      BY <2>1 DEF ServeInv, StartsEmpty, NamesAgree, EntitiesAdded, Listed, SetUp
    <2> QED BY <1>t, <2>4, <2>5, <2>6 DEF ServeInv
  <1>6. ASSUME NEW a \in Supported, StatusArrives(a)
        PROVE  ServeInv'
    BY <1>6, <1>t, ServeUntouched DEF StatusArrives, Reached
  <1>7. CASE MatchAc
    <2> DEFINE device == WideqOrder[next]
               a == MatchWideqToPat(device, Supported)
    <2>1. /\ phase = "matching" /\ phase' = "matching" /\ wideq = "up"
          /\ next <= Len(WideqOrder) /\ next' = next + 1
          /\ UNCHANGED <<name, wideq, wideqName, patName, known, washerDevice, filters, renamed>>
          /\ troubled \subseteq troubled'
      BY <1>7 DEF MatchAc, listVars, entityVars
    <2>2. device \in Appliances /\ Passed(WideqOrder)' = Passed(WideqOrder) \cup {device}
      <3>1. next \in 1 .. Len(WideqOrder) /\ Len(WideqOrder) \in Nat
        BY <2>1, <1>t DEF TypeOK
      <3> QED BY <3>1, <2>1, <1>t, PassedGrows
    <2>3. StartsEmpty' /\ NamesAgree' /\ EntitiesAdded'
      BY <2>1 DEF ServeInv, StartsEmpty, NamesAgree, EntitiesAdded, Listed, SetUp
    <2>4. CoordinatorsBuilt'
      BY <2>1 DEF ServeInv, CoordinatorsBuilt, SetUp
    <2>5. WashersMatched'
      BY <2>1, <2>3 DEF StartsEmpty, WashersMatched, SetUp, Unmatched, Unnamed
    <2>6. ASSUME Quiet'
          PROVE  /\ \A b \in Appliances : acDevice'[b] \in {b, None}
                 /\ \A b \in (Acs \cap Passed(WideqOrder)') \ troubled' : acDevice'[b] = b
      <3>1. /\ Quiet
            /\ \A b \in Appliances : acDevice[b] \in {b, None}
            /\ \A b \in (Acs \cap Passed(WideqOrder)) \ troubled : acDevice[b] = b
        BY <2>1, <2>6 DEF ServeInv, AcsMatched, Quiet, Ambiguous
      <3>2. CASE device \notin Acs
        <4>1. UNCHANGED acDevice
          BY <1>7, <2>2, <3>2 DEF MatchAc, Acs
        <4> QED BY <2>1, <2>2, <3>1, <3>2, <4>1
      <3>3. CASE device \in Acs
        <4>1. device \in Supported
          BY <3>3 DEF Acs, Supported
        <4>2. a = device
          <5>1. \A b \in Supported : wideqName[b] = patName[b]
            BY <2>1, <3>1 DEF ServeInv, NamesAgree, Listed, Quiet
          <5> QED BY <4>1, <5>1, <3>1, MatchesItself DEF Quiet
        <4>3. \/ acDevice' = [acDevice EXCEPT ![device] = device]
              \/ troubled' = troubled \cup {device} /\ UNCHANGED acDevice
          BY <1>7, <2>2, <3>3, <4>2 DEF MatchAc, Acs
        <4>4. acDevice \in [Appliances -> Acs \cup {None}]
          BY <1>t DEF TypeOK
        <4>5. CASE acDevice' = [acDevice EXCEPT ![device] = device]
          BY <2>1, <2>2, <3>1, <4>4, <4>5 DEF Acs
        <4>6. CASE troubled' = troubled \cup {device} /\ UNCHANGED acDevice
          BY <2>1, <2>2, <3>1, <4>6
        <4> QED BY <4>3, <4>5, <4>6
      <3> QED BY <3>2, <3>3
    <2>7. AcsMatched'
      BY <2>1, <2>6 DEF AcsMatched, SetUp
    <2> QED BY <1>t, <2>3, <2>4, <2>5, <2>7 DEF ServeInv
  <1>8. CASE SetUpClimate
    <2>1. /\ phase = "matching" /\ phase' = "platforms" /\ next' = 1
          /\ wideq = "up" => next > Len(WideqOrder)
          /\ UNCHANGED <<name, wideq, wideqName, patName, known, acDevice, washerDevice, filters,
                          renamed, troubled>>
          /\ switches' = Acs \cap known
      BY <1>8 DEF SetUpClimate, listVars, deviceVars, Switchable
    <2>2. Passed(PatOrder)' = {}
      BY <2>1, <1>t, PassedGrows
    <2>3. wideq = "up" => \A a \in Appliances : WideqLists(a) => a \in Passed(WideqOrder)
      BY <2>1, <1>t, PassedGrows DEF WideqLists
    <2>4. StartsEmpty' /\ NamesAgree'
      BY <2>1 DEF ServeInv, StartsEmpty, NamesAgree, Listed, SetUp
    <2>5. CoordinatorsBuilt' /\ EntitiesAdded'
      BY <2>1, <2>2 DEF ServeInv, CoordinatorsBuilt, EntitiesAdded, SetUp, Acs, Supported
    <2>6. AcsMatched'
      BY <2>1, <2>3 DEF ServeInv, AcsMatched, SetUp, Quiet, Ambiguous, Acs
    <2>7. WashersMatched'
      BY <2>1, <2>2 DEF ServeInv, StartsEmpty, WashersMatched, SetUp, Unmatched, Unnamed
    <2> QED BY <1>t, <2>4, <2>5, <2>6, <2>7 DEF ServeInv
  <1>9. CASE SetUpSensor
    <2> DEFINE a == PatOrder[next]
    <2>1. /\ phase = "platforms" /\ phase' = "platforms"
          /\ next <= Len(PatOrder) /\ next' = next + 1
          /\ UNCHANGED <<name, wideq, wideqName, patName, coordinators, known, acDevice, switches,
                          renamed>>
          /\ troubled \subseteq troubled' /\ filters \subseteq filters'
          /\ (a \in Acs \cap coordinators /\ a \in known) => a \in filters'
      BY <1>9 DEF SetUpSensor, listVars
    <2>2. a \in Appliances /\ Passed(PatOrder)' = Passed(PatOrder) \cup {a}
      <3>1. next \in 1 .. Len(PatOrder) /\ Len(PatOrder) \in Nat
        BY <2>1, <1>t DEF TypeOK
      <3> QED BY <3>1, <2>1, <1>t, PassedGrows
    <2>3. a \in Supported => a \in (coordinators \cap known) \cup troubled
      BY <2>1, <1>t DEF ServeInv, CoordinatorsBuilt, SetUp, TypeOK
    <2>4. StartsEmpty' /\ NamesAgree' /\ CoordinatorsBuilt'
      BY <2>1 DEF ServeInv, StartsEmpty, NamesAgree, CoordinatorsBuilt, Listed, SetUp
    <2>5. EntitiesAdded'
      BY <2>1, <2>2, <2>3 DEF ServeInv, EntitiesAdded, SetUp, Acs, Supported
    <2>6. AcsMatched'
      BY <2>1 DEF ServeInv, AcsMatched, SetUp, Quiet, Ambiguous
    <2>7. ASSUME Quiet'
          PROVE  /\ \A b \in Appliances : washerDevice'[b] \in {b, None}
                 /\ wideq = "up" => \A b \in (Washers \cap Passed(PatOrder)') \ troubled' :
                                       WideqLists(b) => washerDevice'[b] = b
      <3>1. /\ Quiet
            /\ \A b \in Appliances : washerDevice[b] \in {b, None}
            /\ wideq = "up" => \A b \in (Washers \cap Passed(PatOrder)) \ troubled :
                                  WideqLists(b) => washerDevice[b] = b
        BY <2>1, <2>7 DEF ServeInv, WashersMatched, Quiet, Ambiguous
      <3>2. CASE a \notin Washers \cap coordinators \/ MatchedWasher(a) = None
        <4>1. UNCHANGED <<washerDevice, troubled>>
          BY <1>9, <3>2 DEF SetUpSensor
        <4>2. (wideq = "up" /\ a \in Washers \ troubled) => ~WideqLists(a)
          <5> SUFFICES ASSUME wideq = "up", a \in Washers \ troubled, WideqLists(a)
                       PROVE  FALSE
            OBVIOUS
          <5>1. a \in coordinators
            BY <2>3 DEF Washers, Supported
          <5>2. MatchedWasher(a) = None
            BY <3>2, <5>1
          <5> QED BY <2>1, <2>2, <3>1, <5>1, <5>2, <1>t, ServesItself
        <4> QED BY <2>1, <2>2, <3>1, <4>1, <4>2
      <3>3. CASE a \in Washers \cap coordinators /\ MatchedWasher(a) # None
        <4>1. MatchedWasher(a) = a
          BY <2>1, <2>2, <3>1, <3>3, <1>t, ServesItself
        <4>2. \/ washerDevice' = [washerDevice EXCEPT ![a] = a]
              \/ troubled' = troubled \cup {a} /\ UNCHANGED washerDevice
          BY <1>9, <3>3, <4>1 DEF SetUpSensor
        <4>3. washerDevice \in [Appliances -> Washers \cup {None}]
          BY <1>t DEF TypeOK
        <4>4. CASE washerDevice' = [washerDevice EXCEPT ![a] = a]
          BY <2>1, <2>2, <3>1, <4>3, <4>4 DEF Washers
        <4>5. CASE troubled' = troubled \cup {a} /\ UNCHANGED washerDevice
          BY <2>1, <2>2, <3>1, <4>5
        <4> QED BY <4>2, <4>4, <4>5
      <3> QED BY <3>2, <3>3
    <2>8. WashersMatched'
      BY <2>1, <2>7 DEF WashersMatched
    <2> QED BY <1>t, <2>4, <2>5, <2>6, <2>8 DEF ServeInv
  <1>10. CASE Loaded
    <2>1. /\ phase = "platforms" /\ phase' = "loaded" /\ next > Len(PatOrder)
          /\ UNCHANGED <<name, wideq, wideqName, patName, known, acDevice, washerDevice, switches,
                          filters, renamed, troubled>>
      BY <1>10 DEF Loaded, listVars, deviceVars, entityVars
    <2>2. Passed(PatOrder) = Appliances
      BY <2>1, <1>t, PassedGrows DEF Appliances
    <2>3. StartsEmpty' /\ NamesAgree' /\ CoordinatorsBuilt'
      BY <2>1 DEF ServeInv, StartsEmpty, NamesAgree, CoordinatorsBuilt, Listed, SetUp
    <2>4. EntitiesAdded'
      BY <2>1, <2>2 DEF ServeInv, EntitiesAdded, SetUp, Acs
    <2>5. AcsMatched' /\ WashersMatched'
      BY <2>1, <2>2 DEF ServeInv, AcsMatched, WashersMatched, SetUp, Quiet, Ambiguous, Washers
    <2> QED BY <1>t, <2>3, <2>4, <2>5 DEF ServeInv
  <1>11. CASE SetUpFails \/ Unload \/ Restart
    <2>1. /\ phase' \in {"off", "failed"} /\ wideq' = "down" /\ filters' = {}
          /\ acDevice' = Unmatched /\ washerDevice' = Unmatched
      BY <1>11 DEF SetUpFails, Unload, Restart, EntryGone
    <2> QED
      BY <2>1, <1>t, ServeEmpty DEF StartsEmpty, NamesAgree
  <1>12. ASSUME NEW a \in FanAcs, GoesAway(a) \/ \E m \in Modes : SetFan(a, m)
         PROVE  ServeInv'
    BY <1>12, <1>t, ServeUntouched DEF GoesAway, SetFan
  <1>13. ASSUME NEW a \in Supported, NEW n \in Names, Rename(a, n)
         PROVE  ServeInv'
    <2>1. /\ phase \in {"off", "listing"} /\ UNCHANGED <<phase, wideq, acDevice, washerDevice, filters>>
          /\ phase = "listing" => renamed' = "yes"
      BY <1>13 DEF Rename, listVars, deviceVars, entityVars
    <2> QED
      BY <2>1, <1>t, ServeEmpty DEF ServeInv, StartsEmpty, NamesAgree, Listed, SetUp
  <1>14. CASE Dump \/ UNCHANGED vars
    BY <1>14, <1>t, ServeUntouched DEF Dump, vars
  <1> QED
    BY <1>1, <1>2, <1>3, <1>4, <1>5, <1>6, <1>7, <1>8, <1>9, <1>10, <1>11, <1>12, <1>13, <1>14
       DEF Next

(* The inductive invariant holds throughout. *)
THEOREM ServeInvariant == Spec => []ServeInv
  BY ServeInit, ServeStep, PTL DEF Spec

(* In every set-up that is completed, whatever requests have failed, and   *)
(* in whatever order the two backends list the appliances, which may be    *)
(* any number: each device for which nothing failed has its entities and   *)
(* its own wideq device, if wideq lists it.                                *)
THEOREM DevicesServed == Spec => []EveryDeviceIsServed
  <1>1. ServeInv => EveryDeviceIsServed
    <2>1. Acs \subseteq Supported /\ Washers \subseteq Supported /\ Supported \subseteq Appliances
          /\ Acs \cap Washers = {}
      BY DEF Acs, Washers, Supported
    <2> QED
      BY <2>1 DEF ServeInv, TypeOK, CoordinatorsBuilt, AcsMatched, EntitiesAdded, WashersMatched,
                  SetUp, Quiet, EveryDeviceIsServed
  <1> QED BY <1>1, ServeInvariant, PTL
=============================================================================
