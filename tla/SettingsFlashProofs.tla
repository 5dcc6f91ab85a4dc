------------------------- MODULE SettingsFlashProofs -------------------------
(***************************************************************************)
(* What a save promises of the sets in flash, for every number of sets     *)
(* kept, size of the flash and sizes of the settings.                      *)
(***************************************************************************)
EXTENDS SettingsFlash, FiniteSetTheorems, WellFoundedInduction, TLAPS

LEMMA ConstantTypes ==
    /\ Versions \subseteq Nat /\ 0 \in Versions /\ \A v \in Versions : v >= 0
    /\ \A v \in Versions : Size[v] \in Nat
    /\ Room \in Nat /\ Keep \in Nat /\ Tries \in Nat /\ LastDate \in Nat
    /\ MaxCuts \in Nat /\ MaxBack \in Nat /\ MaxLoads \in Nat
    /\ Keep > 0 /\ Tries > 0
BY SettingsAssumption

USE ConstantTypes

(* What a name in flash may stand for; how much an incomplete file holds   *)
(* does not matter here.                                                   *)
Contents == Versions \cup {x \in Int : x < 0}

StateTypes ==
    /\ flash \in [Dates -> Contents]
    /\ settings \in Versions /\ fresh \in Versions /\ base \in Versions
    /\ body \in Versions /\ acked \in Versions \cup {None}

ClockTypes ==
    /\ made \in [Versions -> 0..LastDate] /\ stamp \in 0..LastDate
    /\ now \in Dates /\ nm \in Dates

BoundTypes ==
    /\ cuts \in 0..MaxCuts /\ backs \in 0..MaxBack /\ loads \in 0..MaxLoads
    /\ tries \in Int /\ res \in {0, 1}
    /\ attempt \in {0, 1} /\ squeezed \in {0, 1} /\ blind \in {0, 1}
    /\ pc \in {"idle", "tar", "cp", "rm", "prune", "stamp", "boot"}

Types == StateTypes /\ ClockTypes /\ BoundTypes

(* createdef() has named the set, and the script has not ended.            *)
Named == pc \in {"cp", "rm", "prune", "stamp"}

(* Where the script is: sets are removed only after a copy that failed,    *)
(* the last failure comes after the first, and a save that was begun counts*)
(* as an attempt until it is reported.                                     *)
Progress ==
    /\ ~Named => nm = 1
    /\ Named => attempt = 1
    /\ squeezed = 0 /\ pc = "cp" => tries = Tries
    /\ squeezed = 0 /\ pc \in {"prune", "stamp"} => res = 0
    /\ pc = "boot" => settings = 0 /\ base = 0

(* No clock was set back: nothing in flash or in RAM is of a later date,   *)
(* and nothing in flash has a later name than the set being saved.         *)
Dated ==
    backs = MaxBack =>
        /\ \A d \in Sets(flash) : d <= now /\ (pc = "tar" => d < now) /\ (Named => d <= nm)
        /\ nm <= now /\ stamp <= now

(* What was copied whole is there until the stamp is touched.              *)
Copied ==
    backs = MaxBack /\ ((pc = "prune" /\ res = 0) \/ pc = "stamp") => flash[nm] = body

(* The sets after d, without the one being saved.                          *)
After(d) == {e \in Sets(flash) : e > d} \ {nm}

(* The set of the last report is there, and only sets that power cuts left *)
(* are newer.                                                              *)
HeldAt(d) ==
    /\ flash[d] = acked /\ (Named => d < nm)
    /\ Cardinality(After(d)) <= MaxCuts - cuts

Held ==
    acked # None /\ squeezed = 0 /\ backs = MaxBack /\ MaxCuts - cuts + 1 < Keep =>
        \E d \in Dates : HeldAt(d)

(* With no save since, it is the newest.                                   *)
Newest ==
    acked # None /\ attempt = 0 /\ backs = MaxBack =>
        \E d \in Dates : flash[d] = acked /\ \A e \in Sets(flash) : e <= d

(* An edit is newer than the stamp, or what is in use was saved or loaded; *)
(* the set being saved is what is in use.                                  *)
Told ==
    backs = MaxBack /\ blind = 0 /\ loads = MaxLoads =>
        /\ settings = base \/ stamp = 0 \/ made[settings] > stamp
        /\ Named => body = settings

IInv == Types /\ Progress /\ Dated /\ Copied /\ Held /\ Newest /\ Told

-----------------------------------------------------------------------------
(* Facts about the operators of the model.                                 *)

LEMMA DatesFinite ==
    ASSUME NEW S \in SUBSET Dates
    PROVE  IsFiniteSet(S) /\ Cardinality(S) \in Nat
<1>1. IsFiniteSet(Dates)
  BY FS_Interval DEF Dates
<1> QED BY <1>1, FS_Subset, FS_CardinalityType

LEMMA FewerDates ==
    ASSUME NEW S \in SUBSET Dates, NEW T \in SUBSET S
    PROVE  Cardinality(T) <= Cardinality(S)
BY DatesFinite, FS_Subset

LEMMA OneMoreDate ==
    ASSUME NEW S \in SUBSET Dates, NEW d
    PROVE  IsFiniteSet(S \cup {d}) /\ Cardinality(S \cup {d}) <= Cardinality(S) + 1
BY DatesFinite, FS_AddElement

(* rm: the sets of D go, the others stay as they are.                      *)
LEMMA WithoutSets ==
    ASSUME NEW f \in [Dates -> Contents], NEW D
    PROVE  /\ Without(f, D) \in [Dates -> Contents]
           /\ Sets(Without(f, D)) = Sets(f) \ D
           /\ \A d \in Dates \ D : Without(f, D)[d] = f[d]
BY DEF Without, Sets, Contents, None

(* cp: the name is taken, by the whole set if cp succeeds.                 *)
LEMMA CopySets ==
    ASSUME Types, Copy
    PROVE  /\ flash' \in [Dates -> Contents]
           /\ Sets(flash') = Sets(flash) \cup {nm}
           /\ \A d \in Dates \ {nm} : flash'[d] = flash[d]
           /\ res' \in {0, 1} /\ (res' = 0 => flash'[nm] = body)
           /\ pc' \in {"rm", "prune"} /\ (pc' = "prune" /\ res' = 1 => ~Again)
<1> USE DEF Types, StateTypes, ClockTypes
<1>1. /\ Base \in [Dates -> Contents] /\ Sets(Base) = Sets(flash) \ {nm}
      /\ \A d \in Dates \ {nm} : Base[d] = flash[d]
  BY WithoutSets DEF Base
<1>2. \E x \in Contents \ {None} : flash' = [Base EXCEPT ![nm] = x] /\ (res' = 0 => x = body)
  <2>1. CASE Size[body] <= Free
    <3>1. body \in Contents \ {None}
      BY DEF Contents, None
    <3> QED BY <2>1, <3>1 DEF Copy
  <2>2. CASE ~(Size[body] <= Free)
    <3>1. \A k \in 0..Room : Part(k) \in Contents \ {None}
      BY DEF Contents, None, Part
    <3>2. res' = 1 /\ \E k \in 0..Room : flash' = [Base EXCEPT ![nm] = Part(k)]
      BY <2>2 DEF Copy
    <3>3. res' # 0
      BY <3>2
    <3> QED BY <3>1, <3>2, <3>3
  <2> QED BY <2>1, <2>2
<1>3. PICK x \in Contents \ {None} : flash' = [Base EXCEPT ![nm] = x] /\ (res' = 0 => x = body)
  BY <1>2
<1>4. /\ flash' \in [Dates -> Contents] /\ flash'[nm] = x
      /\ \A d \in Dates \ {nm} : flash'[d] = flash[d]
  BY <1>1, <1>3
<1>5. Sets(flash') = Sets(flash) \cup {nm}
  BY <1>4 DEF Sets
<1>6. /\ res' \in {0, 1} /\ pc' \in {"rm", "prune"}
      /\ (pc' = "prune" /\ res' = 1 => ~Again)
  BY DEF Copy
<1> QED BY <1>3, <1>4, <1>5, <1>6

LEMMA RemoveSets ==
    ASSUME Types, Remove
    PROVE  /\ flash' \in [Dates -> Contents]
           /\ Sets(flash') \subseteq Sets(flash)
BY WithoutSets DEF Remove, Types, StateTypes

LEMMA PruneSets ==
    ASSUME Types, Prune
    PROVE  /\ flash' \in [Dates -> Contents]
           /\ Sets(flash') = Sets(flash) \ Surplus
           /\ \A d \in Dates \ Surplus : flash'[d] = flash[d]
BY WithoutSets DEF Prune, Types, StateTypes

LEMMA PartUnits ==
    ASSUME NEW x \in Int, x < 0
    PROVE  Units(x) \in Nat
<1>1. CASE x = -1
  BY <1>1 DEF Units, None
<1>2. CASE x # -1
  <2>1. -2 - x \in Nat
    BY <1>2
  <2> QED BY <1>2, <2>1 DEF Units, None
<1> QED BY <1>1, <1>2

(* A power cut touches the set under way only.                             *)
LEMMA CutSets ==
    ASSUME Types, PowerCut
    PROVE  /\ flash' \in [Dates -> Contents]
           /\ \/ flash' = flash
              \/ /\ pc \in {"cp", "prune"}
                 /\ Sets(flash') = Sets(flash) \cup {nm}
                 /\ \A d \in Dates \ {nm} : flash'[d] = flash[d]
<1> USE DEF Types, StateTypes, ClockTypes
<1>1. CASE flash' = flash
  BY <1>1
<1>2. CASE /\ pc \in {"cp", "prune"}
           /\ \E k \in {0, Units(flash[nm])} : flash' = [flash EXCEPT ![nm] = Part(k)]
  <2>1. PICK x \in Contents : x = flash[nm]
    OBVIOUS
  <2>2. Units(x) \in Nat
    BY PartUnits DEF Units, None, Contents
  <2>3. PICK k \in Nat : flash' = [flash EXCEPT ![nm] = Part(k)]
    BY <1>2, <2>1, <2>2
  <2>4. Part(k) \in Contents \ {None}
    BY DEF Part, Contents, None
  <2>5. flash' \in [Dates -> Contents] /\ flash'[nm] = Part(k)
        /\ \A d \in Dates \ {nm} : flash'[d] = flash[d]
    BY <2>3, <2>4
  <2>6. Sets(flash') = Sets(flash) \cup {nm}
    BY <2>4, <2>5 DEF Sets
  <2> QED BY <1>2, <2>5, <2>6
<1> QED BY <1>1, <1>2 DEF PowerCut

LEMMA LoadTypes ==
    ASSUME Types, NEW d, Load(d)
    PROVE  /\ settings' \in Versions /\ base' \in Versions
           /\ settings = base => settings' = base'
           /\ d \in Dates /\ flash[d] \in Versions => settings' = flash[d]
<1>1. ASSUME d \in Dates, flash[d] >= 0 PROVE flash[d] \in Versions
  BY <1>1 DEF Types, StateTypes, Contents
<1>2. CASE d \in Dates /\ flash[d] >= 0
  BY <1>1, <1>2 DEF Load, Types, StateTypes
<1>3. CASE ~(d \in Dates /\ flash[d] >= 0)
  BY <1>3 DEF Load, Types, StateTypes
<1> QED BY <1>2, <1>3

-----------------------------------------------------------------------------
(* Types.                                                                  *)

LEMMA StepTypes == Types /\ [Next]_vars => Types'
<1> SUFFICES ASSUME Types, [Next]_vars PROVE Types'
  OBVIOUS
<1> USE DEF Types, StateTypes, ClockTypes, BoundTypes, ram, save, history, bounds, None, Dates
<1>1. CASE Edit
  BY <1>1 DEF Edit
<1>2. CASE Tick
  BY <1>2 DEF Tick
<1>3. CASE SetBack
  BY <1>3 DEF SetBack
<1>4. CASE Save
  BY <1>4 DEF Save
<1>5. CASE Tar
  BY <1>5 DEF Tar
<1>6. CASE Copy
  <2>1. flash' \in [Dates -> Contents] /\ res' \in {0, 1} /\ pc' \in {"rm", "prune"}
    BY <1>6, CopySets
  <2> QED BY <1>6, <2>1 DEF Copy
<1>7. CASE Remove
  <2>1. flash' \in [Dates -> Contents]
    BY <1>7, RemoveSets
  <2> QED BY <1>7, <2>1 DEF Remove
<1>8. CASE Prune
  <2>1. flash' \in [Dates -> Contents]
    BY <1>8, PruneSets
  <2>2. /\ pc' \in {"stamp", "idle"} /\ nm' \in Dates /\ body' \in Versions
        /\ tries' \in Int /\ res' \in {0, 1}
    BY <1>8 DEF Prune, Over
  <2> QED BY <1>8, <2>1, <2>2 DEF Prune
<1>9. CASE Stamp
  BY <1>9 DEF Stamp, Over
<1>10. CASE Boot
  <2>1. settings' \in Versions /\ base' \in Versions
    BY <1>10, LoadTypes DEF Boot
  <2> QED BY <1>10, <2>1 DEF Boot, Load
<1>11. CASE LoadByHand
  <2>1. settings' \in Versions /\ base' \in Versions
    BY <1>11, LoadTypes DEF LoadByHand
  <2> QED BY <1>11, <2>1 DEF LoadByHand, Load
<1>12. CASE ClearFlash
  <2>1. flash' \in [Dates -> Contents] /\ stamp' \in 0..LastDate
    BY <1>12 DEF ClearFlash, Contents
  <2>2. acked' \in Versions \cup {None} /\ loads' \in 0..MaxLoads
    BY <1>12 DEF ClearFlash
  <2> QED BY <1>12, <2>1, <2>2 DEF ClearFlash
<1>13. CASE PowerCut
  <2>1. flash' \in [Dates -> Contents]
    BY <1>13, CutSets
  <2> QED BY <1>13, <2>1 DEF PowerCut, Over
<1>14. CASE UNCHANGED vars
  BY <1>14 DEF vars
<1> QED BY <1>1, <1>2, <1>3, <1>4, <1>5, <1>6, <1>7, <1>8, <1>9, <1>10, <1>11,
          <1>12, <1>13, <1>14 DEF Next

-----------------------------------------------------------------------------
(* Where the script is, and the order of names and dates.                  *)

LEMMA StepProgress == Types /\ Progress /\ [Next]_vars => Progress'
<1> SUFFICES ASSUME Types, Progress, [Next]_vars PROVE Progress'
  OBVIOUS
<1> USE DEF Progress, Named, ram, save, history, bounds
<1>1. CASE Edit \/ Tick \/ SetBack
  BY <1>1 DEF Edit, Tick, SetBack
<1>2. CASE Save \/ Tar
  BY <1>2 DEF Save, Tar
<1>3. CASE Copy
  <2>1. /\ pc' \in {"rm", "prune"} /\ res' \in {0, 1}
        /\ (pc' = "prune" /\ res' = 1 => ~Again)
    BY <1>3, CopySets
  <2>2. squeezed = 0 => Again
    BY <1>3 DEF Copy, Again
  <2> QED BY <1>3, <2>1, <2>2 DEF Copy
<1>4. CASE Remove
  BY <1>4 DEF Remove
<1>5. CASE Prune
  BY <1>5 DEF Prune, Over
<1>6. CASE Stamp
  BY <1>6 DEF Stamp, Over
<1>7. CASE Boot \/ LoadByHand
  BY <1>7 DEF Boot, LoadByHand, Load
<1>8. CASE ClearFlash
  BY <1>8 DEF ClearFlash
<1>9. CASE PowerCut
  BY <1>9 DEF PowerCut, Over
<1>10. CASE UNCHANGED vars
  BY <1>10 DEF vars
<1> QED BY <1>1, <1>2, <1>3, <1>4, <1>5, <1>6, <1>7, <1>8, <1>9, <1>10 DEF Next

LEMMA NotSetBack ==
    ASSUME Types, [Next]_vars, backs' = MaxBack
    PROVE  backs = MaxBack /\ ~SetBack
BY DEF Types, BoundTypes, Next, Edit, Tick, SetBack, Save, Tar, Copy, Remove, Prune, Stamp, Boot,
       LoadByHand, ClearFlash, PowerCut, vars, bounds

LEMMA StepDated == Types /\ Dated /\ [Next]_vars => Dated'
<1> SUFFICES ASSUME Types, Dated, [Next]_vars, (backs = MaxBack)'
             PROVE  /\ \A d \in Sets(flash') : d <= now' /\ (pc' = "tar" => d < now') /\ (Named' => d <= nm')
                    /\ nm' <= now' /\ stamp' <= now'
  BY DEF Dated, Sets
<1> USE DEF Named, ram, save, history, bounds
<1>1. /\ now \in Nat /\ nm \in Nat /\ stamp \in Nat /\ now >= 1
      /\ \A d \in Sets(flash) : d \in Nat
  BY DEF Types, ClockTypes, Dates, Sets
<1>2. backs = MaxBack
  BY NotSetBack
<1>3. /\ \A d \in Sets(flash) : d <= now /\ (pc = "tar" => d < now) /\ (Named => d <= nm)
      /\ nm <= now /\ stamp <= now
  BY <1>2 DEF Dated
<1>4. CASE Edit \/ SetBack
  BY <1>2, <1>3, <1>4 DEF Edit, SetBack
<1>5. CASE Tick \/ Save
  BY <1>1, <1>3, <1>5 DEF Tick, Save
<1>6. CASE Tar
  BY <1>1, <1>3, <1>6 DEF Tar
<1>7. CASE Copy
  <2>1. Sets(flash') = Sets(flash) \cup {nm} /\ pc' \in {"rm", "prune"}
    BY <1>7, CopySets
  <2> QED BY <1>1, <1>3, <1>7, <2>1 DEF Copy
<1>8. CASE Remove
  <2>1. Sets(flash') \subseteq Sets(flash)
    BY <1>8, RemoveSets
  <2> QED BY <1>3, <1>8, <2>1 DEF Remove
<1>9. CASE Prune
  <2>1. Sets(flash') \subseteq Sets(flash)
    BY <1>9, PruneSets
  <2>2. nm' <= now'
    BY <1>1, <1>3, <1>9 DEF Prune, Over
  <2> QED BY <1>3, <1>9, <2>1, <2>2 DEF Prune, Over
<1>10. CASE Stamp
  BY <1>1, <1>3, <1>10 DEF Stamp, Over
<1>11. CASE Boot \/ LoadByHand
  BY <1>1, <1>3, <1>11 DEF Boot, LoadByHand, Load
<1>12. CASE ClearFlash
  <2>1. Sets(flash') = {}
    BY <1>12 DEF ClearFlash, Sets
  <2> QED BY <1>1, <1>3, <1>12, <2>1 DEF ClearFlash
<1>13. CASE PowerCut
  <2>1. \A d \in Sets(flash') : d \in Sets(flash) \cup {nm}
    BY <1>13, CutSets
  <2> QED BY <1>1, <1>3, <1>13, <2>1 DEF PowerCut, Over
<1>14. CASE UNCHANGED vars
  BY <1>3, <1>14 DEF vars
<1> QED BY <1>4, <1>5, <1>6, <1>7, <1>8, <1>9, <1>10, <1>11, <1>12, <1>13, <1>14 DEF Next

(* Without a clock set back, the set being saved is the last by name, and  *)
(* never one too many.                                                     *)
LEMMA LastByName ==
    ASSUME Types, Dated, backs = MaxBack, Named
    PROVE  nm \notin Surplus
<1>1. {e \in Sets(flash) : e >= nm} \subseteq {nm}
  BY DEF Dated, Types, ClockTypes, Dates, Sets
<1>2. IsFiniteSet({nm}) /\ Cardinality({nm}) = 1
  BY FS_Singleton
<1>3. Cardinality({e \in Sets(flash) : e >= nm}) <= 1
  BY <1>1, <1>2, FS_Subset
<1>4. IsFiniteSet({e \in Sets(flash) : e >= nm})
  BY <1>1, <1>2, FS_Subset
<1>5. Cardinality({e \in Sets(flash) : e >= nm}) \in Nat
  BY <1>4, FS_CardinalityType
<1> QED BY <1>3, <1>5 DEF Surplus

LEMMA StepCopied == Types /\ Dated /\ Copied /\ [Next]_vars => Copied'
<1> SUFFICES ASSUME Types, Dated, Copied, [Next]_vars, (backs = MaxBack)',
                    ((pc = "prune" /\ res = 0) \/ pc = "stamp")'
             PROVE  flash'[nm'] = body'
  BY DEF Copied
<1> USE DEF ram, save, history, bounds
<1>1. backs = MaxBack
  BY NotSetBack
<1>2. CASE Copy
  <2>1. res' = 0
    BY <1>2, CopySets
  <2> QED BY <1>2, <2>1, CopySets DEF Copy
<1>3. CASE Prune
  <2>1. res = 0 /\ pc = "prune" /\ nm' = nm /\ body' = body
    BY <1>3 DEF Prune
  <2>2. nm \in Dates \ Surplus
    BY <1>1, <2>1, LastByName DEF Named, Types, ClockTypes
  <2> QED BY <1>1, <1>3, <2>1, <2>2, PruneSets DEF Copied
<1>4. CASE Edit \/ Tick \/ SetBack \/ UNCHANGED vars
  BY <1>1, <1>4 DEF Copied, Edit, Tick, SetBack, vars
<1>5. CASE Save \/ Tar \/ Remove \/ Stamp \/ Boot \/ LoadByHand \/ ClearFlash \/ PowerCut
  BY <1>5 DEF Save, Tar, Remove, Stamp, Boot, LoadByHand, ClearFlash, PowerCut
<1> QED BY <1>2, <1>3, <1>4, <1>5 DEF Next

-----------------------------------------------------------------------------
(* The reported set.                                                       *)

LEMMA StepNewest == Types /\ Progress /\ Dated /\ Copied /\ Newest /\ [Next]_vars => Newest'
<1> SUFFICES ASSUME Types, Progress, Dated, Copied, Newest, [Next]_vars,
                    (acked # None /\ attempt = 0 /\ backs = MaxBack)'
             PROVE  \E d \in Dates : flash'[d] = acked' /\ \A e \in Sets(flash') : e <= d
  BY DEF Newest, Sets
<1> USE DEF ram, save, history, bounds
<1>1. backs = MaxBack
  BY NotSetBack
<1>2. ASSUME acked' = acked, attempt = 0, flash' = flash
      PROVE  \E d \in Dates : flash'[d] = acked' /\ \A e \in Sets(flash') : e <= d
  BY <1>1, <1>2 DEF Newest
<1>3. CASE Edit \/ Tick \/ SetBack \/ Save \/ UNCHANGED vars
  BY <1>2, <1>3 DEF Edit, Tick, SetBack, Save, vars
<1>4. CASE Tar \/ Copy \/ Remove \/ Prune
  BY <1>4 DEF Tar, Copy, Remove, Prune, Progress, Named
<1>5. CASE Stamp
  <2>1. flash[nm] = body /\ \A e \in Sets(flash) : e <= nm
    BY <1>1, <1>5 DEF Copied, Dated, Named, Stamp
  <2>2. nm \in Dates /\ flash' = flash /\ acked' = body
    BY <1>5 DEF Stamp, Types, ClockTypes
  <2> QED BY <2>1, <2>2
<1>6. CASE Boot \/ LoadByHand
  BY <1>2, <1>6 DEF Boot, LoadByHand, Load
<1>7. CASE ClearFlash
  BY <1>7 DEF ClearFlash
<1>8. CASE PowerCut
  <2>1. pc \notin {"cp", "prune"} /\ acked' = acked /\ attempt = 0
    BY <1>8 DEF PowerCut, Progress, Named
  <2>2. flash' = flash
    BY <1>8, <2>1, CutSets
  <2> QED BY <1>2, <2>1, <2>2
<1> QED BY <1>3, <1>4, <1>5, <1>6, <1>7, <1>8 DEF Next

(* While few enough sets are newer than the reported one, it is not        *)
(* removed with the surplus.                                               *)
LEMMA HeldNotSurplus ==
    ASSUME Types, NEW d \in Dates, HeldAt(d), MaxCuts - cuts + 1 < Keep
    PROVE  d \notin Surplus
<1>1. After(d) \in SUBSET Dates
  BY DEF After, Sets
<1>2. cuts \in Nat /\ Cardinality(After(d)) \in Nat
  BY <1>1, DatesFinite DEF Types, BoundTypes
<1>3. IsFiniteSet(After(d) \cup {nm}) /\ Cardinality(After(d) \cup {nm}) <= Cardinality(After(d)) + 1
  BY <1>1, OneMoreDate
<1>4. After(d) \cup {nm} \in SUBSET Dates
  BY <1>1 DEF Types, ClockTypes
<1>5. /\ IsFiniteSet((After(d) \cup {nm}) \cup {d})
      /\ Cardinality((After(d) \cup {nm}) \cup {d}) <= Cardinality(After(d) \cup {nm}) + 1
  BY <1>4, OneMoreDate
<1>6. {e \in Sets(flash) : e >= d} \in SUBSET ((After(d) \cup {nm}) \cup {d})
  BY DEF After, Sets, Dates
<1>7. Cardinality({e \in Sets(flash) : e >= d}) <= Cardinality((After(d) \cup {nm}) \cup {d})
  BY <1>5, <1>6, FS_Subset
<1>8. /\ Cardinality({e \in Sets(flash) : e >= d}) \in Nat
      /\ Cardinality((After(d) \cup {nm}) \cup {d}) \in Nat
      /\ Cardinality(After(d) \cup {nm}) \in Nat
  BY <1>3, <1>5, <1>6, FS_Subset, FS_CardinalityType
<1>9. Cardinality({e \in Sets(flash) : e >= d}) <= Keep
  BY <1>2, <1>3, <1>5, <1>7, <1>8 DEF HeldAt
<1> QED BY <1>8, <1>9 DEF Surplus

LEMMA StepHeld == Types /\ Progress /\ Dated /\ Copied /\ Held /\ [Next]_vars => Held'
<1> SUFFICES ASSUME Types, Progress, Dated, Copied, Held, [Next]_vars,
                    (acked # None /\ squeezed = 0 /\ backs = MaxBack /\ MaxCuts - cuts + 1 < Keep)'
             PROVE  \E d \in Dates : HeldAt(d)'
  BY DEF Held, HeldAt
<1> USE DEF ram, save, history, bounds
<1>1. backs = MaxBack /\ cuts \in Nat /\ nm \in Dates
  BY NotSetBack DEF Types, BoundTypes, ClockTypes
<1>2. ASSUME acked' = acked, squeezed' = squeezed, cuts' \in {cuts, cuts - 1}
      PROVE  \E d \in Dates : HeldAt(d) /\ MaxCuts - cuts + 1 < Keep
  <2>1. MaxCuts - cuts + 1 < Keep
    <3>1. MaxCuts - cuts' + 1 < Keep
      OBVIOUS
    <3>2. CASE cuts' = cuts
      BY <3>1, <3>2
    <3>3. CASE cuts' = cuts - 1
      BY <1>1, <3>1, <3>3
    <3> QED BY <1>2, <3>2, <3>3
  <2> QED BY <1>1, <1>2, <2>1 DEF Held
<1>3. ASSUME NEW d \in Dates, HeldAt(d), flash' = flash, acked' = acked, cuts' = cuts,
             nm' = nm, Named' => Named
      PROVE  HeldAt(d)'
  BY <1>3 DEF HeldAt, After, Sets
<1>4. CASE Edit \/ Tick \/ SetBack \/ Save \/ UNCHANGED vars
  BY <1>2, <1>3, <1>4 DEF Edit, Tick, SetBack, Save, vars, Named
<1>5. CASE Tar
  <2>1. PICK d \in Dates : HeldAt(d)
    BY <1>2, <1>5 DEF Tar
  <2>2. d \in Sets(flash)
    BY <2>1, <1>5 DEF HeldAt, Tar, Sets
  <2>3. \A e \in Sets(flash) : e < now
    BY <1>1, <1>5 DEF Dated, Tar
  <2>4. nm = 1
    BY <1>5 DEF Progress, Named, Tar
  <2>5. After(d)' = After(d)
    BY <1>5, <2>3, <2>4 DEF After, Tar, Sets, Dates
  <2> QED BY <1>5, <2>1, <2>2, <2>3, <2>5 DEF HeldAt, Tar, Sets
<1>6. CASE Copy
  <2>1. PICK d \in Dates : HeldAt(d)
    BY <1>2, <1>6 DEF Copy
  <2>2. d < nm
    BY <1>6, <2>1 DEF HeldAt, Named, Copy
  <2>3. flash'[d] = flash[d] /\ Sets(flash') = Sets(flash) \cup {nm}
    BY <1>1, <1>6, <2>2, CopySets DEF Dates
  <2>4. After(d)' = After(d)
    BY <1>6, <2>3 DEF After, Copy, Sets
  <2> QED BY <1>6, <2>1, <2>2, <2>3, <2>4 DEF HeldAt, Copy
<1>7. CASE Remove
  BY <1>7 DEF Remove
<1>8. CASE Prune
  <2>1. res = 0
    BY <1>8 DEF Prune, Progress
  <2>2. PICK d \in Dates : HeldAt(d) /\ MaxCuts - cuts + 1 < Keep
    BY <1>2, <1>8 DEF Prune
  <2>3. flash'[d] = flash[d] /\ Sets(flash') \subseteq Sets(flash)
    BY <1>8, <2>2, HeldNotSurplus, PruneSets
  <2>4. nm' = nm /\ cuts' = cuts /\ acked' = acked /\ Named
    BY <1>8, <2>1 DEF Prune, Named
  <2>5. After(d) \in SUBSET Dates /\ After(d)' \in SUBSET After(d)
    BY <2>3, <2>4 DEF After, Sets
  <2>6. /\ Cardinality(After(d)') <= Cardinality(After(d))
        /\ Cardinality(After(d)') \in Nat /\ Cardinality(After(d)) \in Nat
    BY <2>5, FewerDates, DatesFinite
  <2> QED BY <1>1, <2>2, <2>3, <2>4, <2>6 DEF HeldAt
<1>9. CASE Stamp
  <2>1. flash[nm] = body /\ \A e \in Sets(flash) : e <= nm
    BY <1>1, <1>9 DEF Copied, Dated, Named, Stamp
  <2>2. flash' = flash /\ acked' = body /\ ~Named' /\ cuts' = cuts
    BY <1>9 DEF Stamp, Named
  <2>3. PICK d \in Dates : d = nm
    BY <1>1
  <2>4. After(d)' = {}
    BY <2>1, <2>2, <2>3 DEF After, Sets, Dates
  <2>5. Cardinality(After(d)') = 0
    BY <2>4, FS_EmptySet
  <2> QED BY <1>1, <2>1, <2>2, <2>3, <2>5 DEF HeldAt, Types, BoundTypes
<1>10. CASE Boot \/ LoadByHand
  BY <1>2, <1>3, <1>10 DEF Boot, LoadByHand, Load, Named
<1>11. CASE ClearFlash
  BY <1>11 DEF ClearFlash
<1>12. CASE PowerCut
  <2>1. acked' = acked /\ squeezed' = squeezed /\ cuts' = cuts - 1 /\ cuts > 0 /\ ~Named'
    BY <1>12 DEF PowerCut, Named
  <2>2. PICK d \in Dates : HeldAt(d)
    BY <1>2, <2>1
  <2>3. flash'[d] = flash[d] /\ Sets(flash') \subseteq Sets(flash) \cup {nm}
    <3>1. CASE flash' = flash
      BY <3>1
    <3>2. CASE flash' # flash
      <4>1. Named
        BY <1>12, <3>2, CutSets DEF Named
      <4>2. d # nm
        BY <1>1, <2>2, <4>1 DEF HeldAt, Dates
      <4> QED BY <1>12, <3>2, <4>2, CutSets
    <3> QED BY <3>1, <3>2
  <2>4. After(d) \in SUBSET Dates /\ After(d)' \in SUBSET (After(d) \cup {nm})
    BY <2>3 DEF After, Sets
  <2>5. /\ IsFiniteSet(After(d) \cup {nm})
        /\ Cardinality(After(d) \cup {nm}) <= Cardinality(After(d)) + 1
    BY <2>4, OneMoreDate
  <2>6. After(d) \cup {nm} \in SUBSET Dates
    BY <1>1, <2>4
  <2>7. /\ Cardinality(After(d)') <= Cardinality(After(d) \cup {nm})
        /\ Cardinality(After(d)') \in Nat /\ Cardinality(After(d)) \in Nat
        /\ Cardinality(After(d) \cup {nm}) \in Nat
    BY <2>4, <2>6, FewerDates, DatesFinite
  <2>8. Cardinality(After(d)') <= MaxCuts - cuts'
    BY <1>1, <2>1, <2>2, <2>5, <2>7 DEF HeldAt
  <2> QED BY <2>1, <2>2, <2>3, <2>8 DEF HeldAt
<1> QED BY <1>4, <1>5, <1>6, <1>7, <1>8, <1>9, <1>10, <1>11, <1>12 DEF Next

LEMMA StepTold == Types /\ Progress /\ Dated /\ Told /\ [Next]_vars => Told'
<1> SUFFICES ASSUME Types, Progress, Dated, Told, [Next]_vars,
                    (backs = MaxBack /\ blind = 0 /\ loads = MaxLoads)'
             PROVE  (/\ settings = base \/ stamp = 0 \/ made[settings] > stamp
                     /\ Named => body = settings)'
  BY DEF Told
<1> USE DEF ram, save, history, bounds, Named
<1>1. backs = MaxBack /\ stamp <= now /\ stamp \in Nat /\ now \in Nat
  BY NotSetBack DEF Types, BoundTypes, ClockTypes, Dated, Dates
<1>2. ASSUME blind = 0, loads = MaxLoads
      PROVE  /\ settings = base \/ stamp = 0 \/ made[settings] > stamp
             /\ Named => body = settings
  BY <1>1, <1>2 DEF Told
<1>3. CASE Edit
  <2>1. blind = 0 /\ pc = "idle" /\ now # stamp
    BY <1>3 DEF Edit, Types, BoundTypes
  <2>2. made'[settings'] = now /\ stamp' = stamp /\ pc' = pc
    BY <1>3 DEF Edit, Types, ClockTypes
  <2> QED BY <1>1, <2>1, <2>2
<1>4. CASE Tick \/ SetBack \/ Save \/ UNCHANGED vars
  BY <1>2, <1>4 DEF Tick, SetBack, Save, vars
<1>5. CASE Tar \/ Copy \/ Remove
  BY <1>2, <1>5, CopySets DEF Tar, Copy, Remove
<1>6. CASE Prune
  BY <1>2, <1>6 DEF Prune
<1>7. CASE Stamp
  BY <1>2, <1>7 DEF Stamp
<1>8. CASE Boot
  <2>1. settings = base
    BY <1>8 DEF Boot, Progress
  <2>2. settings' = base'
    BY <1>8, <2>1, LoadTypes DEF Boot
  <2> QED BY <1>8, <2>2 DEF Boot
<1>9. CASE LoadByHand \/ ClearFlash
  BY <1>9 DEF LoadByHand, ClearFlash, Types, BoundTypes
<1>10. CASE PowerCut
  BY <1>10 DEF PowerCut
<1> QED BY <1>3, <1>4, <1>5, <1>6, <1>7, <1>8, <1>9, <1>10 DEF Next

-----------------------------------------------------------------------------
(* Together.                                                               *)

LEMMA InitIInv == Init => IInv
<1> SUFFICES ASSUME Init PROVE IInv
  OBVIOUS
<1> USE DEF Init, Over, None
<1>1. Types
  BY DEF Types, StateTypes, ClockTypes, BoundTypes, Contents, Dates
<1>2. Progress /\ Copied /\ Told
  BY DEF Progress, Copied, Told, Named
<1>3. Dated
  BY DEF Dated, Sets, Named, Dates
<1>4. acked # None => /\ flash[now] = acked /\ now \in Dates
                      /\ \A e \in Sets(flash) : e <= now
  BY DEF Sets, Dates
<1>5. Newest
  BY <1>4 DEF Newest
<1>6. Held
  <2>1. SUFFICES ASSUME acked # None PROVE \E d \in Dates : HeldAt(d)
    BY DEF Held, HeldAt
  <2>2. After(now) = {}
    BY <1>4, <2>1 DEF After, Sets, Dates
  <2>3. Cardinality(After(now)) = 0
    BY <2>2, FS_EmptySet
  <2> QED BY <1>4, <2>1, <2>3 DEF HeldAt, Named
<1> QED BY <1>1, <1>2, <1>3, <1>5, <1>6 DEF IInv

LEMMA NextIInv == IInv /\ [Next]_vars => IInv'
BY StepTypes, StepProgress, StepDated, StepCopied, StepHeld, StepNewest, StepTold DEF IInv

LEMMA Invariance == Spec => []IInv
BY InitIInv, NextIInv, PTL DEF Spec

(* A set whose save was reported survives every later save and every power *)
(* cut that leaves a place for it among the sets kept, whatever Keep, the  *)
(* room, the sizes, and the point at which the power fails.                *)
THEOREM SaveSurvives == Spec => []SavedSurvives
<1>1. IInv => SavedSurvives
  BY DEF IInv, Held, HeldAt, SavedSurvives, Whole
<1> QED BY <1>1, Invariance, PTL

(* "No modified files since last save." hides no edit, but for those in    *)
(* the second of the stamp or during a save.                               *)
THEOREM StatusTrue == Spec => []StatusTruthful
<1>1. IInv => StatusTruthful
  <2> SUFFICES ASSUME IInv, Unchanged, backs = MaxBack, blind = 0, loads = MaxLoads
               PROVE  settings = base
    BY DEF StatusTruthful
  <2>1. made[settings] \in Nat /\ stamp \in Nat
    BY DEF IInv, Types, StateTypes, ClockTypes
  <2> QED BY <2>1 DEF IInv, Told, Unchanged
<1> QED BY <1>1, Invariance, PTL

(* The box comes up with the settings that were last reported as saved,    *)
(* when no other save was begun, even if sets were removed to make room.   *)
THEOREM RestoredAtBoot == Spec => BootRestores
<1>1. ASSUME IInv, [Next]_vars, pc = "boot", pc' = "idle", acked # None, attempt = 0,
             backs = MaxBack
      PROVE  settings' = acked
  <2>1. Boot
    BY <1>1 DEF Next, Edit, Tick, SetBack, Save, Tar, Copy, Remove, Prune, Stamp, LoadByHand,
       ClearFlash, PowerCut, vars
  <2>2. PICK d \in Dates : flash[d] = acked /\ \A e \in Sets(flash) : e <= d
    BY <1>1 DEF IInv, Newest
  <2>3. acked \in Versions
    BY <1>1 DEF IInv, Types, StateTypes
  <2>4. d \in Sets(flash) /\ Sets(flash) \subseteq Int
    BY <1>1, <2>2 DEF Sets, Dates
  <2>5. Max(Sets(flash)) = d
    BY <2>2, <2>4 DEF Max
  <2>6. Load(d)
    BY <2>1, <2>4, <2>5 DEF Boot, LastSet
  <2> QED BY <1>1, <2>2, <2>3, <2>6, LoadTypes DEF IInv
<1>2. IInv /\ [Next]_vars =>
        [pc = "boot" /\ pc' = "idle" /\ acked # None /\ attempt = 0 /\ backs = MaxBack
           => settings' = acked]_vars
  BY <1>1
<1> QED BY <1>2, Invariance, PTL DEF Spec, BootRestores

-----------------------------------------------------------------------------
(* How much of the flash is used.                                          *)

LEMMA UnitsNat ==
    ASSUME NEW x \in Contents
    PROVE  Units(x) \in Nat
<1>1. CASE x < 0
  BY <1>1, PartUnits DEF Contents
<1>2. CASE ~(x < 0)
  BY <1>2 DEF Contents, Units, None
<1> QED BY <1>1, <1>2

LEMMA BlocksOf ==
    ASSUME NEW f, NEW d \in Dates
    PROVE  \A n : <<d, n>> \in Blocks(f) <=> n \in 1..Units(f[d])
<1>1. ASSUME NEW n, <<d, n>> \in Blocks(f)
      PROVE  n \in 1..Units(f[d])
  <2>1. PICK e \in Dates : <<d, n>> \in {e} \X (1..Units(f[e]))
    BY <1>1 DEF Blocks
  <2> QED BY <2>1
<1>2. ASSUME NEW n, n \in 1..Units(f[d])
      PROVE  <<d, n>> \in Blocks(f)
  <2>1. <<d, n>> \in {d} \X (1..Units(f[d]))
    BY <1>2
  <2> QED BY <2>1 DEF Blocks
<1> QED BY <1>1, <1>2

LEMMA BlocksArePairs ==
    ASSUME NEW f, NEW b \in Blocks(f)
    PROVE  \E d \in Dates, n \in Int : b = <<d, n>> /\ n \in 1..Units(f[d])
BY DEF Blocks

Column(f, d) == {d} \X (1..Units(f[d]))

LEMMA ColumnSize ==
    ASSUME NEW f \in [Dates -> Contents], NEW d \in Dates
    PROVE  IsFiniteSet(Column(f, d)) /\ Cardinality(Column(f, d)) = Units(f[d])
<1>1. PICK n \in Nat : n = Units(f[d])
  BY UnitsNat
<1>2. IsFiniteSet(1..n) /\ Cardinality(1..n) = IF 1 > n THEN 0 ELSE n - 1 + 1
  BY FS_Interval
<1>3. Cardinality(1..n) = n
  BY <1>2
<1>4. IsFiniteSet({d}) /\ Cardinality({d}) = 1
  BY FS_Singleton
<1>5. /\ IsFiniteSet({d} \X (1..n))
      /\ Cardinality({d} \X (1..n)) = Cardinality({d}) * Cardinality(1..n)
  BY <1>2, <1>4, FS_Product, Zenon
<1>6. Cardinality({d} \X (1..n)) = n
  BY <1>3, <1>4, <1>5
<1> QED BY <1>1, <1>5, <1>6 DEF Column

LEMMA BlocksFinite ==
    ASSUME NEW f \in [Dates -> Contents]
    PROVE  IsFiniteSet(Blocks(f)) /\ Used(f) \in Nat
<1>1. IsFiniteSet(Dates)
  BY DatesFinite
<1>2. PICK g : g = [d \in Dates |-> Column(f, d)]
  OBVIOUS
<1>3. g \in Surjection(Dates, {Column(f, d) : d \in Dates})
  BY <1>2, Zenon DEF Surjection
<1>4. IsFiniteSet({Column(f, d) : d \in Dates})
  BY <1>1, <1>3, FS_Surjection, Zenon
<1>5. \A C \in {Column(f, d) : d \in Dates} : IsFiniteSet(C)
  BY ColumnSize
<1>6. IsFiniteSet(UNION {Column(f, d) : d \in Dates})
  BY <1>4, <1>5, FS_UNION
<1>7. IsFiniteSet(Blocks(f))
  BY <1>6 DEF Blocks, Column
<1> QED BY <1>7, FS_CardinalityType DEF Used

(* Files that are no longer take no more.                                  *)
LEMMA NoMoreUsed ==
    ASSUME NEW f \in [Dates -> Contents], NEW g \in [Dates -> Contents],
           \A d \in Dates : Units(g[d]) <= Units(f[d])
    PROVE  Used(g) <= Used(f)
<1>1. ASSUME NEW b \in Blocks(g)
      PROVE  b \in Blocks(f)
  <2>1. PICK d \in Dates : \E n \in Int : b = <<d, n>> /\ n \in 1..Units(g[d])
    BY BlocksArePairs
  <2>2. PICK n \in Int : b = <<d, n>> /\ n \in 1..Units(g[d])
    BY <2>1
  <2>3. Units(g[d]) <= Units(f[d]) /\ Units(g[d]) \in Nat /\ Units(f[d]) \in Nat
    BY UnitsNat
  <2>4. n \in 1..Units(f[d])
    BY <2>2, <2>3
  <2> QED BY <2>2, <2>4, BlocksOf
<1>2. Blocks(g) \in SUBSET Blocks(f)
  BY <1>1
<1> QED BY <1>2, BlocksFinite, FS_Subset DEF Used

(* Removing a set that takes any room makes some.                          *)
LEMMA LessUsed ==
    ASSUME NEW f \in [Dates -> Contents], NEW m \in Dates, Units(f[m]) >= 1
    PROVE  Used(Without(f, {m})) + 1 <= Used(f)
<1>1. PICK g : g = Without(f, {m})
  OBVIOUS
<1>2. /\ g \in [Dates -> Contents] /\ g[m] = None
      /\ \A d \in Dates \ {m} : g[d] = f[d]
  BY <1>1 DEF Without, Contents, None
<1>3. ASSUME NEW b \in Blocks(g)
      PROVE  b \in Blocks(f) \ {<<m, 1>>}
  <2>1. PICK d \in Dates : \E n \in Int : b = <<d, n>> /\ n \in 1..Units(g[d])
    BY BlocksArePairs
  <2>2. PICK n \in Int : b = <<d, n>> /\ n \in 1..Units(g[d])
    BY <2>1
  <2>3. d # m
    <3>1. 1..Units(None) = {}
      BY DEF Units
    <3> QED BY <1>2, <2>2, <3>1
  <2>4. n \in 1..Units(f[d])
    BY <1>2, <2>2, <2>3
  <2>5. <<d, n>> \in Blocks(f)
    BY <2>4, BlocksOf
  <2>6. <<d, n>> # <<m, 1>>
    BY <2>3
  <2> QED BY <2>2, <2>5, <2>6
<1>4. Blocks(g) \in SUBSET (Blocks(f) \ {<<m, 1>>})
  BY <1>3
<1>5. <<m, 1>> \in Blocks(f)
  <2>1. 1 \in 1..Units(f[m])
    BY UnitsNat
  <2> QED BY <2>1, BlocksOf
<1>6. /\ IsFiniteSet(Blocks(f) \ {<<m, 1>>})
      /\ Cardinality(Blocks(f) \ {<<m, 1>>}) = Cardinality(Blocks(f)) - 1
  BY <1>5, BlocksFinite, FS_RemoveElement, Zenon
<1>7. Cardinality(Blocks(g)) <= Cardinality(Blocks(f) \ {<<m, 1>>})
  BY <1>4, <1>6, FS_Subset
<1>8. Used(g) <= Used(f) - 1
  BY <1>6, <1>7 DEF Used
<1>9. Used(g) \in Nat /\ Used(f) \in Nat
  BY <1>2, BlocksFinite
<1> QED BY <1>1, <1>8, <1>9

(* A file adds what it takes.                                              *)
LEMMA MoreUsed ==
    ASSUME NEW f \in [Dates -> Contents], NEW m \in Dates, NEW x \in Contents
    PROVE  Used([f EXCEPT ![m] = x]) <= Used(f) + Units(x)
<1>1. PICK g : g = [f EXCEPT ![m] = x]
  OBVIOUS
<1>2. /\ g \in [Dates -> Contents] /\ g[m] = x
      /\ \A d \in Dates \ {m} : g[d] = f[d]
  BY <1>1
<1>3. ASSUME NEW b \in Blocks(g)
      PROVE  b \in Blocks(f) \cup Column(g, m)
  <2>1. PICK d \in Dates : \E n \in Int : b = <<d, n>> /\ n \in 1..Units(g[d])
    BY BlocksArePairs
  <2>2. PICK n \in Int : b = <<d, n>> /\ n \in 1..Units(g[d])
    BY <2>1
  <2>3. CASE d = m
    BY <2>2, <2>3 DEF Column
  <2>4. CASE d # m
    <3>1. n \in 1..Units(f[d])
      BY <1>2, <2>2, <2>4
    <3>2. <<d, n>> \in Blocks(f)
      BY <3>1, BlocksOf
    <3> QED BY <2>2, <3>2
  <2> QED BY <2>3, <2>4
<1>4. Blocks(g) \in SUBSET (Blocks(f) \cup Column(g, m))
  BY <1>3
<1>5. IsFiniteSet(Column(g, m)) /\ Cardinality(Column(g, m)) = Units(x)
  BY <1>2, ColumnSize
<1>6. IsFiniteSet(Blocks(f))
  BY BlocksFinite
<1>7. /\ IsFiniteSet(Blocks(f) \cup Column(g, m))
      /\ Cardinality(Blocks(f) \cup Column(g, m)) =
            Cardinality(Blocks(f)) + Cardinality(Column(g, m)) - Cardinality(Blocks(f) \cap Column(g, m))
  BY <1>5, <1>6, FS_Union
<1>8. Cardinality(Blocks(f) \cap Column(g, m)) \in Nat
  BY <1>6, FS_Subset, FS_CardinalityType
<1>9. Cardinality(Blocks(g)) <= Cardinality(Blocks(f) \cup Column(g, m))
  BY <1>4, <1>7, FS_Subset
<1>10. Used(g) \in Nat /\ Used(f) \in Nat /\ Units(x) \in Nat
  BY <1>2, BlocksFinite, UnitsNat
<1>11. Used(g) <= Used(f) + Units(x)
  BY <1>5, <1>7, <1>8, <1>9, <1>10 DEF Used
<1> QED BY <1>1, <1>11

(* A file takes no more than all of them do.                               *)
LEMMA OneOfUsed ==
    ASSUME NEW f \in [Dates -> Contents], NEW m \in Dates
    PROVE  Units(f[m]) <= Used(f)
<1>1. Column(f, m) \in SUBSET Blocks(f)
  BY DEF Column, Blocks
<1> QED BY <1>1, ColumnSize, BlocksFinite, FS_Subset DEF Used

LEMMA NothingUsed ==
    ASSUME NEW f \in [Dates -> Contents], Sets(f) = {}
    PROVE  Used(f) = 0
<1>1. \A d \in Dates : f[d] = None
  BY DEF Sets
<1>2. 1..Units(None) = {}
  BY DEF Units
<1>3. Blocks(f) = {}
  BY <1>1, <1>2, BlocksArePairs
<1> QED BY <1>3, FS_EmptySet DEF Used
LEMMA PartSize ==
    ASSUME NEW k \in Nat
    PROVE  Part(k) \in Contents /\ Part(k) # None /\ Units(Part(k)) = k
BY DEF Part, Contents, Units, None

-----------------------------------------------------------------------------
(* What a save leaves in flash.                                            *)

(* cp fills what there is and no more.                                     *)
Filled ==
    /\ \A d \in Dates : flash[d] >= Part(Room)
    /\ Used(flash) <= Room /\ spoiled \in {0, 1}

(* A set is removed only while there is a try left.                        *)
Tried == tries \in 0..Tries /\ (pc = "rm" => tries > 0)

(* Sets are whole, but for one that is being retried, or that the script   *)
(* is about to give up.                                                    *)
WholeSets ==
    spoiled = 0 =>
        /\ \A d \in Sets(flash) : flash[d] \in Versions \/ (d = nm /\ pc \in {"rm", "prune"})
        /\ pc = "prune" /\ res = 0 => flash[nm] = body

(* The sets that a save finds there, at most Keep of them but for those    *)
(* that power cuts left.                                                   *)
Others == Sets(flash) \ {nm}
Limit == Keep + (MaxCuts - cuts)

Counted ==
    /\ Cardinality(Others) <= Limit
    /\ pc \notin {"cp", "rm", "prune"} => Cardinality(Sets(flash)) <= Limit

(* Every try has removed one of them, and what it took is free.            *)
Freed ==
    backs = MaxBack /\ spoiled = 0 /\ pc \in {"cp", "rm"} /\ Others # {} =>
        /\ Used(Base) + (Tries - tries) <= Room
        /\ Cardinality(Others) + (Tries - tries) <= Limit

RoomInv == Filled /\ Tried /\ WholeSets /\ Counted /\ Freed /\ RoomIsMade

LEMMA BaseIs ==
    ASSUME Types
    PROVE  /\ Base \in [Dates -> Contents] /\ Base[nm] = None
           /\ Sets(Base) = Others
           /\ \A d \in Dates \ {nm} : Base[d] = flash[d]
           /\ Used(Base) \in Nat /\ Used(flash) \in Nat /\ Used(Base) <= Used(flash)
<1> USE DEF Types, StateTypes, ClockTypes
<1>1. /\ Base \in [Dates -> Contents] /\ Sets(Base) = Others
      /\ \A d \in Dates \ {nm} : Base[d] = flash[d]
  BY WithoutSets DEF Base, Others
<1>2. Base[nm] = None
  BY DEF Base, Without
<1>3. Units(None) = 0
  BY DEF Units
<1>4. \A d \in Dates : Units(Base[d]) <= Units(flash[d])
  <2>1. \A d \in Dates : Units(flash[d]) \in Nat
    BY UnitsNat
  <2> QED BY <1>1, <1>2, <1>3, <2>1
<1>5. Used(Base) <= Used(flash)
  BY <1>1, <1>4, NoMoreUsed
<1> QED BY <1>1, <1>2, <1>5, BlocksFinite

(* cp writes the whole set if it fits, or what fits of it.                 *)
LEMMA CopyFills ==
    ASSUME Types, Filled, Copy
    PROVE  \E x \in Contents : x >= Part(Room) /\ Units(x) <= Room - Used(Base)
                               /\ flash' = [Base EXCEPT ![nm] = x]
<1>1. CASE Size[body] <= Free
  <2>1. body \in Contents /\ body >= 0 /\ Units(body) = Size[body]
    BY DEF Types, StateTypes, Contents, Units, None
  <2>2. body >= Part(Room)
    BY <2>1 DEF Part, Contents
  <2> QED BY <1>1, <2>1, <2>2 DEF Copy, Free
<1>2. CASE ~(Size[body] <= Free)
  <2>1. PICK k \in 0..Room : k = Free /\ flash' = [Base EXCEPT ![nm] = Part(k)]
    BY <1>2 DEF Copy
  <2>2. Part(k) \in Contents /\ Units(Part(k)) = k
    BY PartSize
  <2>3. Part(k) >= Part(Room)
    BY DEF Part
  <2>4. Units(Part(k)) <= Room - Used(Base)
    BY <2>1, <2>2, BaseIs DEF Free
  <2> QED BY <2>1, <2>2, <2>3, <2>4
<1> QED BY <1>1, <1>2

LEMMA CopyFlash ==
    ASSUME Types, Filled, Copy
    PROVE  Base' = Base /\ Others' = Others /\ Filled'
<1> USE DEF Types, StateTypes, ClockTypes
<1>1. PICK x \in Contents : x >= Part(Room) /\ Units(x) <= Room - Used(Base)
                            /\ flash' = [Base EXCEPT ![nm] = x]
  BY CopyFills
<1>2. nm' = nm /\ spoiled' = spoiled
  BY DEF Copy, history
<1>3. Base' = Base
  BY <1>1, <1>2, BaseIs DEF Base, Without
<1>4. Others' = Others
  BY <1>2, CopySets DEF Others
<1>5. \A d \in Dates : flash'[d] >= Part(Room)
  <2>1. None >= Part(Room)
    BY DEF None, Part
  <2> QED BY <1>1, <2>1, BaseIs DEF Filled
<1>6. Used(flash') <= Room
  <2>1. Used(flash') <= Used(Base) + Units(x)
    BY <1>1, BaseIs, MoreUsed
  <2>2. Used(Base) \in Nat /\ Units(x) \in Nat /\ Used(flash') \in Nat
    BY BaseIs, CopySets, BlocksFinite, UnitsNat
  <2> QED BY <1>1, <2>1, <2>2
<1> QED BY <1>2, <1>3, <1>4, <1>5, <1>6 DEF Filled

(* rm.                                                                     *)
LEMMA WithoutUses ==
    ASSUME NEW f \in [Dates -> Contents], NEW D
    PROVE  /\ Used(Without(f, D)) <= Used(f)
           /\ \A d \in Dates : Without(f, D)[d] \in {f[d], None}
<1>1. \A d \in Dates : Without(f, D)[d] \in {f[d], None}
  BY DEF Without
<1>2. Units(None) = 0
  BY DEF Units
<1>3. \A d \in Dates : Units(f[d]) \in Nat
  BY UnitsNat
<1>4. \A d \in Dates : Units(Without(f, D)[d]) <= Units(f[d])
  BY <1>1, <1>2, <1>3
<1>5. Without(f, D) \in [Dates -> Contents]
  BY WithoutSets
<1> QED BY <1>1, <1>4, <1>5, NoMoreUsed

LEMMA RemovalFills ==
    ASSUME Types, Filled, NEW D, flash' = Without(flash, D), spoiled' \in {0, 1}
    PROVE  Filled'
<1>1. flash \in [Dates -> Contents]
  BY DEF Types, StateTypes
<1>2. /\ Used(flash') <= Used(flash) /\ Used(flash') \in Nat /\ Used(flash) \in Nat
      /\ \A d \in Dates : flash'[d] \in {flash[d], None}
  BY <1>1, WithoutUses, WithoutSets, BlocksFinite
<1>3. None >= Part(Room)
  BY DEF None, Part
<1> QED BY <1>2, <1>3 DEF Filled

LEMMA StepFilled == Types /\ Filled /\ [Next]_vars => Filled'
<1> SUFFICES ASSUME Types, Filled, [Next]_vars PROVE Filled'
  OBVIOUS
<1> USE DEF ram, save, history, bounds
<1>1. CASE Edit \/ Tick \/ SetBack \/ Save \/ Tar \/ Stamp \/ Boot \/ LoadByHand \/ UNCHANGED vars
  BY <1>1 DEF Filled, Edit, Tick, SetBack, Save, Tar, Stamp, Boot, LoadByHand, Load, vars
<1>2. CASE Copy
  BY <1>2, CopyFlash
<1>3. CASE Remove
  BY <1>3, RemovalFills DEF Remove, Filled
<1>4. CASE Prune
  BY <1>4, RemovalFills DEF Prune, Filled
<1>5. CASE ClearFlash
  <2>1. flash' = Without(flash, Dates)
    BY <1>5 DEF ClearFlash, Without
  <2> QED BY <1>5, <2>1, RemovalFills DEF ClearFlash, Filled
<1>6. CASE PowerCut
  <2>1. spoiled' \in {0, 1}
    BY <1>6 DEF PowerCut, Filled
  <2>2. CASE flash' = flash
    BY <2>1, <2>2 DEF Filled
  <2>3. CASE \E k \in {0, Units(flash[nm])} : flash' = [flash EXCEPT ![nm] = Part(k)]
    <3>1. /\ flash \in [Dates -> Contents] /\ nm \in Dates /\ Units(flash[nm]) \in Nat
          /\ Units(flash[nm]) <= Used(flash) /\ Used(flash) \in Nat
      BY UnitsNat, OneOfUsed, BlocksFinite DEF Types, StateTypes, ClockTypes
    <3>2. PICK k \in {0, Units(flash[nm])} : flash' = [flash EXCEPT ![nm] = Part(k)]
      BY <2>3
    <3> k \in Nat /\ k <= Units(flash[nm])
      BY <3>1
    <3>3. Part(k) \in Contents /\ Units(Part(k)) = k
      BY PartSize
    <3>4. k <= Room
      BY <3>1, <3>2 DEF Filled
    <3>5. Part(k) >= Part(Room)
      BY <3>4 DEF Part
    <3>6. \A d \in Dates : flash'[d] >= Part(Room)
      BY <3>1, <3>2, <3>5 DEF Filled
    <3>7. flash' \in [Dates -> Contents]
      BY <3>1, <3>2, <3>3
    <3>8. \A d \in Dates : Units(flash[d]) \in Nat
      BY <3>1, UnitsNat
    <3>9. \A d \in Dates : Units(flash'[d]) <= Units(flash[d])
      BY <3>1, <3>2, <3>3, <3>8
    <3>10. Used(flash') <= Used(flash) /\ Used(flash') \in Nat
      BY <3>1, <3>7, <3>9, NoMoreUsed, BlocksFinite
    <3> QED BY <2>1, <3>1, <3>6, <3>10 DEF Filled
  <2> QED BY <1>6, <2>2, <2>3 DEF PowerCut
<1> QED BY <1>1, <1>2, <1>3, <1>4, <1>5, <1>6 DEF Next

LEMMA StepTried == Types /\ Tried /\ [Next]_vars => Tried'
<1> SUFFICES ASSUME Types, Tried, [Next]_vars PROVE Tried'
  OBVIOUS
<1> USE DEF Tried, ram, save, history, bounds
<1>1. CASE Edit \/ Tick \/ SetBack \/ Save \/ Tar \/ UNCHANGED vars
  BY <1>1 DEF Edit, Tick, SetBack, Save, Tar, vars
<1>2. CASE Copy
  BY <1>2 DEF Copy, Again
<1>3. CASE Remove
  BY <1>3 DEF Remove
<1>4. CASE Prune \/ Stamp \/ PowerCut
  BY <1>4 DEF Prune, Stamp, PowerCut, Over
<1>5. CASE Boot \/ LoadByHand \/ ClearFlash
  BY <1>5 DEF Boot, LoadByHand, Load, ClearFlash
<1> QED BY <1>1, <1>2, <1>3, <1>4, <1>5 DEF Next

LEMMA StepWhole == Types /\ WholeSets /\ [Next]_vars => WholeSets'
<1> SUFFICES ASSUME Types, WholeSets, [Next]_vars, spoiled' = 0
             PROVE  /\ \A d \in Sets(flash') : flash'[d] \in Versions \/ (d = nm' /\ pc' \in {"rm", "prune"})
                    /\ pc' = "prune" /\ res' = 0 => flash'[nm'] = body'
  BY DEF WholeSets, Sets
<1> USE DEF ram, save, history, bounds
<1>1. flash \in [Dates -> Contents] /\ nm \in Dates /\ body \in Versions
  BY DEF Types, StateTypes, ClockTypes
<1>2. ASSUME spoiled = 0
      PROVE  /\ \A d \in Sets(flash) : flash[d] \in Versions \/ (d = nm /\ pc \in {"rm", "prune"})
             /\ pc = "prune" /\ res = 0 => flash[nm] = body
  BY <1>2 DEF WholeSets
<1>3. CASE Edit \/ Tick \/ SetBack \/ Save \/ Tar \/ Stamp \/ Boot \/ LoadByHand \/ UNCHANGED vars
  BY <1>2, <1>3 DEF Edit, Tick, SetBack, Save, Tar, Stamp, Boot, LoadByHand, Load, vars
<1>4. CASE Copy
  <2>1. spoiled = 0 /\ pc = "cp" /\ nm' = nm /\ body' = body
    BY <1>4 DEF Copy
  <2>2. \A d \in Sets(flash) : flash[d] \in Versions
    BY <1>2, <2>1
  <2>3. \A d \in Sets(flash') \ {nm} : d \in Sets(flash) /\ flash'[d] = flash[d]
    BY <1>4, CopySets DEF Sets
  <2> QED BY <1>4, <2>1, <2>2, <2>3, CopySets
<1>5. CASE Remove
  <2>1. spoiled = 0 /\ pc' = "cp" /\ flash' = Without(flash, RoomMade)
    BY <1>5 DEF Remove
  <2>2. \A d \in Sets(flash') : d \in Sets(flash) /\ d # nm /\ flash'[d] = flash[d]
    BY <1>1, <2>1, WithoutSets DEF RoomMade, Sets
  <2> QED BY <1>2, <2>1, <2>2
<1>6. CASE Prune
  <2>1. spoiled = 0 /\ res = 0 /\ pc = "prune" /\ pc' = "stamp"
    BY <1>6 DEF Prune
  <2>2. \A d \in Sets(flash) : flash[d] \in Versions
    BY <1>1, <1>2, <2>1
  <2>3. \A d \in Sets(flash') : d \in Sets(flash) /\ flash'[d] = flash[d]
    BY <1>6, PruneSets DEF Sets
  <2> QED BY <2>1, <2>2, <2>3
<1>7. CASE ClearFlash
  <2>1. Sets(flash') = {} /\ pc' = "idle"
    BY <1>7 DEF ClearFlash, Sets
  <2> QED BY <2>1
<1>8. CASE PowerCut
  <2>1. spoiled = 0 /\ flash'[nm] >= None /\ pc' = "boot"
    <3>1. flash'[nm] \in Contents
      BY <1>1, <1>8, CutSets
    <3>2. ~(flash'[nm] < None)
      BY <1>8 DEF PowerCut
    <3>3. ASSUME NEW x \in Contents, ~(x < None) PROVE x >= None
      <4>1. x \in Int
        BY DEF Contents
      <4> QED BY <3>3, <4>1 DEF None
    <3>4. spoiled = 0 /\ pc' = "boot"
      BY <1>8 DEF PowerCut
    <3> QED BY <3>1, <3>2, <3>3, <3>4
  <2>2. flash'[nm] \in Versions \/ flash'[nm] = None
    BY <1>1, <1>8, <2>1, CutSets DEF Contents, None
  <2>3. \A d \in Sets(flash') \ {nm} : d \in Sets(flash) /\ flash'[d] = flash[d]
    BY <1>8, CutSets DEF Sets
  <2>4. \A d \in Sets(flash') : flash'[d] \in Versions
    BY <1>2, <2>1, <2>2, <2>3 DEF Sets
  <2> QED BY <2>1, <2>4
<1> QED BY <1>3, <1>4, <1>5, <1>6, <1>7, <1>8 DEF Next
-----------------------------------------------------------------------------
(* How many sets there are.                                                *)

DateOrder == OpToRel(<, Nat)

LEMMA DateOrderIsLess ==
    ASSUME NEW x \in Nat, NEW y \in Nat, y < x
    PROVE  <<y, x>> \in DateOrder
<1>1. <<y, x>> \in Nat \X Nat /\ <<y, x>>[1] < <<y, x>>[2]
  OBVIOUS
<1> QED BY <1>1, Zenon DEF DateOrder, OpToRel

(* A set of dates that is not empty has a first one, the one Min chooses.  *)
LEMMA FirstDate ==
    ASSUME NEW S \in SUBSET Dates, S # {}
    PROVE  Min(S) \in S /\ \A d \in S : Min(S) <= d
<1>1. S \subseteq Nat
  BY DEF Dates
<1>2. IsWellFoundedOn(DateOrder, Nat)
  BY NatLessThanWellFounded, Zenon DEF DateOrder
<1>3. \E x \in S : \A y \in S : ~(<<y, x>> \in DateOrder)
  BY <1>1, <1>2, WFMin, Zenon
<1>4. PICK x \in S : \A y \in S : ~(<<y, x>> \in DateOrder)
  BY <1>3
<1>5. \A y \in S : x <= y
  <2>1. ASSUME NEW y \in S PROVE ~(y < x)
    BY <1>1, <1>4, DateOrderIsLess
  <2> QED BY <1>1, <2>1
<1> QED BY <1>5 DEF Min

(* tail -10: Keep of them are left.                                        *)
LEMMA KeptNumber == Cardinality(Sets(flash) \ Surplus) <= Keep
<1>1. PICK K \in SUBSET Dates : K = Sets(flash) \ Surplus
  BY DEF Sets
<1>2. CASE K = {}
  BY <1>1, <1>2, FS_EmptySet
<1>3. CASE K # {}
  <2>1. PICK m \in K : \A d \in K : m <= d
    BY <1>3, FirstDate
  <2>2. PICK T \in SUBSET Dates : T = {e \in Sets(flash) : e >= m}
    BY DEF Sets
  <2>3. K \in SUBSET T
    BY <1>1, <2>1, <2>2 DEF Dates
  <2>4. Cardinality(T) <= Keep
    <3>1. ~(Cardinality(T) > Keep)
      BY <1>1, <2>1, <2>2 DEF Surplus
    <3>2. Cardinality(T) \in Nat
      BY DatesFinite
    <3> QED BY <3>1, <3>2
  <2>5. /\ Cardinality(K) <= Cardinality(T)
        /\ Cardinality(K) \in Nat /\ Cardinality(T) \in Nat
    BY <2>3, FewerDates, DatesFinite
  <2> QED BY <1>1, <2>4, <2>5
<1> QED BY <1>2, <1>3

LEMMA SetsAre ==
    /\ Sets(flash) \in SUBSET Dates /\ Others \in SUBSET Sets(flash)
    /\ Cardinality(Others) \in Nat /\ Cardinality(Sets(flash)) \in Nat
    /\ Cardinality(Others) <= Cardinality(Sets(flash))
<1>1. Sets(flash) \in SUBSET Dates /\ Others \in SUBSET Sets(flash)
  BY DEF Sets, Others
<1> QED BY <1>1, DatesFinite, FewerDates

LEMMA SetsWillBe ==
    /\ Sets(flash') \in SUBSET Dates /\ Others' \in SUBSET Sets(flash')
    /\ Cardinality(Others') \in Nat /\ Cardinality(Sets(flash')) \in Nat
    /\ Cardinality(Others') <= Cardinality(Sets(flash'))
<1>1. Sets(flash') \in SUBSET Dates /\ Others' \in SUBSET Sets(flash')
  BY DEF Sets, Others
<1> QED BY <1>1, DatesFinite, FewerDates

LEMMA StepCounted == Types /\ Filled /\ Counted /\ [Next]_vars => Counted'
<1> SUFFICES ASSUME Types, Filled, Counted, [Next]_vars PROVE Counted'
  OBVIOUS
<1> USE DEF ram, save, history, bounds
<1>1. cuts \in Nat /\ Limit \in Int /\ Limit >= Keep
  BY DEF Types, BoundTypes, Limit
<1>2. ASSUME cuts' = cuts, pc \notin {"cp", "rm", "prune"}, Sets(flash') = Sets(flash)
      PROVE  Counted'
  <2>1. Cardinality(Sets(flash)) <= Limit /\ Limit' = Limit
    BY <1>2 DEF Counted, Limit
  <2>2. Cardinality(Sets(flash')) <= Limit'
    BY <1>2, <2>1
  <2>3. Cardinality(Others') <= Limit'
    BY <1>1, <2>1, <2>2, SetsWillBe
  <2> QED BY <2>2, <2>3 DEF Counted, Sets
<1>3. CASE Edit \/ Tick \/ SetBack \/ UNCHANGED vars
  BY <1>3 DEF Counted, Others, Sets, Limit, Edit, Tick, SetBack, vars
<1>4. CASE Save \/ Tar \/ Stamp \/ Boot \/ LoadByHand
  BY <1>2, <1>4 DEF Save, Tar, Stamp, Boot, LoadByHand, Load
<1>5. CASE Copy
  <2>1. Others' = Others /\ pc' \in {"rm", "prune"} /\ Limit' = Limit
    BY <1>5, CopyFlash, CopySets DEF Copy, Limit
  <2>2. Cardinality(Others') <= Limit'
    BY <2>1 DEF Counted
  <2> QED BY <2>1, <2>2 DEF Counted
<1>6. CASE Remove
  <2>1. Sets(flash') \subseteq Sets(flash) /\ nm' = nm /\ Limit' = Limit /\ pc' = "cp"
    BY <1>6, RemoveSets DEF Remove, Limit
  <2>2. Others' \in SUBSET Others
    BY <2>1 DEF Others
  <2>3. Others \in SUBSET Dates
    BY SetsAre
  <2>4. Cardinality(Others') <= Cardinality(Others)
    BY <2>2, <2>3, FewerDates
  <2>5. Cardinality(Others') <= Limit'
    BY <1>1, <2>1, <2>4, SetsAre, SetsWillBe DEF Counted
  <2> QED BY <2>1, <2>5 DEF Counted
<1>7. CASE Prune
  <2>1. Sets(flash') = Sets(flash) \ Surplus /\ Limit' = Limit
    BY <1>7, PruneSets DEF Prune, Limit
  <2>2. Cardinality(Sets(flash')) <= Keep
    BY <2>1, KeptNumber
  <2>3. Cardinality(Sets(flash')) <= Limit' /\ Cardinality(Others') <= Limit'
    BY <1>1, <2>1, <2>2, SetsWillBe
  <2> QED BY <2>3 DEF Counted, Sets
<1>8. CASE ClearFlash
  <2>1. Sets(flash') = {} /\ Limit' = Limit
    BY <1>8 DEF ClearFlash, Sets, Limit
  <2>2. Cardinality(Sets(flash')) = 0
    BY <2>1, FS_EmptySet
  <2>3. Cardinality(Sets(flash')) <= Limit' /\ Cardinality(Others') <= Limit'
    BY <1>1, <2>1, <2>2, SetsWillBe
  <2> QED BY <2>3 DEF Counted, Sets
<1>9. CASE PowerCut
  <2>1. Limit' = Limit + 1
    BY <1>1, <1>9 DEF PowerCut, Limit
  <2>2. Cardinality(Sets(flash')) <= Limit'
    <3>1. CASE pc \in {"cp", "rm", "prune"}
      <4>1. Sets(flash') \in SUBSET (Others \cup {nm})
        BY <1>9, CutSets DEF Others
      <4>2. Others \in SUBSET Dates
        BY SetsAre
      <4>3. IsFiniteSet(Others \cup {nm}) /\ Cardinality(Others \cup {nm}) <= Cardinality(Others) + 1
        BY <4>2, OneMoreDate
      <4>4. Cardinality(Others \cup {nm}) \in Nat
        BY <4>3, FS_CardinalityType
      <4>5. Cardinality(Sets(flash')) <= Cardinality(Others \cup {nm})
        BY <4>1, <4>3, FS_Subset
      <4> QED BY <1>1, <2>1, <4>3, <4>4, <4>5, SetsAre, SetsWillBe DEF Counted
    <3>2. CASE pc \notin {"cp", "rm", "prune"}
      <4>1. Sets(flash') = Sets(flash)
        BY <1>9, <3>2, CutSets
      <4> QED BY <1>1, <2>1, <3>2, <4>1, SetsAre DEF Counted
    <3> QED BY <3>1, <3>2
  <2>3. Cardinality(Others') <= Limit'
    BY <1>1, <2>1, <2>2, SetsWillBe
  <2> QED BY <2>2, <2>3 DEF Counted, Sets
<1> QED BY <1>3, <1>4, <1>5, <1>6, <1>7, <1>8, <1>9 DEF Next

-----------------------------------------------------------------------------
(* The room that the removals make.                                        *)

(* rm takes the oldest set, which is another than the one being saved, if  *)
(* there is another.                                                       *)
LEMMA RemovedOldest ==
    ASSUME Types, Dated, WholeSets, Remove, backs = MaxBack, spoiled = 0, Others' # {}
    PROVE  /\ Others # {}
           /\ Used(Base') + 1 <= Used(Base)
           /\ Cardinality(Others') + 1 <= Cardinality(Others)
<1> USE DEF Types, StateTypes, ClockTypes
<1>1. nm' = nm /\ pc = "rm" /\ flash' = Without(flash, RoomMade)
  BY DEF Remove, save, ram
<1>2. Sets(flash') = Sets(flash) \ RoomMade
  BY <1>1, WithoutSets
<1>3. Sets(flash) # {} /\ Others # {}
  BY <1>1, <1>2 DEF Others
<1>4. PICK m \in Sets(flash) : m = Min(Sets(flash)) /\ \A d \in Sets(flash) : m <= d
  BY <1>3, FirstDate, SetsAre
<1>5. RoomMade = {nm} \cup {m}
  BY <1>3, <1>4 DEF RoomMade, Oldest
<1>6. m # nm
  <2>1. \A d \in Sets(flash) : d <= nm
    BY <1>1 DEF Dated, Named
  <2>2. PICK d \in Sets(flash) : d # nm
    BY <1>3 DEF Others
  <2> QED BY <1>4, <2>1, <2>2 DEF Sets, Dates
<1>7. m \in Others /\ m \in Dates
  BY <1>6 DEF Others, Sets
<1>8. Others' = Others \ {m}
  BY <1>1, <1>2, <1>5 DEF Others
<1>9. Cardinality(Others') + 1 <= Cardinality(Others)
  <2>1. IsFiniteSet(Others)
    BY SetsAre, DatesFinite
  <2>2. Cardinality(Others \ {m}) = Cardinality(Others) - 1
    BY <1>7, <2>1, FS_RemoveElement, Zenon
  <2> QED BY <1>8, <2>2, SetsAre
<1>10. Base' = Without(Base, {m})
  BY <1>1, <1>5 DEF Base, Without
<1>11. Units(Base[m]) >= 1
  <2>1. PICK v \in Versions : Base[m] = v
    BY <1>1, <1>6, <1>7, BaseIs DEF WholeSets
  <2>2. Units(v) = Size[v]
    BY DEF Units, None
  <2>3. Size[v] \in Nat \ {0}
    BY SettingsAssumption
  <2> QED BY <2>1, <2>2, <2>3
<1>12. Used(Base') + 1 <= Used(Base)
  BY <1>7, <1>10, <1>11, BaseIs, LessUsed
<1> QED BY <1>3, <1>9, <1>12

LEMMA StepFreed ==
    Types /\ Dated /\ Filled /\ Tried /\ WholeSets /\ Counted /\ Freed /\ [Next]_vars => Freed'
<1> SUFFICES ASSUME Types, Dated, Filled, Tried, WholeSets, Counted, Freed, [Next]_vars,
                    (backs = MaxBack /\ spoiled = 0 /\ pc \in {"cp", "rm"} /\ Others # {})'
             PROVE  /\ Used(Base') + (Tries - tries') <= Room
                    /\ Cardinality(Others') + (Tries - tries') <= Limit'
  BY DEF Freed, Base, Others
<1> USE DEF ram, save, history, bounds
<1>1. backs = MaxBack /\ cuts \in Nat /\ Limit \in Int
  BY NotSetBack DEF Types, BoundTypes, Limit
<1>2. ASSUME spoiled = 0, pc \in {"cp", "rm"}, Others # {}
      PROVE  /\ Used(Base) + (Tries - tries) <= Room
             /\ Cardinality(Others) + (Tries - tries) <= Limit
  BY <1>1, <1>2 DEF Freed
<1>3. CASE Edit \/ Tick \/ SetBack \/ UNCHANGED vars
  <2>1. /\ spoiled = 0 /\ pc \in {"cp", "rm"} /\ Others' = Others /\ Base' = Base
        /\ tries' = tries /\ Limit' = Limit
    BY <1>3 DEF Edit, Tick, SetBack, vars, Others, Base, Limit
  <2> QED BY <1>2, <2>1
<1>4. CASE Tar
  <2>1. tries' = Tries /\ flash' = flash /\ Limit' = Limit /\ pc = "tar"
    BY <1>4 DEF Tar, Limit
  <2>2. Used(Base') <= Used(flash) /\ Used(Base') \in Nat /\ Used(flash) \in Nat
    <3>1. flash \in [Dates -> Contents] /\ Base' = Without(flash, {nm'})
      BY <2>1 DEF Types, StateTypes, Base
    <3> QED BY <3>1, WithoutSets, WithoutUses, BlocksFinite
  <2>3. Cardinality(Sets(flash')) <= Limit
    BY <2>1 DEF Counted
  <2>4. Cardinality(Others') <= Limit'
    BY <1>1, <2>1, <2>3, SetsWillBe
  <2> QED BY <1>1, <2>1, <2>2, <2>4, SetsWillBe DEF Filled
<1>5. CASE Copy
  <2>1. /\ spoiled = 0 /\ pc \in {"cp", "rm"} /\ Others' = Others /\ Base' = Base
        /\ tries' = tries /\ Limit' = Limit
    BY <1>5, CopyFlash DEF Copy, Limit
  <2> QED BY <1>2, <2>1
<1>6. CASE Remove
  <2>1. spoiled = 0 /\ pc \in {"cp", "rm"} /\ tries' = tries - 1 /\ Limit' = Limit
    BY <1>6 DEF Remove, Limit
  <2>2. /\ Others # {}
        /\ Used(Base') + 1 <= Used(Base)
        /\ Cardinality(Others') + 1 <= Cardinality(Others)
    BY <1>1, <1>6, <2>1, RemovedOldest
  <2>3. /\ Used(Base) + (Tries - tries) <= Room
        /\ Cardinality(Others) + (Tries - tries) <= Limit
    BY <1>2, <2>1, <2>2
  <2>4. Used(Base) \in Nat /\ Used(Base') \in Nat /\ tries \in Int
    <3>1. flash' \in [Dates -> Contents]
      BY <1>6, RemoveSets
    <3>2. Base' \in [Dates -> Contents]
      BY <3>1, WithoutSets DEF Base
    <3> QED BY <3>2, BaseIs, BlocksFinite DEF Types, BoundTypes
  <2> QED BY <1>1, <2>1, <2>2, <2>3, <2>4, SetsAre, SetsWillBe
<1>7. CASE Save \/ Prune \/ Stamp \/ Boot \/ LoadByHand \/ ClearFlash \/ PowerCut
  BY <1>7 DEF Save, Prune, Stamp, Boot, LoadByHand, Load, ClearFlash, PowerCut
<1> QED BY <1>3, <1>4, <1>5, <1>6, <1>7 DEF Next

(* When the tries are over, Tries sets have gone, or there are none.       *)
LEMMA LastTry ==
    ASSUME Types, Tried, Freed, Copy, res' = 1, pc' = "prune", backs = MaxBack, spoiled = 0
    PROVE  Size[body] > Room \/ (Limit > Tries /\ Size[body] > Tries)
<1>1. Size[body] \in Nat /\ Used(Base) \in Nat /\ Limit \in Int
  <2>1. Used(Base) \in Nat
    BY BaseIs
  <2> QED BY <2>1 DEF Types, StateTypes, BoundTypes, Limit
<1>2. ~(Size[body] <= Free) /\ ~Again /\ pc = "cp"
  BY DEF Copy
<1>3. tries = 0 /\ Size[body] > Room - Used(Base)
  BY <1>1, <1>2 DEF Free, Again, Tried
<1>4. CASE Others = {}
  <2>1. Used(Base) = 0
    BY <1>4, BaseIs, NothingUsed
  <2> QED BY <1>1, <1>3, <2>1
<1>5. CASE Others # {}
  <2>1. Used(Base) + Tries <= Room /\ Cardinality(Others) + Tries <= Limit
    BY <1>2, <1>3, <1>5 DEF Freed
  <2>2. Cardinality(Others) # 0
    BY <1>5, SetsAre, DatesFinite, FS_EmptySet
  <2> QED BY <1>1, <1>3, <2>1, <2>2, SetsAre
<1> QED BY <1>4, <1>5

LEMMA StepRoom == Types /\ Tried /\ Freed /\ RoomIsMade /\ [Next]_vars => RoomIsMade'
<1> SUFFICES ASSUME Types, Tried, Freed, RoomIsMade, [Next]_vars,
                    (pc = "prune" /\ res = 1 /\ spoiled = 0 /\ backs = MaxBack)'
             PROVE  Size[body'] > Room \/ (Limit' > Tries /\ Size[body'] > Tries)
  BY DEF RoomIsMade, Limit
<1> USE DEF ram, save, history, bounds
<1>1. backs = MaxBack
  BY NotSetBack
<1>2. CASE Edit \/ Tick \/ SetBack \/ UNCHANGED vars
  <2>1. pc = "prune" /\ res = 1 /\ spoiled = 0 /\ body' = body /\ Limit' = Limit
    BY <1>2 DEF Edit, Tick, SetBack, vars, Limit
  <2> QED BY <1>1, <2>1 DEF RoomIsMade, Limit
<1>3. CASE Copy
  <2>1. spoiled = 0 /\ body' = body /\ Limit' = Limit
    BY <1>3 DEF Copy, Limit
  <2> QED BY <1>1, <1>3, <2>1, LastTry
<1>4. CASE Save \/ Tar \/ Remove \/ Prune \/ Stamp \/ Boot \/ LoadByHand \/ ClearFlash \/ PowerCut
  BY <1>4 DEF Save, Tar, Remove, Prune, Stamp, Boot, LoadByHand, Load, ClearFlash, PowerCut
<1> QED BY <1>2, <1>3, <1>4 DEF Next

-----------------------------------------------------------------------------

LEMMA InitRoomInv == Init => RoomInv
<1> SUFFICES ASSUME Init PROVE RoomInv
  OBVIOUS
<1>1. Types
  BY InitIInv DEF IInv
<1>2. \A d \in Dates : flash[d] \in {acked, None}
  BY DEF Init
<1>3. Filled
  BY <1>2 DEF Init, Filled, Part, None
<1>4. Tried /\ Freed /\ RoomIsMade
  BY DEF Init, Tried, Freed, RoomIsMade
<1>5. WholeSets
  <2>1. \A d \in Sets(flash) : flash[d] \in Versions
    BY <1>2 DEF Init, Sets, None
  <2> QED BY <2>1 DEF WholeSets, Init
<1>6. Counted
  <2>1. PICK n \in Nat : n = now /\ n >= 1 /\ n <= Keep
    BY DEF Init, Dates
  <2>2. Sets(flash) \in SUBSET (1..n)
    BY <2>1 DEF Init, Sets, Dates, None
  <2>3. IsFiniteSet(1..n) /\ Cardinality(1..n) = n
    BY <2>1, FS_Interval
  <2>4. Cardinality(Sets(flash)) <= n
    BY <2>2, <2>3, FS_Subset
  <2>5. Limit = Keep
    BY DEF Init, Limit
  <2> QED BY <2>1, <2>4, <2>5, SetsAre DEF Counted
<1> QED BY <1>3, <1>4, <1>5, <1>6 DEF RoomInv

LEMMA RoomInvariance == Spec => []RoomInv
<1>1. IInv /\ RoomInv /\ [Next]_vars => RoomInv'
  BY StepFilled, StepTried, StepWhole, StepCounted, StepFreed, StepRoom DEF IInv, RoomInv
<1> QED BY <1>1, InitRoomInv, Invariance, PTL DEF Spec

(* The flash is never overfilled, whatever the sizes of the settings and   *)
(* wherever cp, rm and the power cuts leave it; every other value has its  *)
(* type.                                                                   *)
THEOREM FlashNeverOverfilled == Spec => []TypeOK
<1>1. IInv /\ RoomInv => TypeOK
  <2> SUFFICES ASSUME IInv, RoomInv PROVE TypeOK
    OBVIOUS
  <2> USE DEF IInv, Types, RoomInv
  <2>1. flash \in [Dates -> Versions \cup {None} \cup {Part(k) : k \in 0..Room}]
    <3>1. ASSUME NEW x \in Contents, x >= Part(Room)
          PROVE  x \in Versions \cup {None} \cup {Part(k) : k \in 0..Room}
      <4>1. CASE x \in Versions \cup {None}
        BY <4>1
      <4>2. CASE x \notin Versions \cup {None}
        <5>1. x \in Int /\ x < -1 /\ x >= -2 - Room
          BY <3>1, <4>2 DEF Contents, None, Part
        <5>2. -2 - x \in 0..Room /\ x = Part(-2 - x)
          BY <5>1 DEF Part
        <5> QED BY <5>2
      <4> QED BY <4>1, <4>2
    <3>2. /\ flash \in [Dates -> Contents]
          /\ \A d \in Dates : flash[d] >= Part(Room)
      BY DEF StateTypes, Filled
    <3> QED BY <3>1, <3>2
  <2>2. settings \in Versions /\ fresh \in Versions /\ Used(flash) <= Room
    BY DEF StateTypes, Filled
  <2>3. made \in [Versions -> 0..LastDate] /\ stamp \in 0..LastDate /\ now \in Dates
    BY DEF ClockTypes
  <2>4. /\ pc \in {"idle", "tar", "cp", "rm", "prune", "stamp", "boot"}
        /\ nm \in Dates /\ body \in Versions /\ tries \in 0..Tries /\ res \in {0, 1}
    BY DEF BoundTypes, ClockTypes, StateTypes, Tried
  <2>5. /\ acked \in Versions \cup {None} /\ base \in Versions
        /\ {attempt, squeezed, spoiled, blind} \subseteq {0, 1}
    BY DEF BoundTypes, StateTypes, Filled
  <2> QED BY <2>1, <2>2, <2>3, <2>4, <2>5 DEF TypeOK
<1> QED BY <1>1, Invariance, RoomInvariance, PTL

(* A save that fails has not room: the removals have freed a unit for      *)
(* every try, or have left no other set.                                   *)
THEOREM RoomMadeTrue == Spec => []RoomIsMade
<1>1. RoomInv => RoomIsMade
  BY DEF RoomInv
<1> QED BY <1>1, RoomInvariance, PTL
=============================================================================
