---------------------------- MODULE SettingsFlash ----------------------------
(***************************************************************************)
(* loadsave_settings: the configuration lives in RAM; a save puts it in a  *)
(* set_<date>.tgz in flash, removing the oldest sets when there is no room *)
(* and all but the last Keep at the end, and touches a stamp, against      *)
(* which "are there changes to save?" is answered; boot loads the newest   *)
(* set.  The power may fail at any step, and the clock may be set back.    *)
(***************************************************************************)
EXTENDS Integers, FiniteSets, FiniteSetsExt

CONSTANTS
    Size,        \* units of flash the settings take, by version
    Room,        \* units there are
    Keep,        \* sets that are kept: 10
    Tries,       \* times a set is removed to make room: 5
    LastDate,    \* bound on the clock
    MaxCuts, MaxBack, MaxLoads   \* bounds on faults and on manual loads

Versions == DOMAIN Size      \* 0 is the firmware's own

ASSUME SettingsAssumption ==
    /\ Size \in [Versions -> Nat \ {0}] /\ 0 \in Versions /\ Versions \subseteq Nat
    /\ LastDate > 0 /\ Size[0] <= Room
    /\ {Room, Keep, Tries, LastDate, MaxCuts, MaxBack, MaxLoads} \subseteq Nat
    /\ Keep > 0 /\ Tries > 0

VARIABLES
    flash,              \* by date: a version, None, or an incomplete file
    settings, fresh,    \* the version in use, and the last one made
    made, stamp,        \* when; and when /var/run/settings_saved was touched
    now,
    pc, nm, body, tries, res,   \* saveflashdef()
    cuts, backs, loads, \* bounds
    acked,              \* history: the last version a save was reported of
    base,               \* history: the version last saved or loaded
    attempt,            \* history: a save was begun after that report
    squeezed, spoiled,  \* history: a set was removed to make room; an
                        \* incomplete one was left behind
    blind               \* history: an edit during a save or in the second
                        \* of the stamp

ram == <<settings, fresh, made, stamp>>
save == <<nm, body, tries, res>>
history == <<acked, base, attempt, squeezed, spoiled, blind>>
bounds == <<cuts, backs, loads>>
vars == <<flash, ram, now, pc, save, bounds, history>>

Dates == 1..LastDate
None == -1
Part(k) == -2 - k                       \* an incomplete file of k units
Units(x) == IF x = None THEN 0 ELSE IF x < 0 THEN -2 - x ELSE Size[x]
Blocks(f) == UNION {{d} \X (1..Units(f[d])) : d \in Dates}
Used(f) == Cardinality(Blocks(f))
Sets(f) == {d \in Dates : f[d] # None}
Whole(v) == \E d \in Dates : flash[d] = v
Without(f, D) == [d \in Dates |-> IF d \in D THEN None ELSE f[d]]
Oldest(f) == IF Sets(f) = {} THEN {} ELSE {Min(Sets(f))}

TypeOK ==
    /\ flash \in [Dates -> Versions \cup {None} \cup {Part(k) : k \in 0..Room}]
    /\ settings \in Versions /\ fresh \in Versions /\ Used(flash) <= Room
    /\ made \in [Versions -> 0..LastDate] /\ stamp \in 0..LastDate /\ now \in Dates
    /\ pc \in {"idle", "tar", "cp", "rm", "prune", "stamp", "boot"}
    /\ nm \in Dates /\ body \in Versions /\ tries \in 0..Tries /\ res \in {0, 1}
    /\ acked \in Versions \cup {None} /\ base \in Versions
    /\ {attempt, squeezed, spoiled, blind} \subseteq {0, 1}

(* The script ends.                                                        *)
Over == nm' = 1 /\ body' = 0 /\ tries' = Tries /\ res' = 0

(* A box that has booted with an empty flash, or the last of its sets.     *)
Init ==
    /\ acked \in {None, 0} /\ now \in Dates /\ now <= Keep /\ stamp = now
    /\ flash = [d \in Dates |-> IF d <= now THEN acked ELSE None] /\ Used(flash) <= Room
    /\ settings = 0 /\ fresh = 0 /\ made = [v \in Versions |-> 0]
    /\ pc = "idle" /\ nm = 1 /\ body = 0 /\ tries = Tries /\ res = 0
    /\ cuts = MaxCuts /\ backs = MaxBack /\ loads = MaxLoads
    /\ base = 0 /\ attempt = 0 /\ squeezed = 0 /\ spoiled = 0 /\ blind = 0

-----------------------------------------------------------------------------
Edit ==
    /\ pc # "boot" /\ fresh + 1 \in Versions
    /\ settings' = fresh + 1 /\ fresh' = fresh + 1
    /\ made' = [made EXCEPT ![fresh + 1] = now]
    /\ blind' = IF pc # "idle" \/ now = stamp THEN 1 ELSE blind
    /\ UNCHANGED <<flash, stamp, now, pc, save, bounds, acked, base, attempt, squeezed, spoiled>>

Tick ==
    /\ now < LastDate /\ now' = now + 1
    /\ UNCHANGED <<flash, ram, pc, save, bounds, history>>

(* Without its battery the clock starts over.                              *)
SetBack ==
    /\ backs > 0 /\ backs' = backs - 1
    /\ now' = 1
    /\ UNCHANGED <<flash, ram, pc, save, cuts, loads, history>>

-----------------------------------------------------------------------------
(* saveflashdef().                                                         *)

(* Mutant: the files are not compared.                                     *)
UnchangedAny == stamp # 0

(* status(): nothing is newer than the stamp (0: there is none).           *)
Unchanged == stamp # 0 /\ made[settings] <= stamp

(* Checking and mounting the flash takes its second.                       *)
Save ==
    /\ pc = "idle" /\ ~Unchanged /\ pc' = "tar"
    /\ now < LastDate /\ now' = now + 1
    /\ UNCHANGED <<flash, ram, save, bounds, history>>

(* createdef().                                                            *)
Tar ==
    /\ pc = "tar" /\ pc' = "cp"
    /\ nm' = now /\ body' = settings /\ tries' = Tries
    /\ attempt' = 1
    /\ UNCHANGED <<flash, ram, now, res, bounds, acked, base, squeezed, spoiled, blind>>

Base == Without(flash, {nm})
Free == Room - Used(Base)

(* Mutant: a try too many.                                                 *)
AgainLate == tries >= 0

Again == tries > 0

Copy ==
    /\ pc = "cp"
    /\ IF Size[body] <= Free
       THEN /\ flash' = [Base EXCEPT ![nm] = body]
            /\ res' = 0 /\ pc' = "prune"
       ELSE /\ \E k \in 0..Room : k = Free /\ flash' = [Base EXCEPT ![nm] = Part(k)]
            /\ res' = 1 /\ pc' = IF Again THEN "rm" ELSE "prune"
    /\ UNCHANGED <<ram, now, nm, body, tries, bounds, history>>

(* Mutant: only the incomplete set goes.                                   *)
RoomNone == {nm}

(* rm $nm $(ls set_*.tgz | head -1)                                        *)
RoomMade == {nm} \cup Oldest(flash)

Remove ==
    /\ pc = "rm" /\ pc' = "cp"
    /\ tries' = tries - 1
    /\ flash' = Without(flash, RoomMade)
    /\ squeezed' = 1
    /\ UNCHANGED <<ram, now, nm, body, res, bounds, acked, base, attempt, spoiled, blind>>

(* Mutant: tail for head.                                                  *)
SurplusLast == {d \in Sets(flash) : Cardinality({e \in Sets(flash) : e <= d}) > Keep}

(* "remove all but last 10", by name.                                      *)
Surplus == {d \in Sets(flash) : Cardinality({e \in Sets(flash) : e >= d}) > Keep}

Prune ==
    /\ pc = "prune"
    /\ flash' = Without(flash, Surplus)
    /\ IF res = 0 THEN pc' = "stamp" /\ UNCHANGED <<save, spoiled>>
       ELSE pc' = "idle" /\ spoiled' = 1 /\ Over
    /\ UNCHANGED <<ram, now, bounds, acked, base, attempt, squeezed, blind>>

Stamp ==
    /\ pc = "stamp" /\ pc' = "idle"
    /\ stamp' = now
    /\ acked' = body /\ base' = body /\ attempt' = 0 /\ Over
    /\ UNCHANGED <<flash, settings, fresh, made, now, bounds, squeezed, spoiled, blind>>

-----------------------------------------------------------------------------
(* loadflashdef(), clearflashdef().                                        *)

(* The stamp is touched whether or not the set could be unpacked.          *)
Load(d) ==
    /\ IF d \in Dates /\ flash[d] >= 0
       THEN settings' = flash[d] /\ base' = flash[d]
       ELSE UNCHANGED <<settings, base>>
    /\ stamp' = now
    /\ UNCHANGED <<flash, fresh, made, now, save, acked, attempt, squeezed, spoiled, blind>>

(* Mutant: head for tail.                                                  *)
FirstSet == IF Sets(flash) = {} THEN 0 ELSE Min(Sets(flash))

(* ls set_* | tail -1; 0 if there is none.                                 *)
LastSet == IF Sets(flash) = {} THEN 0 ELSE Max(Sets(flash))

Boot ==
    /\ pc = "boot" /\ pc' = "idle"
    /\ Load(LastSet)
    /\ UNCHANGED bounds

(* A set the user names, or a file that is none.                           *)
LoadByHand ==
    /\ pc = "idle" /\ loads > 0 /\ loads' = loads - 1
    /\ \E d \in Sets(flash) \cup {0} : Load(d)
    /\ UNCHANGED <<pc, cuts, backs>>

ClearFlash ==
    /\ pc = "idle" /\ loads > 0 /\ loads' = loads - 1
    /\ flash' = [d \in Dates |-> None]
    /\ stamp' = 0 /\ acked' = None
    /\ UNCHANGED <<settings, fresh, made, now, pc, save, cuts, backs, base, attempt, squeezed, spoiled, blind>>

(* The RAM is lost; a set under way may be incomplete as long as the flash *)
(* is mounted.                                                             *)
PowerCut ==
    /\ pc # "boot" /\ cuts > 0 /\ cuts' = cuts - 1
    /\ \/ UNCHANGED flash
       \/ /\ pc \in {"cp", "prune"}
          /\ \E k \in {0, Units(flash[nm])} : flash' = [flash EXCEPT ![nm] = Part(k)]
    /\ spoiled' = IF flash'[nm] < None THEN 1 ELSE spoiled
    /\ settings' = 0 /\ base' = 0 /\ stamp' = 0
    /\ pc' = "boot" /\ Over
    /\ UNCHANGED <<fresh, made, now, backs, loads, acked, attempt, squeezed, blind>>

Next ==
    \/ Edit \/ Tick \/ SetBack
    \/ Save \/ Tar \/ Copy \/ Remove \/ Prune \/ Stamp
    \/ Boot \/ LoadByHand \/ ClearFlash \/ PowerCut

Spec == Init /\ [][Next]_vars

-----------------------------------------------------------------------------
(* A reported save stays in flash through later saves and power cuts, as   *)
(* long as no set had to go to make room, the clock was not set back, and  *)
(* the sets that power cuts left, which count among the Keep, leave a      *)
(* place for it beside the one being saved.                                *)
SavedSurvives ==
    acked # None /\ squeezed = 0 /\ backs = MaxBack /\ MaxCuts - cuts + 1 < Keep => Whole(acked)

(* settings_proc.cgi tells the user that the settings were saved: the next *)
(* boot, at whatever time, loads them and not an older or a newer set,     *)
(* whatever was removed to make room, unless another save was begun.       *)
BootRestores ==
    [][pc = "boot" /\ pc' = "idle" /\ acked # None /\ attempt = 0 /\ backs = MaxBack
        => settings' = acked]_vars

(* "not enough flash space available" is true: the removals make room for  *)
(* any set that fits when there are no more sets than Tries, and otherwise *)
(* for one as large as Tries small ones, if all sets are whole and the     *)
(* clock was not set back.  There are Keep sets, and one more for every    *)
(* save that a power cut kept from removing the surplus.                   *)
RoomIsMade ==
    pc = "prune" /\ res = 1 /\ spoiled = 0 /\ backs = MaxBack =>
        Size[body] > Room \/ (Keep + (MaxCuts - cuts) > Tries /\ Size[body] > Tries)

(* "No modified files since last save." is true of a box on which no set   *)
(* was loaded by hand: the answer never hides an edit, except one made     *)
(* during a save or in the very second of the stamp.                       *)
StatusTruthful ==
    pc = "idle" /\ Unchanged /\ backs = MaxBack /\ blind = 0 /\ loads = MaxLoads =>
        settings = base
=============================================================================
