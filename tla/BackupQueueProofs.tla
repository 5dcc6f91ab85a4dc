-------------------------- MODULE BackupQueueProofs --------------------------
(***************************************************************************)
(* Why the runs of /usr/bin/backup exclude each other, and why its store   *)
(* keeps the dates it should, for any number of runs, failures and kills.  *)
(* The invariant follows the pid file's owner from its claim to cleanup(), *)
(* the dates, the newest of which are there and are no concern of          *)
(* clean_logs(), the removals that it still wants, which are those of the   *)
(* other dates, and the copies cut short, which are no more than failures  *)
(* and kills.                                                              *)
(***************************************************************************)
EXTENDS BackupQueue, FiniteSetTheorems, TLAPS

Places == {"new", "lock", "asleep"} \cup Busy \cup InLock \cup Ended

Types ==
    /\ pc \in [Runs -> Places]
    /\ lock \in {0, 1} /\ pid \in Runs \cup {None}
    /\ dirs \in [Dates -> {"no", "part", "torn", "good"}]
    /\ tries \in [Runs -> Nat]
    /\ reused \in {0, 1} /\ page \in {0, 1} /\ robbed \in {0, 1} /\ strays \in {0, 1}
    /\ fails \in 0..MaxFails /\ kills \in 0..MaxKills /\ pages \in 0..MaxPages

(* The lock file is there while a run is between lock() and unlock(), and  *)
(* only one is.                                                            *)
OneInLock ==
    \A p \in Runs : pc[p] \in InLock =>
        /\ lock = 1
        /\ \A q \in Runs : pc[q] \in InLock => q = p

(* From the moment a run has claimed the pid file to the moment it removes *)
(* it, the file says its pid.                                              *)
Owner == robbed = 0 => \A p \in Runs : pc[p] \in Busy \cup {"mine", "out"} => pid = p

(* Runs that have a date, each its own, and dates.                         *)
Undated == {"new", "lock", "asleep", "held", "mine", "go"}
Dating == {"copy", "unlink", "link", "count", "clean"}
Prepared == {p \in Runs : date[p] # 0}
DatesGiven ==
    /\ date \in [Runs -> Nat]
    /\ \A p \in Runs : pc[p] \in Undated => date[p] = 0
    /\ \A p \in Runs : pc[p] \in Dating \cup {"orphan"} => date[p] # 0
    /\ \A p \in Runs : date[p] <= Last
    /\ \A p, q \in Runs : date[p] # 0 /\ date[p] = date[q] => p = q
    /\ \A d \in Made : d <= Last

(* The copies of killed runs are known of.                                 *)
Strays == \A p \in Runs : pc[p] = "orphan" => strays = 1

(* The newest dates are there, and clean_logs() still wants as many        *)
(* removals as there are others, or fewer if one of these was in the way.  *)
Old == Made \ Kept
Store ==
    robbed = 0 =>
        /\ Kept \subseteq Made
        /\ \A p \in Runs :
            /\ pc[p] \in Dating => date[p] = Last
            /\ pc[p] \in {"count", "clean"} => nlogs > 0
            /\ pc[p] = "clean" => tries[p] <= Cardinality(Old)
            /\ pc[p] = "clean" /\ strays = 0 => tries[p] = Cardinality(Old)
            /\ pc[p] = "leave" /\ date[p] # 0 /\ nlogs > 0 /\ strays = 0 => Made = Kept

(* The link.                                                               *)
Newest == IF Last \in Made THEN Last ELSE 0
LinkMade ==
    robbed = 0 => \A p \in Runs :
        /\ pc[p] = "link" => current = 0
        /\ pc[p] \in Linked /\ date[p] # 0 /\ date[p] = Last => current = Newest

(* Copies that are not whole, and that no run waits for.                   *)
Leftover ==
    {d \in Dates : /\ dirs[d] \in {"part", "torn"}
                   /\ \A p \in Runs : pc[p] = "copy" => date[p] # d}
    \cup {date[p] : p \in Orphans}
FewLeftovers == Cardinality(Leftover) <= Bad

CurrentType == current \in {0} \cup Made

IInv ==
    /\ Types /\ OneInLock /\ Owner /\ DatesGiven /\ Strays /\ Store /\ LinkMade
    /\ FewLeftovers /\ CurrentType

LEMMA ConstantTypes ==
    /\ nlogs \in Nat /\ Mirror \in {0, 1} /\ IsFiniteSet(Runs) /\ None \notin Runs
    /\ MaxFails \in Nat /\ MaxKills \in Nat /\ MaxPages \in Nat
BY BackupAssumption

USE ConstantTypes

(* Dates are few.                                                          *)
LEMMA DatesFinite ==
    ASSUME NEW S \in SUBSET Dates
    PROVE  IsFiniteSet(S) /\ Cardinality(S) \in Nat
<1>1. Cardinality(Runs) \in Nat
  BY FS_CardinalityType
<1>2. IsFiniteSet(Dates)
  BY <1>1, FS_Interval DEF Dates
<1> QED BY <1>2, FS_Subset, FS_CardinalityType

LEMMA MadeFinite == Made \in SUBSET Dates /\ IsFiniteSet(Made) /\ Cardinality(Made) \in Nat
BY DatesFinite DEF Made

LEMMA PreparedFinite ==
    /\ IsFiniteSet(Prepared) /\ Last = Cardinality(Prepared) /\ Last \in Nat
    /\ Cardinality(Runs) \in Nat /\ Last <= Cardinality(Runs)
BY FS_Subset, FS_CardinalityType DEF Prepared, Last

-----------------------------------------------------------------------------
(* Exclusion.                                                              *)

LEMMA StepTypes == Types /\ [Next]_vars => Types'
<1> SUFFICES ASSUME Types, [Next]_vars PROVE Types'
  OBVIOUS
<1> USE DEF Types, Go, queue, store, bounds, past, Places, Busy, InLock, Ended
<1>1. CASE UNCHANGED vars
  BY <1>1 DEF vars
<1>2. CASE PageLooks \/ PageRemoves \/ Reuse
  BY <1>2 DEF PageLooks, PageRemoves, Reuse
<1>3. ASSUME NEW p \in Runs, Start(p) \/ Enter(p) \/ Cleanup(p) PROVE Types'
  BY <1>3 DEF Start, Enter, Lock, NobodyHolds, Queued, Claim, Unlock, Cleanup, RemovePid
<1>4. ASSUME NEW p \in Runs, Kill(p) PROVE Types'
  BY <1>4 DEF Kill
<1>5. ASSUME NEW p \in Runs, Prepare(p) PROVE Types'
  BY <1>5 DEF Prepare
<1>6. ASSUME NEW p \in Runs, Copy(p) PROVE Types'
  <2>1. pc' \in [Runs -> Places]
    BY <1>6 DEF Copy
  <2>2. dirs' \in [Dates -> {"no", "part", "torn", "good"}] /\ fails' \in 0..MaxFails
    BY <1>6 DEF Copy
  <2> QED BY <1>6, <2>1, <2>2 DEF Copy
<1>7. ASSUME NEW p \in Runs, Unlink(p) \/ Link(p) PROVE Types'
  BY <1>7 DEF Unlink, Link
<1>8. ASSUME NEW p \in Runs, Count(p) PROVE Types'
  <2>1. Surplus \in Int
    BY MadeFinite, FS_CardinalityType DEF Surplus
  <2> QED BY <1>8, <2>1 DEF Count
<1>9. ASSUME NEW p \in Runs, RemoveOldest(p) PROVE Types'
  <2>1. dirs' \in [Dates -> {"no", "part", "torn", "good"}]
    BY <1>9 DEF RemoveOldest
  <2>2. tries' \in [Runs -> Nat]
    BY <1>9 DEF RemoveOldest
  <2> QED BY <1>9, <2>1, <2>2 DEF RemoveOldest
<1>10. ASSUME NEW p \in Runs, Cleaned(p) PROVE Types'
  BY <1>10 DEF Cleaned
<1>11. ASSUME NEW p \in Runs, OrphanEnds(p) PROVE Types'
  <2>1. dirs' \in [Dates -> {"no", "part", "torn", "good"}]
    BY <1>11 DEF OrphanEnds
  <2> QED BY <1>11, <2>1 DEF OrphanEnds
<1> QED
  BY <1>1, <1>2, <1>3, <1>4, <1>5, <1>6, <1>7, <1>8, <1>9, <1>10, <1>11
  DEF Next, Step, DoBackup, Clean

LEMMA StepInLock == Types /\ OneInLock /\ [Next]_vars => OneInLock'
<1> SUFFICES ASSUME Types, OneInLock, [Next]_vars PROVE OneInLock'
  OBVIOUS
<1> USE DEF Types, OneInLock, Go, queue, store, bounds, past, Busy, InLock, Ended
<1>1. CASE UNCHANGED vars
  BY <1>1 DEF vars
<1>2. CASE PageLooks \/ PageRemoves \/ Reuse
  BY <1>2 DEF PageLooks, PageRemoves, Reuse
<1>3. ASSUME NEW p \in Runs, Start(p) \/ Kill(p) \/ OrphanEnds(p) PROVE OneInLock'
  BY <1>3 DEF Start, Kill, OrphanEnds
<1>4. ASSUME NEW p \in Runs, Enter(p) PROVE OneInLock'
  BY <1>4 DEF Enter, Lock, NobodyHolds, Queued, Claim, Unlock
<1>5. ASSUME NEW p \in Runs, Cleanup(p) PROVE OneInLock'
  BY <1>5 DEF Cleanup, Lock, NobodyHolds, RemovePid, Unlock
<1>6. ASSUME NEW p \in Runs, DoBackup(p) PROVE OneInLock'
  BY <1>6 DEF DoBackup, Prepare, Copy, Unlink, Link, Clean, Count, RemoveOldest, Cleaned
<1> QED BY <1>1, <1>2, <1>3, <1>4, <1>5, <1>6 DEF Next, Step

LEMMA StepOwner == Types /\ OneInLock /\ Owner /\ [Next]_vars => Owner'
<1> SUFFICES ASSUME Types, OneInLock, Owner, [Next]_vars PROVE Owner'
  OBVIOUS
<1> USE DEF Types, Owner, Go, queue, store, bounds, past, Busy, InLock, Ended, Places
<1>1. CASE UNCHANGED vars
  BY <1>1 DEF vars
<1>2. CASE PageLooks \/ Reuse
  BY <1>2 DEF PageLooks, Reuse
<1>3. CASE PageRemoves
  BY <1>3 DEF PageRemoves, Alive
<1>4. ASSUME NEW p \in Runs, Start(p) \/ Kill(p) \/ OrphanEnds(p) PROVE Owner'
  BY <1>4 DEF Start, Kill, OrphanEnds
<1>5. ASSUME NEW p \in Runs, Enter(p) PROVE Owner'
  BY <1>5 DEF Enter, Lock, NobodyHolds, Queued, Claim, Unlock, Taken, Alive
<1>6. ASSUME NEW p \in Runs, Cleanup(p) PROVE Owner'
  BY <1>6 DEF Cleanup, Lock, NobodyHolds, RemovePid, Unlock
<1>7. ASSUME NEW p \in Runs, DoBackup(p) PROVE Owner'
  BY <1>7 DEF DoBackup, Prepare, Copy, Unlink, Link, Clean, Count, RemoveOldest, Cleaned
<1> QED BY <1>1, <1>2, <1>3, <1>4, <1>5, <1>6, <1>7 DEF Next, Step

(* Who has claimed the pid file works alone.                               *)
LEMMA Alone ==
    ASSUME Types, Owner, robbed = 0, NEW p \in Runs, NEW q \in Runs,
           pc[p] \in Busy \cup {"mine", "out"}, pc[q] \in Busy \cup {"mine", "out"}
    PROVE  p = q
BY DEF Owner

-----------------------------------------------------------------------------
(* Dates.                                                                  *)

(* A new backup's date is later than all others, and a date.               *)
LEMMA TodayLater ==
    ASSUME Types, DatesGiven, NEW p \in Runs, pc[p] = "go"
    PROVE  /\ Today = Last + 1 /\ Today \in Nat /\ Today > 0 /\ Today \in Dates
           /\ Today \notin Made
<1>1. p \notin Prepared
  BY DEF DatesGiven, Prepared, Undated
<1>2. /\ IsFiniteSet(Prepared \cup {p})
      /\ Cardinality(Prepared \cup {p}) = Cardinality(Prepared) + 1
  BY <1>1, PreparedFinite, FS_AddElement
<1>3. Prepared \cup {p} \in SUBSET Runs
  BY DEF Prepared
<1>4. Cardinality(Prepared \cup {p}) <= Cardinality(Runs)
  BY <1>3, FS_Subset
<1>5. Today = Last + 1 /\ Today \in Nat /\ Today > 0 /\ Today \in Dates
  BY <1>2, <1>4, PreparedFinite DEF Dates, Today
<1>6. \A d \in Made : d \in Nat /\ d <= Last
  BY PreparedFinite DEF DatesGiven, Made, Dates
<1> QED BY <1>5, <1>6, PreparedFinite

(* What a successful Prepare does to the store.                            *)
LEMMA PrepareMade ==
    ASSUME Types, DatesGiven, NEW p \in Runs, Prepare(p), pc'[p] = "copy"
    PROVE  /\ pc[p] = "go" /\ pc' = [pc EXCEPT ![p] = "copy"] /\ fails' = fails
           /\ Made' = Made \cup {Today} /\ Today = Last + 1 /\ Last' = Last + 1
           /\ \A d \in Dates \ {Today} : dirs'[d] = dirs[d]
           /\ dirs'[Today] = "part" /\ date' = [date EXCEPT ![p] = Today]
<1>1. /\ pc[p] = "go" /\ pc' = [pc EXCEPT ![p] = "copy"] /\ fails' = fails
      /\ dirs' = [dirs EXCEPT ![Today] = "part"] /\ date' = [date EXCEPT ![p] = Today]
  BY DEF Prepare, Go, Types
<1>2. Today \in Dates /\ Today \notin Made /\ Today = Last + 1 /\ Today \in Nat /\ Today > 0
  BY <1>1, TodayLater
<1>3. p \notin Prepared /\ date \in [Runs -> Nat]
  BY <1>1 DEF DatesGiven, Prepared, Undated
<1>4. Prepared' = Prepared \cup {p}
  BY <1>1, <1>2, <1>3 DEF Prepared
<1>5. Last' = Last + 1
  <2>1. Last' = Cardinality(Prepared')
    BY DEF Last, Prepared
  <2>2. Cardinality(Prepared \cup {p}) = Cardinality(Prepared) + 1
    BY <1>3, PreparedFinite, FS_AddElement
  <2> QED BY <1>4, <2>1, <2>2, PreparedFinite
<1> QED BY <1>1, <1>2, <1>5 DEF Made, Types

(* A Prepare that fails.                                                   *)
LEMMA PrepareFails ==
    ASSUME Types, NEW p \in Runs, Prepare(p), pc'[p] # "copy"
    PROVE  /\ pc[p] = "go" /\ pc' = [pc EXCEPT ![p] = "leave"]
           /\ date' = date /\ dirs' = dirs /\ fails > 0 /\ fails' = fails - 1
BY DEF Prepare, Go, Types

(* What the others do to it.                                               *)
LEMMA CopyMade ==
    ASSUME Types, NEW p \in Runs, Copy(p)
    PROVE  /\ Made \subseteq Made' /\ Made' \subseteq Made \cup {date[p]}
           /\ \A d \in Dates \ {date[p]} : dirs'[d] = dirs[d]
BY DEF Types, Copy, Made

LEMMA OrphanMade ==
    ASSUME Types, NEW p \in Runs, OrphanEnds(p)
    PROVE  /\ Made \subseteq Made' /\ Made' \subseteq Made \cup {date[p]}
           /\ \A d \in Dates \ {date[p]} : dirs'[d] = dirs[d]
BY DEF Types, OrphanEnds, Made

LEMMA RemoveMade ==
    ASSUME Types, NEW p \in Runs, RemoveOldest(p), Made # {}
    PROVE  \E d \in Made :
               /\ Oldest(d) /\ \A e \in Dates \ {d} : dirs'[e] = dirs[e]
               /\ \/ /\ Made' = Made \ {d} /\ dirs'[d] = "no"
                     /\ current' = IF current = d THEN 0 ELSE current
                  \/ /\ Made' = Made /\ dirs'[d] = "torn" /\ current' = current
                     /\ \E q \in Runs : date[q] = d /\ pc[q] \in {"copy", "orphan"}
<1>1. PICK d \in Made :
            /\ Oldest(d)
            /\ \/ /\ dirs' = [dirs EXCEPT ![d] = "no"]
                  /\ current' = IF current = d THEN 0 ELSE current
               \/ /\ \E q \in Runs : date[q] = d /\ pc[q] \in {"copy", "orphan"}
                  /\ dirs' = [dirs EXCEPT ![d] = "torn"]
                  /\ UNCHANGED current
  BY DEF RemoveOldest
<1>2. d \in Dates /\ dirs \in [Dates -> {"no", "part", "torn", "good"}] /\ dirs[d] # "no"
  BY DEF Made, Types
<1>3. CASE dirs' = [dirs EXCEPT ![d] = "no"] /\ current' = IF current = d THEN 0 ELSE current
  <2>1. Made' = Made \ {d} /\ dirs'[d] = "no" /\ \A e \in Dates \ {d} : dirs'[e] = dirs[e]
    BY <1>2, <1>3 DEF Made
  <2> QED BY <1>1, <1>3, <2>1
<1>4. CASE /\ \E q \in Runs : date[q] = d /\ pc[q] \in {"copy", "orphan"}
           /\ dirs' = [dirs EXCEPT ![d] = "torn"] /\ UNCHANGED current
  <2>1. Made' = Made /\ dirs'[d] = "torn" /\ \A e \in Dates \ {d} : dirs'[e] = dirs[e]
    BY <1>2, <1>4 DEF Made
  <2> QED BY <1>1, <1>4, <2>1
<1> QED BY <1>1, <1>3, <1>4

LEMMA RemoveFewer ==
    ASSUME Types, NEW p \in Runs, RemoveOldest(p)
    PROVE  Made' \subseteq Made
<1>1. CASE Made = {}
  <2>1. dirs' = dirs
    BY <1>1 DEF RemoveOldest
  <2> QED BY <2>1 DEF Made
<1>2. CASE Made # {}
  BY <1>2, RemoveMade
<1> QED BY <1>1, <1>2

(* Steps that give no date.                                                *)
LEMMA SameDates ==
    ASSUME DatesGiven, date' = date,
           \A q \in Runs : pc'[q] \in Undated => pc[q] \in Undated,
           \A q \in Runs : pc'[q] \in Dating \cup {"orphan"} => pc[q] \in Dating \cup {"orphan"},
           \A d \in Made' : d \in Made \/ \E q \in Runs : d = date[q]
    PROVE  DatesGiven' /\ Last' = Last
<1>1. Last' = Last
  BY DEF Last
<1> QED BY <1>1 DEF DatesGiven

LEMMA StepDates == Types /\ DatesGiven /\ [Next]_vars => DatesGiven'
<1> SUFFICES ASSUME Types, DatesGiven, [Next]_vars PROVE DatesGiven'
  OBVIOUS
<1> USE DEF Go, queue, store, bounds, past, Dating, Undated
<1>1. CASE UNCHANGED vars
  BY <1>1, SameDates DEF vars, Made
<1>2. CASE PageLooks \/ PageRemoves \/ Reuse
  BY <1>2, SameDates DEF PageLooks, PageRemoves, Reuse, Made
<1>3. ASSUME NEW p \in Runs, Start(p) \/ Kill(p) PROVE DatesGiven'
  BY <1>3, SameDates DEF Start, Kill, Made, Types
<1>4. ASSUME NEW p \in Runs, Enter(p) PROVE DatesGiven'
  BY <1>4, SameDates DEF Enter, Lock, Queued, Claim, Unlock, Made, Types
<1>5. ASSUME NEW p \in Runs, Cleanup(p) PROVE DatesGiven'
  BY <1>5, SameDates DEF Cleanup, Lock, RemovePid, Unlock, Made, Types
<1>6. ASSUME NEW p \in Runs, Unlink(p) \/ Link(p) \/ Count(p) \/ Cleaned(p) PROVE DatesGiven'
  BY <1>6, SameDates DEF Unlink, Link, Count, Cleaned, Made, Types
<1>7. ASSUME NEW p \in Runs, Copy(p) PROVE DatesGiven'
  <2>1. \A d \in Made' : d \in Made \/ d = date[p]
    BY <1>7, CopyMade
  <2> QED BY <1>7, <2>1, SameDates DEF Copy, Types
<1>8. ASSUME NEW p \in Runs, OrphanEnds(p) PROVE DatesGiven'
  <2>1. \A d \in Made' : d \in Made \/ d = date[p]
    BY <1>8, OrphanMade
  <2> QED BY <1>8, <2>1, SameDates DEF OrphanEnds, Types
<1>9. ASSUME NEW p \in Runs, RemoveOldest(p) PROVE DatesGiven'
  <2>1. Made' \subseteq Made
    BY <1>9, RemoveFewer
  <2> QED BY <1>9, <2>1, SameDates DEF RemoveOldest, Types
<1>10. ASSUME NEW p \in Runs, Prepare(p) PROVE DatesGiven'
  <2>1. CASE pc'[p] = "copy"
    <3>1. /\ pc[p] = "go" /\ pc' = [pc EXCEPT ![p] = "copy"]
          /\ date' = [date EXCEPT ![p] = Last + 1] /\ Last' = Last + 1
          /\ Made' = Made \cup {Last + 1}
      BY <1>10, <2>1, PrepareMade
    <3>2. Last \in Nat
      BY PreparedFinite
    <3>3. \A d \in Made' : d <= Last'
      <4>1. \A d \in Made : d \in Nat /\ d <= Last
        BY PreparedFinite DEF DatesGiven, Made, Dates
      <4> QED BY <3>1, <3>2, <4>1
    <3>4. date' \in [Runs -> Nat] /\ \A q \in Runs : date'[q] <= Last'
      BY <3>1, <3>2 DEF DatesGiven
    <3>5. /\ \A q \in Runs : pc'[q] \in Undated => date'[q] = 0
          /\ \A q \in Runs : pc'[q] \in Dating \cup {"orphan"} => date'[q] # 0
      BY <3>1, <3>2 DEF DatesGiven, Types
    <3>6. ASSUME NEW q \in Runs, NEW r \in Runs, date'[q] # 0, date'[q] = date'[r] PROVE q = r
      <4>1. \A x \in Runs : date[x] \in Nat /\ date[x] <= Last
        BY DEF DatesGiven
      <4>2. \A x \in Runs : date[x] # Last + 1
        BY <3>2, <4>1
      <4>3. /\ date'[p] = Last + 1
            /\ \A x \in Runs \ {p} : date'[x] = date[x]
        BY <3>1 DEF DatesGiven
      <4> QED BY <3>6, <4>2, <4>3 DEF DatesGiven
    <3> QED BY <3>3, <3>4, <3>5, <3>6 DEF DatesGiven
  <2>2. CASE pc'[p] # "copy"
    <3>1. pc[p] = "go" /\ pc' = [pc EXCEPT ![p] = "leave"] /\ date' = date /\ dirs' = dirs
      BY <1>10, <2>2, PrepareFails
    <3> QED BY <3>1, SameDates DEF Made, Types
  <2> QED BY <2>1, <2>2
<1> QED
  BY <1>1, <1>2, <1>3, <1>4, <1>5, <1>6, <1>7, <1>8, <1>9, <1>10
  DEF Next, Step, DoBackup, Clean

LEMMA StepStrays == Types /\ Strays /\ [Next]_vars => Strays'
<1> SUFFICES ASSUME Types, Strays, [Next]_vars PROVE Strays'
  OBVIOUS
<1> USE DEF Go, queue, store, bounds, past, Strays, Types
<1>1. CASE UNCHANGED vars \/ PageLooks \/ PageRemoves \/ Reuse
  BY <1>1 DEF vars, PageLooks, PageRemoves, Reuse
<1>2. ASSUME NEW p \in Runs, Start(p) \/ Enter(p) \/ Cleanup(p) \/ Kill(p) \/ OrphanEnds(p)
      PROVE  Strays'
  BY <1>2 DEF Start, Enter, Lock, Queued, Claim, Unlock, Cleanup, RemovePid, Kill, OrphanEnds
<1>3. ASSUME NEW p \in Runs, Prepare(p) \/ Copy(p) \/ Unlink(p) \/ Link(p) PROVE Strays'
  BY <1>3 DEF Prepare, Copy, Unlink, Link
<1>4. ASSUME NEW p \in Runs, Clean(p) PROVE Strays'
  BY <1>4 DEF Clean, Count, RemoveOldest, Cleaned, Orphans
<1> QED BY <1>1, <1>2, <1>3, <1>4 DEF Next, Step, DoBackup

-----------------------------------------------------------------------------
(* The store.                                                              *)

LEMMA OldFinite == IsFiniteSet(Old) /\ Cardinality(Old) \in Nat
<1>1. Old \in SUBSET Dates
  BY DEF Old, Made
<1> QED BY <1>1, DatesFinite

(* The newest dates are as many as Rotate says, or all there have been, so *)
(* that what clean_logs() counts as surplus is what there is besides.      *)
LEMMA OldAreSurplus ==
    ASSUME DatesGiven, Kept \subseteq Made, nlogs > 0
    PROVE  Cardinality(Old) = IF Surplus > 0 THEN Surplus ELSE 0
<1> DEFINE limit == nlogs - Mirror
<1>1. limit \in Nat /\ Last \in Nat /\ Last <= Cardinality(Runs) /\ Cardinality(Runs) \in Nat
  BY PreparedFinite
<1>2. Made \in SUBSET Dates /\ IsFiniteSet(Made) /\ Cardinality(Made) \in Nat
  BY MadeFinite
<1>3. CASE limit <= Last
  <2>1. Kept = (Last - limit + 1)..Last
    BY <1>1, <1>3 DEF Kept, Dates
  <2>2. Cardinality(Kept) = limit /\ IsFiniteSet(Kept)
    <3>1. Last - limit + 1 \in Int /\ Last \in Int
      BY <1>1
    <3>2. Cardinality((Last - limit + 1)..Last) =
            IF Last - limit + 1 > Last THEN 0 ELSE Last - (Last - limit + 1) + 1
      BY <3>1, FS_Interval, Zenon
    <3>3. IsFiniteSet((Last - limit + 1)..Last)
      BY <3>1, FS_Interval, Zenon
    <3> QED BY <1>1, <2>1, <3>2, <3>3
  <2>3. Made \cap Kept = Kept
    OBVIOUS
  <2>4. Cardinality(Made \ Kept) = Cardinality(Made) - Cardinality(Kept)
    BY <1>2, <2>3, FS_Difference
  <2>5. Cardinality(Old) = Cardinality(Made) - limit
    BY <2>2, <2>4 DEF Old
  <2>6. Surplus = Cardinality(Made) - limit
    BY <1>1, <1>2 DEF Surplus
  <2>7. Cardinality(Old) \in Nat
    BY OldFinite
  <2> QED BY <1>1, <1>2, <2>5, <2>6, <2>7
<1>4. CASE limit > Last
  <2>1. \A d \in Made : d \in Kept
    <3>1. \A d \in Made : d \in Dates /\ d \in Nat /\ d > 0 /\ d <= Last
      BY <1>1, <1>2 DEF DatesGiven, Dates
    <3>2. \A d \in Made : d > Last - limit
      BY <1>1, <1>4, <3>1
    <3> QED BY <3>1, <3>2 DEF Kept
  <2>2. Old = {} /\ Cardinality(Old) = 0
    BY <2>1, FS_EmptySet DEF Old
  <2>3. Made \subseteq 1..Last /\ IsFiniteSet(1..Last) /\ Cardinality(1..Last) = Last
    <3>1. Made \subseteq 1..Last
      BY <1>1, <1>2 DEF DatesGiven, Dates
    <3>2. 1 \in Int /\ Last \in Int
      BY <1>1
    <3>3. Cardinality(1..Last) = (IF 1 > Last THEN 0 ELSE Last - 1 + 1) /\ IsFiniteSet(1..Last)
      BY <3>2, FS_Interval, Zenon
    <3> QED BY <1>1, <3>1, <3>3
  <2>4. Cardinality(Made) <= Last
    BY <2>3, FS_Subset
  <2>5. ~(Surplus > 0)
    BY <1>1, <1>2, <1>4, <2>4 DEF Surplus
  <2> QED BY <2>2, <2>5
<1> QED BY <1>1, <1>3, <1>4

(* The oldest date is none of the newest ones, if any is not.              *)
LEMMA OldestIsOld ==
    ASSUME DatesGiven, NEW d \in Made, Oldest(d), Old # {}
    PROVE  d \in Old
<1>1. PICK e \in Made : e \notin Kept
  BY DEF Old
<1>2. d \in Dates /\ e \in Dates /\ d \in Nat /\ e \in Nat /\ d <= e /\ e <= Last
  BY PreparedFinite, MadeFinite DEF Oldest, DatesGiven, Dates
<1>3. nlogs # 0 /\ ~(e > Last - (nlogs - Mirror))
  BY <1>1, <1>2 DEF Kept
<1>4. ~(d > Last - (nlogs - Mirror))
  BY <1>2, <1>3, PreparedFinite
<1> QED BY <1>3, <1>4 DEF Kept, Old

(* Nothing wanted to be removed is among the newest.                       *)
LEMMA SomeOld ==
    ASSUME Types, NEW p \in Runs, tries[p] > 0, tries[p] <= Cardinality(Old)
    PROVE  Old # {}
<1>1. SUFFICES ASSUME Old = {} PROVE FALSE
  OBVIOUS
<1>2. Cardinality(Old) = 0
  BY <1>1, FS_EmptySet
<1> QED BY <1>2 DEF Types

(* Steps that leave the dates alone.                                       *)
LEMMA SameStore ==
    ASSUME Store, robbed = 0, dirs' = dirs, date' = date, strays' = strays,
           \A q \in Runs : \/ pc'[q] = pc[q] /\ tries'[q] = tries[q]
                           \/ pc'[q] \notin Dating \cup {"leave"}
    PROVE  Store'
<1>1. Made' = Made /\ Last' = Last /\ Kept' = Kept /\ Old' = Old
  BY DEF Made, Last, Kept, Old
<1>2. Cardinality(Old)' = Cardinality(Old)
  BY <1>1
<1> QED BY <1>1, <1>2 DEF Store, Dating

LEMMA StepRobbed == Types /\ [Next]_vars /\ robbed' = 0 => robbed = 0
BY DEF Types, Next, PageLooks, PageRemoves, Reuse, Start, Step, Enter, Lock, Queued, Claim, Unlock,
       DoBackup, Prepare, Copy, Unlink, Link, Clean, Count, RemoveOldest, Cleaned, Cleanup, RemovePid,
       Kill, OrphanEnds, vars, past

LEMMA CountStore ==
    ASSUME Types, Owner, DatesGiven, Store, robbed = 0, NEW p \in Runs, Count(p)
    PROVE  Store'
<1>1. /\ pc[p] = "count" /\ pc' = [pc EXCEPT ![p] = "clean"]
      /\ tries' = [tries EXCEPT ![p] = IF Surplus > 0 THEN Surplus ELSE 0]
      /\ dirs' = dirs /\ date' = date
  BY DEF Count, Go, store
<1>2. Made' = Made /\ Last' = Last /\ Kept' = Kept /\ Old' = Old
  BY <1>1 DEF Made, Last, Kept, Old
<1>3. Cardinality(Old)' = Cardinality(Old)
  BY <1>2
<1>4. nlogs > 0 /\ Kept \subseteq Made /\ date[p] = Last
  BY <1>1 DEF Store, Dating
<1>5. tries'[p] = Cardinality(Old) /\ Cardinality(Old) \in Nat
  BY <1>1, <1>4, OldAreSurplus, OldFinite DEF Types
<1>6. \A q \in Runs \ {p} : pc'[q] \notin Busy
  BY <1>1, Alone DEF Types, Busy
<1>7. pc'[p] = "clean"
  BY <1>1 DEF Types
<1> QED BY <1>2, <1>3, <1>4, <1>5, <1>6, <1>7, <1>1 DEF Store, Dating, Busy

LEMMA RemoveStore ==
    ASSUME Types, Owner, DatesGiven, Strays, Store, robbed = 0, NEW p \in Runs, RemoveOldest(p)
    PROVE  Store'
<1>1. /\ pc[p] = "clean" /\ pc' = pc /\ tries[p] > 0 /\ date' = date
      /\ tries' = [tries EXCEPT ![p] = tries[p] - 1] /\ strays' = strays
  BY DEF RemoveOldest, Go, past, Types
<1>2. /\ nlogs > 0 /\ Kept \subseteq Made /\ date[p] = Last /\ tries[p] <= Cardinality(Old)
      /\ strays = 0 => tries[p] = Cardinality(Old)
  BY <1>1 DEF Store, Dating
<1>3. Old # {} /\ IsFiniteSet(Old) /\ Cardinality(Old) \in Nat
  BY <1>1, <1>2, SomeOld, OldFinite
<1>4. PICK d \in Made :
        /\ Oldest(d)
        /\ \/ Made' = Made \ {d}
           \/ Made' = Made /\ \E q \in Runs : date[q] = d /\ pc[q] \in {"copy", "orphan"}
  BY <1>3, RemoveMade DEF Old
<1>5. d \in Old
  BY <1>3, <1>4, OldestIsOld
<1>6. Last' = Last /\ Kept' = Kept
  BY <1>1 DEF Last, Kept
<1>7. \A q \in Runs \ {p} : pc[q] \notin Busy
  BY <1>1, Alone DEF Busy
<1>8. tries'[p] = tries[p] - 1 /\ tries[p] \in Nat
  BY <1>1 DEF Types
<1>9. CASE Made' = Made \ {d}
  <2>1. Old' = Old \ {d}
    BY <1>6, <1>9 DEF Old
  <2>2. Cardinality(Old \ {d}) = Cardinality(Old) - 1
    BY <1>3, <1>5, FS_RemoveElement
  <2>3. Cardinality(Old)' = Cardinality(Old) - 1
    BY <2>1, <2>2
  <2>4. tries'[p] <= Cardinality(Old)' /\ (strays = 0 => tries'[p] = Cardinality(Old)')
    BY <1>2, <1>3, <1>8, <2>3
  <2>5. Kept' \subseteq Made'
    BY <1>2, <1>5, <1>6, <1>9 DEF Old
  <2> QED BY <1>1, <1>2, <1>6, <1>7, <2>4, <2>5 DEF Store, Dating, Busy
<1>10. CASE Made' = Made /\ \E q \in Runs : date[q] = d /\ pc[q] \in {"copy", "orphan"}
  <2>1. strays = 1
    BY <1>7, <1>1, <1>10 DEF Strays, Busy
  <2>2. Cardinality(Old)' = Cardinality(Old)
    BY <1>6, <1>10 DEF Old
  <2>3. tries'[p] <= Cardinality(Old)'
    BY <1>2, <1>3, <1>8, <2>2
  <2> QED BY <1>1, <1>2, <1>6, <1>7, <1>10, <2>1, <2>3 DEF Store, Dating, Busy
<1> QED BY <1>4, <1>9, <1>10

LEMMA CleanedStore ==
    ASSUME Types, Owner, DatesGiven, Store, robbed = 0, NEW p \in Runs, Cleaned(p)
    PROVE  Store'
<1>1. /\ pc[p] = "clean" /\ pc' = [pc EXCEPT ![p] = "leave"] /\ tries[p] = 0
      /\ dirs' = dirs /\ date' = date /\ tries' = tries /\ strays' = strays
  BY DEF Cleaned, Go, store, past
<1>2. Made' = Made /\ Last' = Last /\ Kept' = Kept
  BY <1>1 DEF Made, Last, Kept
<1>3. Kept \subseteq Made /\ (strays = 0 => Cardinality(Old) = 0)
  BY <1>1 DEF Store
<1>4. strays = 0 => Made = Kept
  <2>1. Cardinality(Old) = 0 => Old = {}
    BY OldFinite, FS_EmptySet
  <2> QED BY <1>3, <2>1 DEF Old
<1>5. \A q \in Runs \ {p} : pc'[q] \notin Busy
  BY <1>1, Alone DEF Types, Busy
<1>6. pc'[p] = "leave"
  BY <1>1 DEF Types
<1> QED BY <1>1, <1>2, <1>3, <1>4, <1>5, <1>6 DEF Store, Dating, Busy

(* A copy that ends, when its own run has become the only one that works   *)
(* or when it is left of one that is gone.                                 *)
LEMMA MoreMade ==
    ASSUME Types, DatesGiven, Store, robbed = 0, date' = date, tries' = tries, strays' = strays,
           Made \subseteq Made', Made' \in SUBSET Dates,
           \A q \in Runs : \/ pc'[q] = pc[q] \/ pc'[q] = "dead"
                           \/ pc[q] = "copy" /\ pc'[q] \in {"link", "unlink"},
           strays = 1 \/ \A q \in Runs : pc[q] \notin {"clean", "leave"}
    PROVE  Store'
<1>1. Last' = Last /\ Kept' = Kept /\ Old \subseteq Old'
  BY DEF Last, Kept, Old
<1>2. Cardinality(Old) <= Cardinality(Old)' /\ Cardinality(Old) \in Nat /\ Cardinality(Old)' \in Nat
  <2>1. Old' \in SUBSET Dates
    BY DEF Old
  <2>2. IsFiniteSet(Old') /\ Cardinality(Old') \in Nat
    BY <2>1, DatesFinite
  <2>3. Cardinality(Old) <= Cardinality(Old')
    BY <1>1, <2>2, FS_Subset
  <2> QED BY <2>2, <2>3, OldFinite
<1>3. Kept' \subseteq Made'
  BY <1>1 DEF Store
<1>4. ASSUME NEW q \in Runs
      PROVE  /\ pc'[q] \in Dating => date'[q] = Last'
             /\ pc'[q] \in {"count", "clean"} => nlogs > 0
             /\ pc'[q] = "clean" => tries'[q] <= Cardinality(Old)'
             /\ pc'[q] \in {"clean", "leave"} => strays' = 1
  <2>1. pc'[q] \in Dating => date'[q] = Last'
    BY <1>1 DEF Store, Dating
  <2>2. pc'[q] \in {"count", "clean"} => nlogs > 0 /\ pc'[q] = pc[q]
    BY DEF Store, Dating
  <2>3. pc'[q] = "clean" => tries'[q] <= Cardinality(Old)'
    <3>1. pc'[q] = "clean" => tries[q] <= Cardinality(Old) /\ tries[q] \in Nat
      BY <2>2 DEF Store, Types
    <3> QED BY <1>2, <3>1
  <2>4. pc'[q] \in {"clean", "leave"} => strays' = 1
    BY DEF Dating
  <2> QED BY <2>1, <2>2, <2>3, <2>4
<1> QED BY <1>3, <1>4 DEF Store

LEMMA StepStore ==
    Types /\ Owner /\ DatesGiven /\ Strays /\ Store /\ [Next]_vars => Store'
<1> SUFFICES ASSUME Types, Owner, DatesGiven, Strays, Store, [Next]_vars, robbed' = 0
             PROVE  Store'
  BY DEF Store
<1>0. robbed = 0
  BY StepRobbed
<1> USE DEF Go, queue, store, bounds, past
<1>1. CASE UNCHANGED vars
  BY <1>0, <1>1, SameStore DEF vars
<1>2. CASE PageLooks \/ PageRemoves \/ Reuse
  BY <1>0, <1>2, SameStore DEF PageLooks, PageRemoves, Reuse
<1>3. ASSUME NEW p \in Runs, Start(p) \/ Enter(p) \/ Cleanup(p) PROVE Store'
  <2>1. /\ dirs' = dirs /\ date' = date /\ tries' = tries /\ strays' = strays
        /\ \A q \in Runs : pc'[q] = pc[q] \/ pc'[q] \notin Dating \cup {"leave"}
    BY <1>3 DEF Start, Enter, Lock, Queued, Claim, Unlock, Cleanup, RemovePid, Dating, Types
  <2> QED BY <1>0, <2>1, SameStore
<1>4. ASSUME NEW p \in Runs, Kill(p) PROVE Store'
  <2>1. /\ dirs' = dirs /\ date' = date /\ strays' \in {strays, 1}
        /\ \A q \in Runs : \/ pc'[q] = pc[q] /\ tries'[q] = tries[q]
                           \/ pc'[q] \in {"orphan", "dead"}
    BY <1>4 DEF Kill, Types
  <2>2. Made' = Made /\ Last' = Last /\ Kept' = Kept /\ Old' = Old
    BY <2>1 DEF Made, Last, Kept, Old
  <2>3. Cardinality(Old)' = Cardinality(Old)
    BY <2>2
  <2>4. strays' = 0 => strays = 0
    BY <2>1
  <2> QED BY <1>0, <2>1, <2>2, <2>3, <2>4 DEF Store, Dating
<1>5. ASSUME NEW p \in Runs, Prepare(p) PROVE Store'
  <2>1. pc[p] = "go" /\ \A q \in Runs \ {p} : pc[q] \notin Busy
    BY <1>0, <1>5, Alone DEF Prepare, Busy
  <2>2. CASE pc'[p] = "copy"
    <3>1. /\ pc' = [pc EXCEPT ![p] = "copy"] /\ Made' = Made \cup {Last + 1} /\ Last' = Last + 1
          /\ date' = [date EXCEPT ![p] = Last + 1]
      BY <1>5, <2>2, PrepareMade
    <3>2. Kept' \subseteq Kept \cup {Last + 1}
      BY <3>1, PreparedFinite DEF Kept, Dates
    <3>3. Kept' \subseteq Made'
      BY <1>0, <3>1, <3>2 DEF Store
    <3>4. pc'[p] = "copy" /\ date'[p] = Last' /\ \A q \in Runs \ {p} : pc'[q] \notin Busy
      BY <2>1, <3>1 DEF Types, DatesGiven
    <3> QED BY <3>3, <3>4 DEF Store, Dating, Busy
  <2>3. CASE pc'[p] # "copy"
    <3>1. pc' = [pc EXCEPT ![p] = "leave"] /\ date' = date /\ dirs' = dirs
      BY <1>5, <2>3, PrepareFails
    <3>2. Made' = Made /\ Last' = Last /\ Kept' = Kept
      BY <3>1 DEF Made, Last, Kept
    <3>3. pc'[p] = "leave" /\ date'[p] = 0 /\ \A q \in Runs \ {p} : pc'[q] \notin Busy
      BY <2>1, <3>1 DEF Types, DatesGiven, Undated
    <3> QED BY <1>0, <3>2, <3>3 DEF Store, Dating, Busy
  <2> QED BY <2>2, <2>3
<1>6. ASSUME NEW p \in Runs, Copy(p) PROVE Store'
  <2>1. /\ pc[p] = "copy" /\ date' = date /\ tries' = tries /\ strays' = strays
        /\ pc'[p] \in {"link", "unlink"} /\ \A q \in Runs \ {p} : pc'[q] = pc[q]
    BY <1>6 DEF Copy, Types
  <2>2. \A q \in Runs : pc[q] \notin {"clean", "leave"}
    BY <1>0, <2>1, Alone DEF Busy
  <2>3. Made \subseteq Made' /\ Made' \in SUBSET Dates
    BY <1>6, CopyMade DEF Made
  <2> QED BY <1>0, <2>1, <2>2, <2>3, MoreMade DEF Dating
<1>7. ASSUME NEW p \in Runs, OrphanEnds(p) PROVE Store'
  <2>1. /\ pc[p] = "orphan" /\ date' = date /\ tries' = tries /\ strays' = strays
        /\ \A q \in Runs : pc'[q] = pc[q] \/ pc'[q] = "dead"
    BY <1>7 DEF OrphanEnds, Types
  <2>2. strays = 1
    BY <2>1 DEF Strays
  <2>3. Made \subseteq Made' /\ Made' \in SUBSET Dates
    BY <1>7, OrphanMade DEF Made
  <2> QED BY <1>0, <2>1, <2>2, <2>3, MoreMade
<1>8. ASSUME NEW p \in Runs, Unlink(p) \/ Link(p) PROVE Store'
  <2>1. /\ dirs' = dirs /\ date' = date /\ tries' = tries /\ strays' = strays
        /\ pc[p] \in {"unlink", "link"} /\ \A q \in Runs \ {p} : pc'[q] = pc[q]
        /\ \/ pc'[p] = "link"
           \/ pc'[p] = "count" /\ nlogs > 0
           \/ pc'[p] = "leave" /\ ~(nlogs > 0)
    BY <1>8 DEF Unlink, Link, Types
  <2>2. Made' = Made /\ Last' = Last /\ Kept' = Kept /\ Old' = Old
    BY <2>1 DEF Made, Last, Kept, Old
  <2>3. Cardinality(Old)' = Cardinality(Old)
    BY <2>2
  <2> QED BY <1>0, <2>1, <2>2, <2>3 DEF Store, Dating
<1>9. ASSUME NEW p \in Runs, Clean(p) PROVE Store'
  BY <1>0, <1>9, CountStore, RemoveStore, CleanedStore DEF Clean
<1> QED BY <1>1, <1>2, <1>3, <1>4, <1>5, <1>6, <1>7, <1>8, <1>9 DEF Next, Step, DoBackup

-----------------------------------------------------------------------------
(* The link "current".                                                     *)

LEMMA StepCurrent == Types /\ DatesGiven /\ CurrentType /\ [Next]_vars => CurrentType'
<1> SUFFICES ASSUME Types, DatesGiven, CurrentType, [Next]_vars PROVE CurrentType'
  OBVIOUS
<1> USE DEF CurrentType, Go, queue, store, bounds, past
<1>1. CASE UNCHANGED <<dirs, current>>
  BY <1>1 DEF Made
<1>2. ASSUME NEW p \in Runs, Prepare(p) PROVE CurrentType'
  <2>1. CASE pc'[p] = "copy"
    BY <1>2, <2>1, PrepareMade DEF Prepare
  <2>2. CASE pc'[p] # "copy"
    BY <1>1, <1>2, <2>2 DEF Prepare, Types
  <2> QED BY <2>1, <2>2
<1>3. ASSUME NEW p \in Runs, Copy(p) \/ OrphanEnds(p) PROVE CurrentType'
  BY <1>3, CopyMade, OrphanMade DEF Copy, OrphanEnds
<1>4. ASSUME NEW p \in Runs, Unlink(p) PROVE CurrentType'
  BY <1>4 DEF Unlink
<1>5. ASSUME NEW p \in Runs, Link(p) PROVE CurrentType'
  BY <1>5 DEF Link, Made
<1>6. ASSUME NEW p \in Runs, RemoveOldest(p) PROVE CurrentType'
  <2>1. CASE Made = {}
    BY <1>1, <1>6, <2>1 DEF RemoveOldest
  <2>2. CASE Made # {}
    BY <1>6, <2>2, RemoveMade
  <2> QED BY <2>1, <2>2
<1>7. ASSUME NEW p \in Runs, \/ Start(p) \/ Enter(p) \/ Cleanup(p) \/ Kill(p)
                             \/ Count(p) \/ Cleaned(p)
      PROVE  CurrentType'
  BY <1>1, <1>7
  DEF Start, Enter, Lock, Queued, Claim, Unlock, Cleanup, RemovePid, Kill, Count, Cleaned
<1>8. CASE PageLooks \/ PageRemoves \/ Reuse \/ UNCHANGED vars
  BY <1>1, <1>8 DEF PageLooks, PageRemoves, Reuse, vars
<1> QED BY <1>2, <1>3, <1>4, <1>5, <1>6, <1>7, <1>8 DEF Next, Step, DoBackup, Clean

(* Steps that leave the link alone, and whether the newest date is there.  *)
LEMMA SameLink ==
    ASSUME LinkMade, robbed = 0, date' = date, current' = current,
           Made' = Made \/ \A q \in Runs : /\ pc[q] \in Linked => date[q] # Last
                                           /\ pc'[q] \in Linked => pc[q] \in Linked,
           \A q \in Runs : /\ pc'[q] \in Linked => pc[q] \in Linked \/ date[q] = 0
                           /\ pc'[q] = "link" => pc[q] = "link" \/ current = 0
    PROVE  LinkMade'
<1>1. Last' = Last
  BY DEF Last
<1>2. Made' = Made => Newest' = Newest
  BY <1>1 DEF Newest
<1> QED BY <1>1, <1>2 DEF LinkMade

LEMMA StepLink ==
    Types /\ Owner /\ DatesGiven /\ Store /\ LinkMade /\ [Next]_vars => LinkMade'
<1> SUFFICES ASSUME Types, Owner, DatesGiven, Store, LinkMade, [Next]_vars, robbed' = 0
             PROVE  LinkMade'
  BY DEF LinkMade
<1>0. robbed = 0
  BY StepRobbed
<1> USE DEF Go, queue, store, bounds, past, Linked
<1>1. CASE UNCHANGED vars
  BY <1>0, <1>1, SameLink DEF vars, Made
<1>2. CASE PageLooks \/ PageRemoves \/ Reuse
  BY <1>0, <1>2, SameLink DEF PageLooks, PageRemoves, Reuse, Made
<1>3. ASSUME NEW p \in Runs, \/ Start(p) \/ Enter(p) \/ Cleanup(p) \/ Kill(p)
                             \/ Count(p) \/ Cleaned(p)
      PROVE  LinkMade'
  <2>1. /\ dirs' = dirs /\ date' = date /\ current' = current
        /\ \A q \in Runs : /\ pc'[q] \in Linked => pc[q] \in Linked
                           /\ pc'[q] = "link" => pc[q] = "link"
    BY <1>3 DEF Start, Enter, Lock, Queued, Claim, Unlock, Cleanup, RemovePid, Kill, Count,
                Cleaned, Types
  <2>2. Made' = Made
    BY <2>1 DEF Made
  <2> QED BY <1>0, <2>1, <2>2, SameLink
<1>4. ASSUME NEW p \in Runs, Prepare(p) PROVE LinkMade'
  <2>1. CASE pc'[p] = "copy"
    <3>1. /\ pc' = [pc EXCEPT ![p] = "copy"] /\ Last' = Last + 1
          /\ date' = [date EXCEPT ![p] = Last + 1] /\ current' = current
      BY <1>4, <2>1, PrepareMade DEF Prepare
    <3>2. \A q \in Runs : date[q] \in Nat /\ date[q] <= Last /\ Last \in Nat
      BY PreparedFinite DEF DatesGiven
    <3>3. \A q \in Runs \ {p} : pc'[q] = pc[q] /\ date'[q] # Last'
      BY <3>1, <3>2
    <3>4. pc'[p] = "copy"
      BY <2>1
    <3> QED BY <1>0, <3>1, <3>3, <3>4 DEF LinkMade
  <2>2. CASE pc'[p] # "copy"
    <3>1. /\ pc[p] = "go" /\ pc' = [pc EXCEPT ![p] = "leave"] /\ date' = date /\ dirs' = dirs
          /\ current' = current
      BY <1>4, <2>2, PrepareFails DEF Prepare
    <3>2. date[p] = 0 /\ Made' = Made
      BY <3>1 DEF DatesGiven, Undated, Made
    <3> QED BY <1>0, <3>1, <3>2, SameLink DEF Types
  <2> QED BY <2>1, <2>2
<1>5. ASSUME NEW p \in Runs, Copy(p) PROVE LinkMade'
  <2>1. /\ pc[p] = "copy" /\ date' = date /\ current' = current
        /\ pc'[p] \in {"link", "unlink"} /\ (pc'[p] = "link" => current = 0)
        /\ \A q \in Runs \ {p} : pc'[q] = pc[q]
    BY <1>5 DEF Copy, Types
  <2>2. date[p] = Last /\ date[p] # 0
    BY <1>0, <2>1 DEF Store, Dating, DatesGiven
  <2>3. \A q \in Runs : pc[q] \in Linked => date[q] # Last
    BY <2>1, <2>2 DEF DatesGiven
  <2> QED BY <1>0, <2>1, <2>3, SameLink
<1>6. ASSUME NEW p \in Runs, Unlink(p) PROVE LinkMade'
  <2>1. /\ pc[p] = "unlink" /\ date' = date /\ current' = 0 /\ dirs' = dirs
        /\ pc'[p] = "link" /\ \A q \in Runs \ {p} : pc'[q] = pc[q]
    BY <1>6 DEF Unlink, Types
  <2>2. date[p] = Last /\ date[p] # 0
    BY <1>0, <2>1 DEF Store, Dating, DatesGiven
  <2>3. \A q \in Runs : pc[q] \in Linked => date[q] # Last
    BY <2>1, <2>2 DEF DatesGiven
  <2>4. Last' = Last
    BY <2>1 DEF Last
  <2> QED BY <2>1, <2>3, <2>4 DEF LinkMade
<1>7. ASSUME NEW p \in Runs, Link(p) PROVE LinkMade'
  <2>1. /\ pc[p] = "link" /\ date' = date /\ dirs' = dirs
        /\ current' = IF current = 0 /\ date[p] \in Made THEN date[p] ELSE current
        /\ pc'[p] \in {"count", "leave"} /\ \A q \in Runs \ {p} : pc'[q] = pc[q]
    BY <1>7 DEF Link, Types
  <2>2. date[p] = Last /\ date[p] # 0 /\ current = 0
    BY <1>0, <2>1 DEF Store, Dating, DatesGiven, LinkMade
  <2>3. current' = Newest
    BY <2>1, <2>2 DEF Newest
  <2>4. Newest' = Newest /\ Last' = Last
    BY <2>1 DEF Newest, Last, Made
  <2>5. \A q \in Runs \ {p} : pc[q] # "link"
    BY <1>0, <2>1, Alone DEF Busy
  <2> QED BY <2>1, <2>3, <2>4, <2>5 DEF LinkMade
<1>8. ASSUME NEW p \in Runs, RemoveOldest(p) PROVE LinkMade'
  <2>1. pc[p] = "clean" /\ pc' = pc /\ date' = date
    BY <1>8 DEF RemoveOldest, Types
  <2>2. date[p] = Last /\ date[p] # 0
    BY <1>0, <2>1 DEF Store, Dating, DatesGiven
  <2>3. current = Newest /\ \A q \in Runs : pc[q] # "link"
    <3>1. \A q \in Runs : pc[q] = "link" => q = p
      BY <1>0, <2>1, Alone DEF Busy
    <3> QED BY <1>0, <2>1, <2>2, <3>1 DEF LinkMade
  <2>4. CASE Made = {}
    BY <1>0, <1>8, <2>1, <2>4, SameLink DEF RemoveOldest, Made
  <2>5. CASE Made # {}
    <3>1. PICK d \in Made :
            \/ Made' = Made \ {d} /\ current' = IF current = d THEN 0 ELSE current
            \/ Made' = Made /\ current' = current
      BY <1>8, <2>5, RemoveMade
    <3>2. Last' = Last
      BY <2>1 DEF Last
    <3>3. CASE Made' = Made /\ current' = current
      BY <1>0, <2>1, <3>3, SameLink
    <3>4. CASE Made' = Made \ {d} /\ current' = IF current = d THEN 0 ELSE current
      <4>1. current' = Newest'
        BY <2>2, <2>3, <3>1, <3>2, <3>4 DEF Newest
      <4> QED BY <2>1, <2>3, <4>1 DEF LinkMade
    <3> QED BY <3>1, <3>3, <3>4
  <2> QED BY <2>4, <2>5
<1>9. ASSUME NEW p \in Runs, OrphanEnds(p) PROVE LinkMade'
  <2>1. /\ pc[p] = "orphan" /\ date' = date /\ current' = current
        /\ pc' = [pc EXCEPT ![p] = "dead"]
    BY <1>9 DEF OrphanEnds
  <2>2. date[p] # 0 /\ Made \subseteq Made' /\ Made' \subseteq Made \cup {date[p]}
    BY <1>9, <2>1, OrphanMade DEF DatesGiven
  <2>3. CASE date[p] # Last
    <3>1. Newest' = Newest /\ Last' = Last
      BY <2>1, <2>2, <2>3 DEF Newest, Last
    <3> QED BY <1>0, <2>1, <3>1 DEF LinkMade, Types
  <2>4. CASE date[p] = Last
    <3>1. \A q \in Runs : pc[q] \in Linked => date[q] # Last
      BY <2>1, <2>2, <2>4 DEF DatesGiven
    <3> QED BY <1>0, <2>1, <3>1, SameLink DEF Types
  <2> QED BY <2>3, <2>4
<1> QED
  BY <1>1, <1>2, <1>3, <1>4, <1>5, <1>6, <1>7, <1>8, <1>9
  DEF Next, Step, DoBackup, Clean

-----------------------------------------------------------------------------
(* Copies cut short.                                                       *)

LEMMA FewerDates ==
    ASSUME NEW S \in SUBSET Dates, NEW T \in SUBSET S
    PROVE  Cardinality(T) <= Cardinality(S)
BY DatesFinite, FS_Subset

LEMMA OneMoreDate ==
    ASSUME NEW S \in SUBSET Dates, NEW T \in SUBSET Dates, NEW d, T \subseteq S \cup {d}
    PROVE  Cardinality(T) <= Cardinality(S) + 1
<1>0. IsFiniteSet(S) /\ Cardinality(S) \in Nat
  BY DatesFinite
<1>1. IsFiniteSet(S \cup {d}) /\ Cardinality(S \cup {d}) <= Cardinality(S) + 1
  <2>1. CASE d \in S
    <3>1. S \cup {d} = S
      BY <2>1
    <3> QED BY <1>0, <3>1
  <2>2. CASE d \notin S
    <3>1. IsFiniteSet(S \cup {d}) /\ Cardinality(S \cup {d}) = Cardinality(S) + 1
      BY <1>0, <2>2, FS_AddElement, Zenon
    <3> QED BY <1>0, <3>1
  <2> QED BY <2>1, <2>2
<1>2. Cardinality(T) <= Cardinality(S \cup {d})
  BY <1>1, FS_Subset
<1>3. Cardinality(S \cup {d}) \in Nat /\ Cardinality(S) \in Nat /\ Cardinality(T) \in Nat
  BY <1>0, <1>1, FS_CardinalityType, DatesFinite
<1> QED BY <1>1, <1>2, <1>3

LEMMA LeftoverDates ==
    DatesGiven => Leftover \in SUBSET Dates /\ Cardinality(Leftover) \in Nat
<1> SUFFICES ASSUME DatesGiven
             PROVE  Leftover \in SUBSET Dates /\ Cardinality(Leftover) \in Nat
  OBVIOUS
<1>1. \A p \in Orphans : date[p] \in Dates
  BY PreparedFinite DEF Orphans, DatesGiven, Dates
<1>2. Leftover \in SUBSET Dates
  BY <1>1 DEF Leftover
<1> QED BY <1>2, DatesFinite

LEMMA StepLeftovers ==
    Types /\ DatesGiven /\ DatesGiven' /\ FewLeftovers /\ [Next]_vars => FewLeftovers'
<1> SUFFICES ASSUME Types, DatesGiven, DatesGiven', FewLeftovers, [Next]_vars
             PROVE  FewLeftovers'
  OBVIOUS
<1> USE DEF Go, queue, store, bounds, past
<1> Bad \in Nat /\ Leftover \in SUBSET Dates /\ Cardinality(Leftover) \in Nat
  BY LeftoverDates DEF Bad, Types
<1> Leftover' \in SUBSET Dates /\ Cardinality(Leftover)' \in Nat
  <2>1. (Leftover \in SUBSET Dates /\ Cardinality(Leftover) \in Nat)'
    BY LeftoverDates, PTL
  <2> QED BY <2>1
<1>1. ASSUME Leftover' \subseteq Leftover, Bad' \in Nat, Bad' >= Bad PROVE FewLeftovers'
  <2>1. Cardinality(Leftover)' <= Cardinality(Leftover)
    BY <1>1, FewerDates
  <2> QED BY <1>1, <2>1 DEF FewLeftovers
<1>2. ASSUME NEW d, Leftover' \subseteq Leftover \cup {d}, Bad' = Bad + 1 PROVE FewLeftovers'
  <2>1. Cardinality(Leftover)' <= Cardinality(Leftover) + 1
    BY <1>2, OneMoreDate
  <2> QED BY <1>2, <2>1 DEF FewLeftovers
<1>3. ASSUME dirs' = dirs, date' = date, fails' = fails, kills' = kills,
             \A p \in Runs : /\ pc'[p] = "copy" <=> pc[p] = "copy"
                             /\ pc'[p] = "orphan" <=> pc[p] = "orphan"
      PROVE  FewLeftovers'
  <2>1. Leftover' = Leftover
    BY <1>3 DEF Leftover, Orphans, Dates
  <2>2. Bad' = Bad
    BY <1>3 DEF Bad
  <2> QED BY <1>1, <2>1, <2>2
<1>4. CASE UNCHANGED vars
  BY <1>3, <1>4 DEF vars
<1>5. CASE PageLooks \/ PageRemoves \/ Reuse
  BY <1>3, <1>5 DEF PageLooks, PageRemoves, Reuse
<1>6. ASSUME NEW p \in Runs, \/ Start(p) \/ Enter(p) \/ Cleanup(p) \/ Unlink(p) \/ Link(p)
                             \/ Count(p) \/ Cleaned(p)
      PROVE  FewLeftovers'
  BY <1>3, <1>6 DEF Types, Start, Enter, Lock, Queued, Claim, Unlock, Cleanup, RemovePid,
                    Unlink, Link, Count, Cleaned
<1>7. ASSUME NEW p \in Runs, Kill(p) PROVE FewLeftovers'
  <2>1. /\ dirs' = dirs /\ date' = date
        /\ \A q \in Runs \ {p} : pc'[q] = pc[q]
    BY <1>7 DEF Kill, Types
  <2>2. Leftover' \subseteq Leftover \cup {date[p]}
    BY <2>1 DEF Leftover, Orphans, Dates
  <2>3. Bad' = Bad + 1
    BY <1>7 DEF Kill, Bad, Types
  <2> QED BY <1>2, <2>2, <2>3
<1>8. ASSUME NEW p \in Runs, OrphanEnds(p) PROVE FewLeftovers'
  <2>1. /\ pc[p] = "orphan" /\ pc' = [pc EXCEPT ![p] = "dead"] /\ date' = date
        /\ fails' = fails /\ kills' = kills
    BY <1>8 DEF OrphanEnds
  <2>2. date[p] \in Leftover
    BY <2>1 DEF Leftover, Orphans
  <2>3. \A d \in Dates \ {date[p]} : dirs'[d] = dirs[d]
    BY <1>8, OrphanMade
  <2>4. Leftover' \subseteq Leftover
    <3> SUFFICES ASSUME NEW d \in Leftover', d # date[p] PROVE d \in Leftover
      BY <2>2
    <3>1. CASE \E q \in Runs : pc'[q] = "orphan" /\ d = date'[q]
      BY <2>1, <3>1 DEF Leftover, Orphans, Types
    <3>2. CASE /\ d \in Dates /\ dirs'[d] \in {"part", "torn"}
               /\ \A q \in Runs : pc'[q] = "copy" => date'[q] # d
      BY <2>1, <2>3, <3>2 DEF Leftover, Types
    <3> QED BY <3>1, <3>2 DEF Leftover, Orphans, Dates
  <2>5. Bad' = Bad
    BY <2>1 DEF Bad
  <2> QED BY <1>1, <2>4, <2>5
<1>9. ASSUME NEW p \in Runs, Prepare(p) PROVE FewLeftovers'
  <2>1. pc[p] = "go" /\ \A q \in Runs \ {p} : pc'[q] = pc[q]
    BY <1>9 DEF Prepare, Types
  <2>2. CASE pc'[p] = "copy"
    <3>1. /\ \A d \in Dates \ {Today} : dirs'[d] = dirs[d]
          /\ date' = [date EXCEPT ![p] = Today] /\ date \in [Runs -> Nat] /\ Today \in Nat
      BY <1>9, <2>1, <2>2, PrepareMade, TodayLater DEF DatesGiven
    <3>2. date'[p] = Today /\ \A q \in Runs \ {p} : date'[q] = date[q]
      BY <3>1
    <3>3. Leftover' \subseteq Leftover
      <4> SUFFICES ASSUME NEW d \in Leftover' PROVE d \in Leftover
        OBVIOUS
      <4>1. CASE \E q \in Runs : pc'[q] = "orphan" /\ d = date'[q]
        BY <2>1, <2>2, <3>2, <4>1 DEF Leftover, Orphans
      <4>2. CASE /\ d \in Dates /\ dirs'[d] \in {"part", "torn"}
                 /\ \A q \in Runs : pc'[q] = "copy" => date'[q] # d
        <5>1. d # Today
          BY <2>2, <3>2, <4>2
        <5> QED BY <2>1, <3>1, <3>2, <4>2, <5>1 DEF Leftover
      <4> QED BY <4>1, <4>2 DEF Leftover, Orphans, Dates
    <3>4. Bad' = Bad
      BY <1>9, <2>2, PrepareMade DEF Prepare, Bad
    <3> QED BY <1>1, <3>3, <3>4
  <2>3. CASE pc'[p] # "copy"
    <3>1. /\ dirs' = dirs /\ date' = date /\ fails > 0 /\ fails' = fails - 1 /\ kills' = kills
          /\ pc'[p] = "leave"
      BY <1>9, <2>3, PrepareFails DEF Prepare, Types
    <3>2. Leftover' = Leftover
      BY <2>1, <2>3, <3>1 DEF Leftover, Orphans, Dates
    <3>3. Bad' = Bad + 1
      BY <3>1 DEF Bad, Types
    <3>4. Bad' \in Nat /\ Bad' >= Bad
      BY <3>3
    <3> QED BY <1>1, <3>2, <3>4
  <2> QED BY <2>2, <2>3
<1>10. ASSUME NEW p \in Runs, Copy(p) PROVE FewLeftovers'
  <2>1. /\ date' = date /\ kills' = kills /\ pc'[p] \notin {"copy", "orphan"}
        /\ \A q \in Runs \ {p} : pc'[q] = pc[q]
    BY <1>10 DEF Copy, Types
  <2>2. CASE dirs' = [dirs EXCEPT ![date[p]] = "good"] /\ fails' = fails
    <3>1. Leftover' \subseteq Leftover
      BY <2>1, <2>2 DEF Leftover, Orphans, Dates, Types
    <3>2. Bad' = Bad
      BY <2>1, <2>2 DEF Bad
    <3> QED BY <1>1, <3>1, <3>2
  <2>3. CASE dirs' = dirs /\ fails > 0 /\ fails' = fails - 1
    <3>1. Leftover' \subseteq Leftover \cup {date[p]}
      BY <2>1, <2>3 DEF Leftover, Orphans, Dates
    <3>2. Bad' = Bad + 1
      BY <2>1, <2>3 DEF Bad, Types
    <3> QED BY <1>2, <3>1, <3>2
  <2> QED BY <1>10, <2>2, <2>3 DEF Copy
<1>11. ASSUME NEW p \in Runs, RemoveOldest(p) PROVE FewLeftovers'
  <2>1. date' = date /\ fails' = fails /\ kills' = kills /\ pc' = pc
    BY <1>11 DEF RemoveOldest, Types
  <2>2. Leftover' \subseteq Leftover
    <3>1. CASE Made = {}
      BY <1>11, <2>1, <3>1 DEF RemoveOldest, Leftover, Orphans, Dates
    <3>2. CASE Made # {}
      <4>1. PICK d \in Made :
              /\ \A e \in Dates \ {d} : dirs'[e] = dirs[e]
              /\ \/ dirs'[d] = "no"
                 \/ \E q \in Runs : date[q] = d /\ pc[q] \in {"copy", "orphan"}
        BY <1>11, <3>2, RemoveMade
      <4>2. CASE dirs'[d] = "no"
        BY <2>1, <4>1, <4>2 DEF Leftover, Orphans, Dates
      <4>3. CASE \E q \in Runs : date[q] = d /\ pc[q] \in {"copy", "orphan"}
        BY <2>1, <4>1, <4>3 DEF Leftover, Orphans, Dates
      <4> QED BY <4>1, <4>2, <4>3
    <3> QED BY <3>1, <3>2
  <2>3. Bad' = Bad
    BY <2>1 DEF Bad
  <2> QED BY <1>1, <2>2, <2>3
<1> QED
  BY <1>4, <1>5, <1>6, <1>7, <1>8, <1>9, <1>10, <1>11
  DEF Next, Step, DoBackup, Clean

-----------------------------------------------------------------------------
(* The invariant.                                                          *)

LEMMA InitIInv == Init => IInv
<1> SUFFICES ASSUME Init PROVE IInv
  OBVIOUS
<1>1. Types
  BY DEF Init, Types, Places
<1>2. OneInLock /\ Owner /\ Strays
  BY DEF Init, OneInLock, Owner, Strays, InLock, Busy
<1>3. Made = {} /\ CurrentType
  BY DEF Init, Made, CurrentType
<1>4. DatesGiven
  BY <1>3, PreparedFinite DEF Init, DatesGiven, Dating
<1>5. Last = 0
  <2>1. {p \in Runs : date[p] # 0} = {}
    BY DEF Init
  <2> QED BY <2>1, FS_EmptySet DEF Last
<1>6. Kept = {}
  BY <1>5, PreparedFinite DEF Kept, Dates
<1>7. Store /\ LinkMade
  BY <1>6 DEF Init, Store, LinkMade, Dating, Linked
<1>8. Leftover = {}
  BY DEF Init, Leftover, Orphans
<1>9. FewLeftovers
  BY <1>8, FS_EmptySet DEF Init, FewLeftovers, Bad
<1> QED BY <1>1, <1>2, <1>3, <1>4, <1>7, <1>9 DEF IInv

LEMMA NextIInv == IInv /\ [Next]_vars => IInv'
<1> SUFFICES ASSUME IInv, [Next]_vars PROVE IInv'
  OBVIOUS
<1>1. Types' /\ OneInLock' /\ Owner'
  BY StepTypes, StepInLock, StepOwner DEF IInv
<1>2. DatesGiven' /\ Strays' /\ Store'
  BY StepDates, StepStrays, StepStore DEF IInv
<1>3. LinkMade' /\ CurrentType' /\ FewLeftovers'
  BY <1>2, StepLink, StepCurrent, StepLeftovers DEF IInv
<1> QED BY <1>1, <1>2, <1>3 DEF IInv

LEMMA Invariance == Spec => []IInv
BY InitIInv, NextIInv, PTL DEF Spec

-----------------------------------------------------------------------------
(* What the invariant says of the backups.                                 *)

LEMMA OneBusy == IInv => OneBackup
<1> SUFFICES ASSUME IInv, robbed = 0 PROVE Cardinality({p \in Runs : pc[p] \in Busy}) <= 1
  BY DEF OneBackup
<1>1. \A p, q \in {r \in Runs : pc[r] \in Busy} : p = q
  BY DEF IInv, Owner
<1>2. CASE {p \in Runs : pc[p] \in Busy} = {}
  BY <1>2, FS_EmptySet
<1>3. CASE {p \in Runs : pc[p] \in Busy} # {}
  <2>1. PICK p \in Runs : {q \in Runs : pc[q] \in Busy} = {p}
    BY <1>1, <1>3
  <2>2. Cardinality({p}) = 1
    BY FS_Singleton
  <2>3. Cardinality({q \in Runs : pc[q] \in Busy}) = 1
    BY <2>1, <2>2, Zenon
  <2> QED BY <2>3
<1> QED BY <1>2, <1>3

LEMMA TypesOK == IInv => TypeOK
<1> SUFFICES ASSUME IInv PROVE TypeOK
  OBVIOUS
<1>1. date \in [Runs -> {0} \cup Dates]
  <2>1. \A p \in Runs : date[p] \in Nat /\ date[p] <= Cardinality(Runs)
    BY PreparedFinite DEF IInv, DatesGiven
  <2>2. \A p \in Runs : date[p] \in {0} \cup Dates
    BY <2>1, PreparedFinite DEF Dates
  <2> QED BY <2>2 DEF IInv, DatesGiven
<1> QED BY <1>1 DEF IInv, Types, CurrentType, TypeOK, Places

LEMMA RotateHolds == IInv => RotateKept
<1> SUFFICES ASSUME IInv, robbed = 0, NEW p \in Runs, pc[p] = "leave", date[p] # 0
             PROVE  Kept \subseteq Made /\ (nlogs = 0 \/ strays = 0 => Made = Kept)
  BY DEF RotateKept
<1>0. Store
  BY DEF IInv
<1>1. Kept \subseteq Made
  BY <1>0 DEF Store
<1>2. nlogs > 0 /\ strays = 0 => Made = Kept
  BY <1>0 DEF Store
<1>3. nlogs = 0 => Made \subseteq Kept
  BY MadeFinite DEF IInv, DatesGiven, Kept
<1>4. nlogs = 0 => Made = Kept
  BY <1>1, <1>3
<1>5. nlogs > 0 \/ nlogs = 0
  OBVIOUS
<1>6. strays = 0 => Made = Kept
  BY <1>2, <1>4, <1>5, Zenon
<1> QED BY <1>1, <1>4, <1>6, Zenon

LEMMA CurrentHolds == IInv => CurrentIsLast
<1> SUFFICES ASSUME IInv, robbed = 0, NEW p \in Runs, pc[p] \in Linked, date[p] = Last
             PROVE  current = IF Last \in Made THEN Last ELSE 0
  BY DEF CurrentIsLast
<1>1. CASE date[p] # 0
  BY <1>1 DEF IInv, LinkMade, Newest
<1>2. CASE date[p] = 0
  <2>1. Made = {}
    <3>1. \A d \in Made : d \in Nat /\ d > 0 /\ d <= Last
      BY PreparedFinite, MadeFinite DEF IInv, DatesGiven, Dates
    <3> QED BY <1>2, <3>1
  <2> QED BY <1>2, <2>1 DEF IInv, CurrentType
<1> QED BY <1>1, <1>2

(* clean_logs() wants to remove the oldest date only if there are more than*)
(* it should keep.  If that one was the only whole copy, the others would  *)
(* be leftovers, and those are fewer than the backups kept.                *)
LEMMA RemoveKeepsGood ==
    ASSUME IInv, NEW p \in Runs, RemoveOldest(p), robbed = 0,
           nlogs = 0 \/ Bad + Mirror < nlogs, HasGood
    PROVE  HasGood'
<1>1. PICK g \in Made : dirs[g] = "good"
  BY DEF HasGood
<1>2. PICK d \in Made : \A e \in Dates \ {d} : dirs'[e] = dirs[e]
  BY <1>1, RemoveMade DEF IInv
<1>3. CASE \E h \in Made \ {d} : dirs[h] = "good"
  <2>1. PICK h \in Made \ {d} : dirs[h] = "good"
    BY <1>3
  <2>2. h \in Dates /\ dirs'[h] = "good"
    BY <1>2, <2>1 DEF Made
  <2> QED BY <2>2 DEF HasGood, Made
<1>4. CASE \A h \in Made \ {d} : dirs[h] # "good"
  <2>1. /\ pc[p] = "clean" /\ tries[p] > 0 /\ tries[p] \in Nat /\ nlogs > 0
        /\ Kept \subseteq Made /\ tries[p] <= Cardinality(Old)
    BY DEF RemoveOldest, Go, IInv, Store, Types
  <2>2. Surplus > 0
    BY <2>1, OldAreSurplus DEF IInv
  <2>3. \A q \in Runs : pc[q] # "copy"
    BY <2>1, Alone DEF IInv, Busy
  <2>4. Made \subseteq Leftover \cup {d}
    <3> SUFFICES ASSUME NEW e \in Made \ {d} PROVE e \in Leftover
      OBVIOUS
    <3>1. e \in Dates /\ dirs[e] \in {"part", "torn"}
      BY <1>4 DEF IInv, Types, Made
    <3> QED BY <2>3, <3>1 DEF Leftover
  <2>5. Leftover \in SUBSET Dates /\ Cardinality(Leftover) \in Nat
    BY LeftoverDates DEF IInv
  <2>6. Cardinality(Made) <= Cardinality(Leftover) + 1
    BY <2>4, <2>5, MadeFinite, OneMoreDate
  <2>7. Cardinality(Leftover) <= Bad /\ Bad \in Nat
    BY DEF IInv, FewLeftovers, Bad, Types
  <2> QED BY <2>1, <2>2, <2>5, <2>6, <2>7, MadeFinite DEF Surplus
<1> QED BY <1>3, <1>4

LEMMA StepKeepsGood ==
    ASSUME IInv, [Next]_vars, robbed' = 0, nlogs = 0 \/ Bad' + Mirror < nlogs, HasGood
    PROVE  HasGood'
<1> USE DEF queue, store, bounds, past
<1>1. ASSUME dirs' = dirs PROVE HasGood'
  BY <1>1 DEF HasGood, Made
<1>2. ASSUME NEW p \in Runs, Prepare(p) PROVE HasGood'
  <2>1. CASE pc'[p] = "copy"
    <3>1. \A d \in Made : d \in Made' /\ dirs'[d] = dirs[d]
      <4>1. Today \notin Made
        BY <1>2, <2>1, PrepareMade, TodayLater DEF IInv
      <4> QED BY <1>2, <2>1, <4>1, PrepareMade, MadeFinite DEF IInv
    <3> QED BY <3>1 DEF HasGood
  <2>2. CASE pc'[p] # "copy"
    BY <1>1, <1>2, <2>2, PrepareFails DEF IInv
  <2> QED BY <2>1, <2>2
<1>3. ASSUME NEW p \in Runs, Copy(p) \/ OrphanEnds(p) PROVE HasGood'
  <2>1. \A d \in Made : dirs[d] = "good" => d \in Made' /\ dirs'[d] = "good"
    BY <1>3 DEF Copy, OrphanEnds, Made, IInv, Types
  <2> QED BY <2>1 DEF HasGood
<1>4. ASSUME NEW p \in Runs, RemoveOldest(p) PROVE HasGood'
  <2>1. robbed = 0 /\ Bad' = Bad
    BY <1>4 DEF RemoveOldest, Bad
  <2> QED BY <1>4, <2>1, RemoveKeepsGood
<1>5. ASSUME NEW p \in Runs, \/ Start(p) \/ Enter(p) \/ Cleanup(p) \/ Kill(p)
                             \/ Unlink(p) \/ Link(p) \/ Count(p) \/ Cleaned(p)
      PROVE  HasGood'
  BY <1>1, <1>5 DEF Start, Enter, Lock, Queued, Claim, Unlock, Cleanup, RemovePid, Kill,
                    Unlink, Link, Count, Cleaned
<1>6. CASE PageLooks \/ PageRemoves \/ Reuse \/ UNCHANGED vars
  BY <1>1, <1>6 DEF PageLooks, PageRemoves, Reuse, vars
<1> QED BY <1>2, <1>3, <1>4, <1>5, <1>6 DEF Next, Step, DoBackup, Clean

-----------------------------------------------------------------------------
(* exclusive(): whatever runs are started, killed and queued, at most one  *)
(* is between the claim of the pid file and cleanup(), until the status    *)
(* page removes the pid file of a process that runs.  The copy of a killed *)
(* run is not held back.                                                   *)
THEOREM BackupsExclude == Spec => []OneBackup
<1> QED BY Invariance, OneBusy, PTL

(* clean_logs(), for any number of runs, failures and kills: a run that is *)
(* done leaves the newest dates, as many as Rotate says, "mirror" being    *)
(* counted as one, and no others but where the copy of a killed run was in *)
(* the way; and from ln on "current" points to the newest date, if that is *)
(* there.                                                                  *)
THEOREM StoreIsKept == Spec => []StoreKept
<1>1. IInv => StoreKept
  BY TypesOK, RotateHolds, CurrentHolds DEF StoreKept
<1> QED BY <1>1, Invariance, PTL

(* No step of the script takes the last whole copy away as long as fewer   *)
(* copies failed or were cut short than backups are kept.                  *)
THEOREM GoodIsKept == Spec => GoodKept
<1>1. IInv /\ [Next]_vars =>
        [robbed' = 0 /\ (nlogs = 0 \/ Bad' + Mirror < nlogs) => (HasGood => HasGood')]_vars
  BY StepKeepsGood
<1> QED BY <1>1, Invariance, PTL DEF Spec, GoodKept
=============================================================================
