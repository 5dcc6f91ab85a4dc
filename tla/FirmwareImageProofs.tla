------------------------- MODULE FirmwareImageProofs -------------------------
(***************************************************************************)
(* What dns323-fw merges it splits again, for all parts, sizes, words and  *)
(* blocks: the invariant follows the parts through merge(), what lies      *)
(* where in the file until it is damaged, and what split() has saved.  The *)
(* checksum catches a changed byte: a parity argument on its columns.      *)
(***************************************************************************)
EXTENDS FirmwareImage, FiniteSetTheorems, SequenceTheorems, TLAPS

LEMMA ConstantTypes ==
    /\ Word \in Nat /\ Word > 0 /\ Block \in Nat /\ Block > 0 /\ Block % Word = 0
    /\ Types \subseteq {64, 128}
    /\ \A c \in Parts : Inputs[c] \subseteq Seq(Bits) \cup {None} /\ Max[c] \in Nat
    /\ MaxFlips \in Nat /\ MaxCuts \in Nat /\ MaxKills \in Nat
BY FirmwareAssumption

(* In force in every proof below.                                          *)
USE ConstantTypes

(* What a run of merge() or split() may still have to do.                  *)
Suffixes(t) ==
    IF t = 64
    THEN {<<"kernel", "initramfs", "defaults">>, <<"initramfs", "defaults">>, <<"defaults">>, <<>>}
    ELSE {<<"kernel", "initramfs", "sqimage", "defaults">>, <<"initramfs", "sqimage", "defaults">>,
          <<"sqimage", "defaults">>, <<"defaults">>, <<>>}
Listed(t) == IF t = 64 THEN Parts \ {"sqimage"} ELSE Parts
Left(q) == {q[k] : k \in 1..Len(q)}

Headers == [off : Nat, len : Nat, chk : [1..Word -> Bits]]

StateTypes ==
    /\ type \in {64, 128} /\ in \in [Parts -> Seq(Bits) \cup {None}]
    /\ pc \in {"merge", "merged", "split", "refused", "failed", "done"}
    /\ todo \in Suffixes(type) /\ sealed \in BOOLEAN
    /\ body \in Seq(Bits) /\ hd \in [Parts -> Headers]
    /\ out \in [Parts -> Seq(Bits)] /\ saved \subseteq Parts
BoundTypes == type \in Types /\ flips \in 0..MaxFlips /\ cuts \in 0..MaxCuts /\ kills \in 0..MaxKills

(* The parts that merge() has put into the file, when it went on or ended  *)
(* well.                                                                   *)
Merged ==
    IF pc = "merge" THEN Listed(type) \ Left(todo)
    ELSE IF sealed THEN Listed(type) ELSE {}

(* Their headers are right, and the files they were made from were.        *)
Headed ==
    \A c \in Merged :
        ~Refused(c) /\ hd[c].len = Len(Given(c)) /\ hd[c].chk = Checksum(Given(c))
Fits == \A c \in Parts : hd[c].len <= Max[c]

(* And until the file is damaged each lies where its header says.          *)
Whole == flips = MaxFlips /\ cuts = MaxCuts
InPlace(c) ==
    /\ hd[c].off + Len(Given(c)) <= Len(body)
    /\ \A k \in 1..Len(Given(c)) : body[hd[c].off + k] = Given(c)[k]
Laid == Whole => \A c \in Merged : InPlace(c)

(* split() works on finished files only, and what it saved of a whole one  *)
(* is right.                                                               *)
Split ==
    /\ pc \in {"split", "failed", "done"} \/ saved # {} => sealed
    /\ sealed => pc # "merge"
    /\ Whole => \A c \in saved : c \in Listed(type) /\ out[c] = Given(c)
    /\ Whole /\ sealed => pc \notin {"refused", "failed"}

IInv == StateTypes /\ BoundTypes /\ Headed /\ Fits /\ Laid /\ Split

(* What one changed byte, or a lost end, has left of it.                   *)
OffAt(c, x) ==
    /\ hd[c].off + Len(Given(c)) <= Len(body)
    /\ \A k \in 1..Len(Given(c)) : hd[c].off + k = x \/ body[hd[c].off + k] = Given(c)[k]
UpToEnd(c) ==
    /\ hd[c].off + Len(Given(c)) <= Len(body) + Lost
    /\ \A k \in 1..Len(Given(c)) :
           hd[c].off + k <= Len(body) => body[hd[c].off + k] = Given(c)[k]
Damaged ==
    /\ pc = "merge" => Whole
    /\ flips = MaxFlips - 1 /\ cuts = MaxCuts => \E x \in Int : \A c \in Merged : OffAt(c, x)
    /\ flips = MaxFlips => \A c \in Merged : UpToEnd(c)

(* And what split() made of that.                                          *)
Checked ==
    /\ saved # {} => pc \notin {"merge", "merged"}
    /\ \A c \in saved :
           /\ c \in Listed(type) /\ out[c] = Copied(body, hd[c].off, hd[c].len)
           /\ Agrees(out[c], hd[c].chk)

-----------------------------------------------------------------------------
(* What readwrite() copies.                                                *)

(* Blocks that are filled up reach beyond what is there.                   *)
LEMMA RoundUp ==
    ASSUME NEW n \in Nat
    PROVE  ((n + Block - 1) \div Block) * Block \in Nat /\ ((n + Block - 1) \div Block) * Block >= n
<1> DEFINE q == (n + Block - 1) \div Block
           r == (n + Block - 1) % Block
<1>1. n + Block - 1 \in Nat
  OBVIOUS
<1>2. q \in Nat /\ r \in 0..(Block - 1) /\ n + Block - 1 = Block * q + r
  BY <1>1
<1>3. Block * q \in Nat /\ q * Block = Block * q
  BY <1>2
<1>4. Block * q >= n
  <2> HIDE DEF q, r
  <2> QED BY <1>2, <1>3
<1> QED BY <1>3, <1>4

LEMMA FilledBounds ==
    ASSUME NEW got \in Nat, NEW n \in Nat, got <= n
    PROVE  Filled(got, n) \in Nat /\ got <= Filled(got, n) /\ Filled(got, n) <= n
BY RoundUp DEF Filled, Min2

LEMMA CopiedType ==
    ASSUME NEW file \in Seq(Bits), NEW off \in Nat, NEW n \in Nat
    PROVE  Copied(file, off, n) \in Seq(Bits)
<1> DEFINE got == IF off >= Len(file) THEN 0 ELSE Min2(n, Len(file) - off)
<1>1. got \in Nat /\ got <= n /\ (got # 0 => off + got <= Len(file))
  BY DEF Min2
<1>2. PICK m \in Nat : m = Filled(got, n)
  BY <1>1, FilledBounds
<1>3. \A k \in 1..m : (IF k <= got THEN file[off + k] ELSE 0) \in Bits
  <2> SUFFICES ASSUME NEW k \in 1..m, k <= got PROVE file[off + k] \in Bits
    BY DEF Bits
  <2>1. off + k \in 1..Len(file)
    BY <1>1
  <2> QED BY <2>1, ElementOfSeq
<1>4. Copied(file, off, n) = [k \in 1..m |-> IF k <= got THEN file[off + k] ELSE 0]
  BY <1>2 DEF Copied
<1>5. [k \in 1..m |-> IF k <= got THEN file[off + k] ELSE 0] \in [1..m -> Bits]
  BY <1>3
<1> HIDE DEF got
<1> QED BY <1>4, <1>5, SeqDef

(* A part that lies whole in a file is copied as it is.                    *)
LEMMA CopyWhole ==
    ASSUME NEW file \in Seq(Bits), NEW off \in Nat, NEW s \in Seq(Bits), off + Len(s) <= Len(file),
           \A k \in 1..Len(s) : file[off + k] = s[k]
    PROVE  Copied(file, off, Len(s)) = s
<1> DEFINE got == IF off >= Len(file) THEN 0 ELSE Min2(Len(s), Len(file) - off)
<1>1. got = Len(s) /\ Len(s) \in Nat
  BY DEF Min2
<1>2. Filled(got, Len(s)) = Len(s)
  BY <1>1, FilledBounds
<1>3. Copied(file, off, Len(s)) = [k \in 1..Len(s) |-> IF k <= Len(s) THEN file[off + k] ELSE 0]
  BY <1>1, <1>2 DEF Copied
<1>4. [k \in 1..Len(s) |-> IF k <= Len(s) THEN file[off + k] ELSE 0] = [k \in 1..Len(s) |-> s[k]]
  BY <1>1
<1>5. s = [k \in 1..Len(s) |-> s[k]]
  BY LenProperties
<1> QED BY <1>3, <1>4, <1>5

LEMMA ChecksumType ==
    ASSUME NEW s \in Seq(Bits)
    PROVE  Checksum(s) \in [1..Word -> Bits]
<1> SUFFICES ASSUME NEW b \in 1..Word
             PROVE  Cardinality({j \in 0..(Words(s) - 1) : s[Word * j + b] = 1}) % 2 \in Bits
  BY DEF Checksum
<1>1. Words(s) \in Int
  BY LenProperties DEF Words
<1>2. IsFiniteSet(0..(Words(s) - 1))
  BY <1>1, FS_Interval
<1>3. Cardinality({j \in 0..(Words(s) - 1) : s[Word * j + b] = 1}) \in Nat
  BY <1>2, FS_Subset, FS_CardinalityType
<1> QED BY <1>3 DEF Bits

-----------------------------------------------------------------------------
(* The parts in turn.                                                      *)

LEMMA OrderLeft ==
    ASSUME NEW t \in {64, 128}
    PROVE  /\ Order(t) \in Suffixes(t) /\ Left(Order(t)) = Listed(t)
           /\ \A k \in DOMAIN Order(t) : Order(t)[k] \in Listed(t)
           /\ {"kernel", "initramfs"} \subseteq Listed(t) /\ Listed(t) \subseteq Parts
BY DEF Order, Suffixes, Left, Listed, Parts

LEMMA NextPart ==
    ASSUME NEW t \in {64, 128}, NEW q \in Suffixes(t), q # <<>>
    PROVE  /\ Tail(q) \in Suffixes(t) /\ Head(q) \in Listed(t) /\ Head(q) \in Left(q)
           /\ Left(Tail(q)) = Left(q) \ {Head(q)}
           /\ Len(q) <= 4 /\ Left(q) \subseteq Listed(t)
<1> USE DEF Suffixes, Left, Listed, Parts
<1>1. CASE q = <<"kernel", "initramfs", "sqimage", "defaults">>
  <2>1. Tail(q) = <<"initramfs", "sqimage", "defaults">> /\ Head(q) = "kernel"
    BY <1>1
  <2>2. Left(q) = Parts /\ Left(<<"initramfs", "sqimage", "defaults">>) = Parts \ {"kernel"}
    BY <1>1
  <2> QED BY <1>1, <2>1, <2>2
<1>2. CASE q = <<"initramfs", "sqimage", "defaults">>
  BY <1>2
<1>3. CASE q = <<"sqimage", "defaults">>
  BY <1>3
<1>4. CASE q = <<"defaults">>
  BY <1>4
<1>5. CASE q = <<"kernel", "initramfs", "defaults">>
  BY <1>5
<1>6. CASE q = <<"initramfs", "defaults">>
  BY <1>6
<1> QED BY <1>1, <1>2, <1>3, <1>4, <1>5, <1>6

LEMMA TodoTypes ==
    ASSUME StateTypes, todo # <<>>, todo' \in {todo, Tail(todo)}, type' = type
    PROVE  todo' \in Suffixes(type')
<1>1. type \in {64, 128} /\ todo \in Suffixes(type)
  BY DEF StateTypes
<1>2. Tail(todo) \in Suffixes(type)
  BY <1>1, NextPart
<1>3. todo' \in Suffixes(type)
  BY <1>1, <1>2
<1> QED BY <1>3

LEMMA NothingLeft == Left(<<>>) = {}
BY DEF Left

LEMMA GivenType ==
    ASSUME StateTypes, NEW c \in Parts
    PROVE  Given(c) \in Seq(Bits) /\ Len(Given(c)) \in Nat
<1>1. <<>> \in Seq(Bits)
  BY EmptySeq
<1>2. Given(c) \in Seq(Bits)
  BY <1>1 DEF StateTypes, Given
<1> QED BY <1>2, LenProperties

-----------------------------------------------------------------------------
(* Types.                                                                  *)

(* What savecomp() writes behind the file.                                 *)
LEMMA Appended ==
    ASSUME StateTypes, NEW c \in Parts, savecomp(c)
    PROVE  /\ body' = body \o Given(c)
           /\ hd' = [hd EXCEPT ![c] = [off |-> Len(body), len |-> Len(Given(c)),
                                       chk |-> Checksum(Given(c))]]
<1>1. Given(c) \in Seq(Bits) /\ Len(Given(c)) \in Nat
  BY GivenType
<1>2. Copied(Given(c), 0, Len(Given(c))) = Given(c)
  <2>1. PICK s \in Seq(Bits) : s = Given(c)
    BY <1>1
  <2>2. 0 \in Nat /\ 0 + Len(s) <= Len(s) /\ \A k \in 1..Len(s) : s[0 + k] = s[k]
    BY <1>1, <2>1
  <2>3. Copied(s, 0, Len(s)) = s
    BY <2>2, CopyWhole
  <2> QED BY <2>1, <2>3
<1> QED BY <1>2 DEF savecomp, Offset

LEMMA SavecompTypes ==
    ASSUME StateTypes, NEW c \in Parts, savecomp(c)
    PROVE  StateTypes'
<1>1. Given(c) \in Seq(Bits) /\ Len(Given(c)) \in Nat /\ body \in Seq(Bits) /\ Len(body) \in Nat
  BY GivenType, LenProperties DEF StateTypes
<1>2. body' = body \o Given(c)
  BY Appended
<1>3. body' \in Seq(Bits)
  BY <1>1, <1>2, ConcatProperties
<1>4. Checksum(Given(c)) \in [1..Word -> Bits]
  BY <1>1, ChecksumType
<1>5. [off |-> Len(body), len |-> Len(Given(c)), chk |-> Checksum(Given(c))] \in Headers
  BY <1>1, <1>4 DEF Headers
<1>6. hd' \in [Parts -> Headers]
  <2>1. hd' = [hd EXCEPT ![c] = [off |-> Len(body), len |-> Len(Given(c)),
                                 chk |-> Checksum(Given(c))]]
    BY Appended
  <2>2. hd \in [Parts -> Headers]
    BY DEF StateTypes
  <2> QED BY <1>5, <2>1, <2>2
<1>7. todo # <<>> /\ todo' = Tail(todo) /\ type' = type /\ in' = in
  BY DEF savecomp, Turn, args
<1>8. todo' \in Suffixes(type')
  BY <1>7, TodoTypes
<1>9. pc' = pc /\ sealed' = sealed /\ out' = out /\ saved' = saved
  BY DEF savecomp
<1>10. type \in {64, 128} /\ in \in [Parts -> Seq(Bits) \cup {None}]
       /\ pc \in {"merge", "merged", "split", "refused", "failed", "done"}
       /\ sealed \in BOOLEAN /\ out \in [Parts -> Seq(Bits)] /\ saved \subseteq Parts
  BY DEF StateTypes
<1> QED BY <1>3, <1>6, <1>7, <1>8, <1>9, <1>10 DEF StateTypes

LEMMA SavefileTypes ==
    ASSUME StateTypes, NEW c \in Parts, savefile(c)
    PROVE  StateTypes'
<1>1. body \in Seq(Bits) /\ hd[c].off \in Nat /\ hd[c].len \in Nat
  BY DEF StateTypes, Headers
<1>2. Copied(body, hd[c].off, hd[c].len) \in Seq(Bits)
  BY <1>1, CopiedType
<1>3. out' \in [Parts -> Seq(Bits)]
  BY <1>2 DEF savefile, StateTypes
<1>4. todo # <<>> /\ todo' \in {todo, Tail(todo)} /\ type' = type /\ in' = in
  BY DEF savefile, Turn, args
<1>5. todo' \in Suffixes(type')
  BY <1>4, TodoTypes
<1>6. pc' \in {pc, "failed"} /\ saved' \subseteq saved \cup {c}
  BY DEF savefile
<1>7. body' = body /\ hd' = hd /\ sealed' = sealed
  BY DEF savefile, fw
<1> QED BY <1>3, <1>4, <1>5, <1>6, <1>7 DEF StateTypes

LEMMA StepTypes == StateTypes /\ BoundTypes /\ [Next]_vars => StateTypes' /\ BoundTypes'
<1> SUFFICES ASSUME StateTypes, BoundTypes, [Next]_vars PROVE StateTypes' /\ BoundTypes'
  OBVIOUS
<1>3. ASSUME NEW c \in Parts, savecomp(c) \/ savefile(c) PROVE StateTypes' /\ BoundTypes'
  <2>1. BoundTypes'
    BY <1>3 DEF savecomp, savefile, BoundTypes, bounds, args
  <2> QED BY <1>3, <2>1, SavecompTypes, SavefileTypes
<1> USE DEF StateTypes, BoundTypes, args, fw, bounds, Turn
<1>1. CASE UNCHANGED vars
  BY <1>1 DEF vars
<1>2. CASE save_header
  BY <1>2 DEF save_header
<1>9. CASE Finish
  BY <1>9 DEF Finish
<1>8. CASE Kill
  BY <1>8 DEF Kill
<1>4. ASSUME NEW c \in Parts, GiveUp(c) PROVE StateTypes' /\ BoundTypes'
  BY <1>4 DEF GiveUp
<1>5. ASSUME NEW k \in 1..Len(body), Flip(k) PROVE StateTypes' /\ BoundTypes'
  <2>1. body[k] \in Bits
    BY <1>5, ElementOfSeq
  <2>2. 1 - body[k] \in Bits
    BY <2>1 DEF Bits
  <2>3. body' \in Seq(Bits)
    BY <1>5, <2>2, ExceptSeq DEF Flip
  <2> QED BY <1>5, <2>3 DEF Flip
<1>6. CASE Cut
  <2>1. body' \in Seq(Bits)
    <3>1. Len(body) \in Nat /\ Len(body) > 0
      BY <1>6, LenProperties DEF Cut
    <3>2. \A i \in 1..(Len(body) - 1) : body[i] \in Bits
      BY <3>1, ElementOfSeq
    <3> QED BY <1>6, <3>1, <3>2, SubSeqProperties DEF Cut
  <2> QED BY <1>6, <2>1 DEF Cut
<1>7. CASE Open
  BY <1>7, OrderLeft DEF Open
<1> QED BY <1>1, <1>2, <1>3, <1>4, <1>5, <1>6, <1>7, <1>8, <1>9 DEF Next

-----------------------------------------------------------------------------
(* What is in the file.                                                    *)

(* The steps after merge() leave the list of its parts as it is.           *)
LEMMA SameMerged ==
    ASSUME StateTypes, Split, [Next]_vars, \A c \in Parts : ~savecomp(c)
    PROVE  /\ Merged' \subseteq Merged /\ hd' = hd /\ args' = args
           /\ pc # "merge" => Merged' = Merged
<1> USE DEF args, fw, bounds, Turn
<1>1. CASE UNCHANGED vars
  BY <1>1 DEF vars, Merged
<1>2. CASE save_header
  BY <1>2, NothingLeft DEF save_header, Merged
<1>3. ASSUME NEW c \in Parts, GiveUp(c) PROVE Merged' = {} /\ hd' = hd /\ args' = args /\ pc = "merge"
  BY <1>3 DEF GiveUp, Merged, Split
<1>4. CASE Kill
  BY <1>4 DEF Kill, Merged, Split
<1>5. ASSUME NEW k \in 1..Len(body), Flip(k)
      PROVE  Merged' = Merged /\ hd' = hd /\ args' = args
  BY <1>5 DEF Flip, Merged
<1>6. CASE Cut \/ Open \/ Finish
  BY <1>6 DEF Cut, Open, Finish, Merged, StateTypes
<1>7. ASSUME NEW c \in Parts, savefile(c)
      PROVE  Merged' = Merged /\ hd' = hd /\ args' = args
  BY <1>7 DEF savefile, Merged
<1> QED BY <1>1, <1>2, <1>3, <1>4, <1>5, <1>6, <1>7 DEF Next

(* merge() adds one.                                                       *)
LEMMA OneMerged ==
    ASSUME StateTypes, NEW c \in Parts, savecomp(c)
    PROVE  Merged' = Merged \cup {c} /\ c \notin Merged /\ args' = args /\ ~Refused(c)
<1>1. pc = "merge" /\ pc' = "merge" /\ type' = type /\ todo' = Tail(todo) /\ c = Head(todo) /\ todo # <<>>
  BY DEF savecomp, Turn, args
<1>2. /\ Left(Tail(todo)) = Left(todo) \ {c} /\ c \in Left(todo) /\ c \in Listed(type)
  BY <1>1, NextPart DEF StateTypes
<1> QED BY <1>1, <1>2 DEF Merged, savecomp, args

(* A header that merge() wrote stays right.                                *)
LEMMA StepHeaded ==
    ASSUME StateTypes, Headed, Fits, Split, [Next]_vars
    PROVE  Headed' /\ Fits'
<1>1. CASE \A c \in Parts : ~savecomp(c)
  <2>1. Merged' \subseteq Merged /\ hd' = hd /\ type' = type /\ in' = in
    BY <1>1, SameMerged DEF args
  <2> QED BY <2>1 DEF Headed, Fits, Refused, Given, IsUboot
<1>2. ASSUME NEW c \in Parts, savecomp(c) PROVE Headed' /\ Fits'
  <2>1. Merged' = Merged \cup {c} /\ type' = type /\ in' = in /\ ~Refused(c)
    BY <1>2, OneMerged DEF args
  <2>2. hd \in [Parts -> Headers]
    BY DEF StateTypes
  <2>3. hd' = [hd EXCEPT ![c] = [off |-> Len(body), len |-> Len(Given(c)),
                                 chk |-> Checksum(Given(c))]]
    BY <1>2, Appended
  <2>4. hd'[c].len = Len(Given(c)) /\ hd'[c].chk = Checksum(Given(c))
    BY <2>2, <2>3
  <2>5. \A d \in Parts \ {c} : hd'[d] = hd[d]
    BY <2>2, <2>3
  <2>6. Len(Given(c)) <= Max[c]
    <3>1. ~(Len(Given(c)) > Max[c])
      BY <2>1 DEF Refused
    <3>2. Len(Given(c)) \in Nat /\ Max[c] \in Nat
      BY GivenType, ConstantTypes
    <3> QED BY <3>1, <3>2
  <2>7. Fits'
    BY <2>4, <2>5, <2>6 DEF Fits
  <2>8. \A d \in Parts : Given(d)' = Given(d) /\ Refused(d)' = Refused(d)
    BY <2>1 DEF Given, Refused, IsUboot
  <2>9. Merged \subseteq Parts
    BY DEF Merged, Listed
  <2>10. ASSUME NEW d \in Merged'
         PROVE  ~Refused(d)' /\ hd'[d].len = Len(Given(d)') /\ hd'[d].chk = Checksum(Given(d)')
    BY <2>1, <2>4, <2>5, <2>8, <2>9 DEF Headed
  <2> QED BY <2>7, <2>10 DEF Headed
<1> QED BY <1>1, <1>2

(* A part that is behind the file moves nothing that is in it.             *)
LEMMA StepLaid ==
    ASSUME StateTypes, BoundTypes, Laid, Split, [Next]_vars
    PROVE  Laid'
<1> SUFFICES ASSUME Whole' PROVE \A c \in Merged' : InPlace(c)'
  BY DEF Laid
<1>1. \A k \in 1..Len(body) : ~Flip(k)
  BY DEF Whole, Flip, BoundTypes
<1>2. ~Cut
  BY DEF Whole, Cut, BoundTypes
<1>3. Whole
  <2>1. CASE UNCHANGED vars
    BY <2>1 DEF vars, bounds, Whole
  <2>2. CASE Next
    BY <2>2, <1>1, <1>2 DEF Next, save_header, Kill, Open, Finish, savecomp, GiveUp, savefile, bounds, Whole
  <2> QED BY <2>1, <2>2
<1>4. \A c \in Merged : InPlace(c)
  BY <1>3 DEF Laid
<1>5. CASE \A c \in Parts : ~savecomp(c)
  <2>1. Merged' \subseteq Merged /\ hd' = hd /\ in' = in
    BY <1>5, SameMerged DEF args
  <2>2. body' = body
    <3>1. CASE UNCHANGED vars
      BY <3>1 DEF vars, fw
    <3>2. CASE Next
      BY <3>2, <1>1, <1>2, <1>5 DEF Next, save_header, Kill, Open, Finish, GiveUp, savefile, fw
    <3> QED BY <3>1, <3>2
  <2> QED BY <1>4, <2>1, <2>2 DEF InPlace, Given
<1>6. ASSUME NEW c \in Parts, savecomp(c), NEW d \in Merged' PROVE InPlace(d)'
  <2>1. Merged' = Merged \cup {c} /\ c \notin Merged /\ in' = in
    BY <1>6, OneMerged DEF args
  <2>2. hd \in [Parts -> Headers] /\ body \in Seq(Bits) /\ Merged \subseteq Parts
    BY OrderLeft DEF StateTypes, Merged
  <2>3. hd' = [hd EXCEPT ![c] = [off |-> Len(body), len |-> Len(Given(c)),
                                 chk |-> Checksum(Given(c))]]
    BY <1>6, Appended
  <2>4. body' = body \o Given(c) /\ Given(d)' = Given(d) /\ Given(c)' = Given(c)
    BY <1>6, <2>1, Appended DEF Given
  <2>5. /\ Given(c) \in Seq(Bits) /\ Len(Given(c)) \in Nat /\ Len(body) \in Nat
        /\ Len(body') = Len(body) + Len(Given(c))
        /\ \A i \in 1..(Len(body) + Len(Given(c))) :
               body'[i] = IF i <= Len(body) THEN body[i] ELSE Given(c)[i - Len(body)]
    BY <2>2, <2>4, GivenType, ConcatProperties, LenProperties
  <2>6. CASE d = c
    <3>1. hd'[d].off = Len(body)
      BY <2>2, <2>3, <2>6
    <3>2. \A k \in 1..Len(Given(d)) : body'[Len(body) + k] = Given(d)[k]
      BY <2>5, <2>6
    <3> QED BY <2>4, <2>5, <2>6, <3>1, <3>2 DEF InPlace
  <2>7. CASE d # c
    <3>1. d \in Merged /\ hd'[d] = hd[d] /\ hd[d].off \in Nat /\ Len(Given(d)) \in Nat
      BY <2>1, <2>2, <2>3, <2>7, GivenType DEF Headers
    <3>2. InPlace(d)
      BY <1>4, <3>1
    <3>3. \A k \in 1..Len(Given(d)) : body'[hd[d].off + k] = Given(d)[k]
      BY <2>5, <3>1, <3>2 DEF InPlace
    <3>4. hd[d].off + Len(Given(d)) <= Len(body')
      BY <2>5, <3>1, <3>2 DEF InPlace
    <3> QED BY <2>4, <3>1, <3>3, <3>4 DEF InPlace
  <2> QED BY <2>6, <2>7
<1> QED BY <1>5, <1>6

-----------------------------------------------------------------------------
(* What split() makes of it.                                               *)

(* What merge() takes for a kernel begins as one.                          *)
LEMMA TakenUboot ==
    ASSUME NEW c \in Uboot, ~Refused(c)
    PROVE  Len(Given(c)) > 0 /\ Given(c)[1] = 1
<1>1. FALSE \in BOOLEAN
  BY Zenon
<1>2. FALSE \notin IsUboot(Given(c), 0)
  BY Zenon DEF Refused
<1>3. Len(Given(c)) > 0
  BY <1>1, <1>2, Zenon DEF IsUboot
<1>4. IsUboot(Given(c), 0) = {Given(c)[0 + 1] = 1}
  BY <1>3, Zenon DEF IsUboot
<1>5. FALSE \notin {Given(c)[0 + 1] = 1}
  BY <1>2, <1>4, Zenon
<1>6. Given(c)[0 + 1] = 1
  BY <1>5, Zenon
<1> QED BY <1>3, <1>6

(* A finished file that is whole is opened.                                *)
LEMMA OwnAccepted ==
    ASSUME StateTypes, Headed, Laid, Split, Whole, sealed, Open
    PROVE  pc' = "split"
<1>1. Merged = Listed(type) /\ type \in {64, 128}
  BY DEF Merged, Split, StateTypes
<1>2. ASSUME NEW c \in Uboot PROVE IsUboot(body, hd[c].off) = {TRUE}
  <2>1. c \in Merged /\ c \in Parts
    BY <1>1 DEF Uboot, Listed, Parts
  <2>2. InPlace(c) /\ ~Refused(c)
    BY <2>1 DEF Laid, Headed
  <2>3. Given(c) \in Seq(Bits) /\ Len(Given(c)) \in Nat /\ hd[c].off \in Nat /\ Len(body) \in Nat
    BY <2>1, GivenType, LenProperties DEF StateTypes, Headers
  <2>4. Len(Given(c)) > 0 /\ Given(c)[1] = 1
    BY <1>2, <2>2, TakenUboot
  <2>5. body[hd[c].off + 1] = 1 /\ Len(body) > hd[c].off
    BY <2>2, <2>3, <2>4 DEF InPlace
  <2> QED BY <2>5 DEF IsUboot
<1>3. IsUboot(body, hd["kernel"].off) = {TRUE} /\ IsUboot(body, hd["initramfs"].off) = {TRUE}
  BY <1>2 DEF Uboot
<1> QED BY <1>3 DEF Open, Signature

(* And each of its parts is copied as it was given, and agrees.            *)
LEMMA OwnSaved ==
    ASSUME StateTypes, Headed, Laid, Split, Whole, NEW c \in Parts, savefile(c)
    PROVE  /\ c \in Listed(type) /\ out' = [out EXCEPT ![c] = Given(c)]
           /\ saved' = saved \cup {c} /\ pc' = pc
<1>1. pc = "split" /\ sealed /\ c = Head(todo) /\ todo # <<>> /\ type \in {64, 128} /\ todo \in Suffixes(type)
  BY DEF savefile, Turn, Split, StateTypes
<1>2. c \in Listed(type)
  BY <1>1, NextPart
<1>3. c \in Merged
  BY <1>1, <1>2 DEF Merged
<1>4. hd[c].len = Len(Given(c)) /\ hd[c].chk = Checksum(Given(c)) /\ InPlace(c)
  BY <1>3 DEF Headed, Laid
<1>5. Given(c) \in Seq(Bits) /\ hd[c].off \in Nat /\ body \in Seq(Bits)
  BY GivenType DEF StateTypes, Headers
<1>6. Copied(body, hd[c].off, Len(Given(c))) = Given(c)
  BY <1>4, <1>5, CopyWhole DEF InPlace
<1>7. out' = [out EXCEPT ![c] = Given(c)]
  BY <1>4, <1>6 DEF savefile
<1>8. out'[c] = Given(c)
  BY <1>7 DEF StateTypes
<1>9. Agrees(out'[c], hd[c].chk)
  BY <1>4, <1>8 DEF Agrees
<1> QED BY <1>2, <1>7, <1>9 DEF savefile

LEMMA StepSplit ==
    ASSUME StateTypes, BoundTypes, Headed, Laid, Split, [Next]_vars
    PROVE  Split'
<1>1. CASE UNCHANGED vars
  BY <1>1 DEF vars, args, fw, bounds, Split, Whole, Given
<1>2. CASE save_header
  BY <1>2 DEF save_header, args, bounds, Split, Whole, Given
<1>3. CASE Kill
  BY <1>3 DEF Kill, args, fw, Split, Whole, Given
<1>4. CASE Finish
  BY <1>4 DEF Finish, args, fw, bounds, Split, Whole, Given
<1>5. CASE Cut
  <2>1. ~Whole'
    BY <1>5 DEF Cut, Whole, BoundTypes
  <2> QED BY <1>5, <2>1 DEF Cut, Split
<1>6. ASSUME NEW k \in 1..Len(body), Flip(k) PROVE Split'
  <2>1. ~Whole'
    BY <1>6 DEF Flip, Whole, BoundTypes
  <2> QED BY <1>6, <2>1 DEF Flip, Split
<1>7. CASE Open
  <2>1. Whole /\ sealed => pc' = "split"
    BY <1>7, OwnAccepted
  <2>2. pc' \in {"split", "refused"} /\ (pc' = "split" => sealed)
    BY <1>7 DEF Open, Signature
  <2> QED BY <1>7, <2>1, <2>2 DEF Open, args, fw, bounds, Split, Whole, Given
<1>8. ASSUME NEW c \in Parts, GiveUp(c) PROVE Split'
  BY <1>8 DEF GiveUp, Turn, args, fw, bounds, Split, Whole, Given
<1>9. ASSUME NEW c \in Parts, savecomp(c) PROVE Split'
  BY <1>9 DEF savecomp, Turn, args, bounds, Split, Whole, Given
<1>10. ASSUME NEW c \in Parts, savefile(c) PROVE Split'
  <2>1. sealed' = sealed /\ sealed /\ pc = "split" /\ pc' \in {"split", "failed"} /\ type' = type
    BY <1>10 DEF savefile, Turn, Split, fw, args
  <2>2. \A d \in Parts : Given(d)' = Given(d)
    BY <1>10 DEF savefile, args, Given
  <2>3. Whole' = Whole
    BY <1>10 DEF savefile, bounds, Whole
  <2>4. CASE Whole
    <3>1. /\ c \in Listed(type) /\ out' = [out EXCEPT ![c] = Given(c)]
          /\ saved' = saved \cup {c} /\ pc' = pc
      BY <1>10, <2>4, OwnSaved
    <3>2. out'[c] = Given(c) /\ (\A d \in Parts \ {c} : out'[d] = out[d]) /\ saved \subseteq Parts
      BY <3>1 DEF StateTypes
    <3>3. \A d \in saved' : d \in Listed(type) /\ out'[d] = Given(d)
      BY <2>4, <3>1, <3>2 DEF Split
    <3>4. saved' \subseteq Parts
      BY <3>1, <3>2
    <3> QED BY <2>1, <2>2, <3>1, <3>3, <3>4 DEF Split
  <2>5. CASE ~Whole
    BY <2>1, <2>3, <2>5 DEF Split
  <2> QED BY <2>4, <2>5
<1> QED BY <1>1, <1>2, <1>3, <1>4, <1>5, <1>6, <1>7, <1>8, <1>9, <1>10 DEF Next

-----------------------------------------------------------------------------
(* The invariant.                                                          *)

LEMMA InitIInv == Init => IInv
<1> SUFFICES ASSUME Init PROVE IInv
  OBVIOUS
<1>1. type \in {64, 128} /\ todo = Order(type) /\ pc = "merge" /\ sealed = FALSE /\ saved = {}
  BY ConstantTypes DEF Init
<1>2. todo \in Suffixes(type) /\ Left(todo) = Listed(type)
  BY <1>1, OrderLeft
<1>3. NoPart \in Headers
  BY DEF NoPart, Headers, Bits
<1>4. in \in [Parts -> Seq(Bits) \cup {None}]
  BY ConstantTypes DEF Init
<1>5. body = << >> /\ << >> \in Seq(Bits)
  BY EmptySeq DEF Init
<1>6. StateTypes
  BY <1>1, <1>2, <1>3, <1>4, <1>5 DEF Init, StateTypes
<1>7. BoundTypes
  BY ConstantTypes DEF Init, BoundTypes
<1>8. Merged = {}
  BY <1>1, <1>2 DEF Merged
<1>9. Fits
  BY ConstantTypes DEF Init, Fits, NoPart
<1> QED BY <1>1, <1>6, <1>7, <1>8, <1>9 DEF IInv, Headed, Laid, Split

LEMMA NextIInv == IInv /\ [Next]_vars => IInv'
BY StepTypes, StepHeaded, StepLaid, StepSplit DEF IInv

LEMMA AlwaysIInv == Spec => []IInv
BY InitIInv, NextIInv, PTL DEF Spec

LEMMA TypesFollow == IInv => TypeOK
<1> SUFFICES ASSUME IInv PROVE TypeOK
  OBVIOUS
<1>1. StateTypes /\ BoundTypes /\ Fits
  BY DEF IInv
<1>2. \A c \in Parts : hd[c].off \in Nat /\ hd[c].len \in 0..Max[c]
  <2> SUFFICES ASSUME NEW c \in Parts PROVE hd[c].off \in Nat /\ hd[c].len \in 0..Max[c]
    OBVIOUS
  <2>1. hd[c].off \in Nat /\ hd[c].len \in Nat
    BY <1>1 DEF StateTypes, Headers
  <2> QED BY <1>1, <2>1, ConstantTypes DEF Fits
<1>3. Len(todo) <= 4
  <2>1. type \in {64, 128} /\ todo \in Suffixes(type)
    BY <1>1 DEF StateTypes
  <2>2. todo # <<>> => Len(todo) <= 4
    BY <2>1, NextPart
  <2> QED BY <2>2
<1> QED BY <1>1, <1>2, <1>3 DEF TypeOK, StateTypes, BoundTypes

(* dns323-fw.c:5,6: for files of every length, every word, every block and *)
(* all sizes allowed, split() saves of an undamaged file byte for byte     *)
(* what merge() put in, and turns down nothing that merge() finished.      *)
THEOREM MergeThenSplit == Spec => []SplitInverts
<1>1. IInv => SplitInverts
  <2> SUFFICES ASSUME IInv PROVE SplitInverts
    OBVIOUS
  <2>1. Split /\ BoundTypes
    BY DEF IInv
  <2>2. Flipped = 0 /\ Lost = 0 => Whole
    BY <2>1, ConstantTypes DEF Flipped, Lost, Whole, BoundTypes
  <2>3. RoundTrip
    BY <2>1, <2>2 DEF RoundTrip, Split
  <2>4. AcceptsOwn
    BY <2>1, <2>2 DEF AcceptsOwn, Split
  <2> QED BY <2>3, <2>4, TypesFollow DEF SplitInverts
<1> QED BY <1>1, AlwaysIInv, PTL

(* Whatever ended merge() early, a file it did not finish gives split()    *)
(* nothing: the header, with its signature, is the last thing written.     *)
THEOREM UnfinishedIsNothing == Spec => []NoHalfImage
<1>1. IInv => NoHalfImage
  <2> SUFFICES ASSUME IInv, saved # {} PROVE \A k \in DOMAIN Order(type) :
                    ~Refused(Order(type)[k]) /\ hd[Order(type)[k]].len = Len(Given(Order(type)[k]))
    BY DEF NoHalfImage
  <2>1. Merged = Listed(type)
    BY DEF IInv, Split, Merged
  <2>2. \A k \in DOMAIN Order(type) : Order(type)[k] \in Merged
    BY <2>1, OrderLeft DEF IInv, StateTypes
  <2> QED BY <2>2 DEF IInv, Headed
<1> QED BY <1>1, AlwaysIInv, PTL

-----------------------------------------------------------------------------
(* The checksum, the parity of each column of bytes.                       *)

(* A byte is in a word, at a place in it.                                  *)
LEMMA InWord ==
    ASSUME NEW W \in Nat, NEW p \in 1..(Word * W)
    PROVE  \E j \in 0..(W - 1), b \in 1..Word : p = Word * j + b
<1>1. PICK j \in Int, r \in Int : j = (p - 1) \div Word /\ r = (p - 1) % Word
  OBVIOUS
<1>2. r \in 0..(Word - 1) /\ p - 1 = Word * j + r
  BY <1>1
<1>3. j >= 0
  BY <1>1
<1>4. j <= W - 1
  <2>1. CASE j >= W
    <3>1. Word * j >= Word * W
      BY <2>1
    <3> QED BY <3>1, <1>2
  <2> QED BY <2>1
<1>5. r + 1 \in 1..Word /\ p = Word * j + (r + 1)
  BY <1>2
<1> QED BY <1>3, <1>4, <1>5

(* Two bytes of a column are a word apart.                                 *)
LEMMA Apart ==
    ASSUME NEW i \in Nat, NEW j \in Nat, i > j
    PROVE  Word * i - Word * j >= Word
<1>1. PICK d \in Nat : i = j + 1 + d
  BY i - j - 1 \in Nat
<1>2. Word * i = Word * j + Word + Word * d
  BY <1>1
<1>3. Word * d >= 0 /\ Word * j \in Nat /\ Word * d \in Nat
  OBVIOUS
<1> QED BY <1>2, <1>3

(* One byte more in a column changes its parity.                           *)
LEMMA OneMore ==
    ASSUME NEW A, IsFiniteSet(A), NEW j, j \notin A
    PROVE  Cardinality(A \cup {j}) % 2 # Cardinality(A) % 2
<1>1. Cardinality(A) \in Nat
  BY FS_CardinalityType
<1>2. Cardinality(A \cup {j}) = Cardinality(A) + 1
  BY FS_AddElement, Zenon
<1>3. \A n \in Nat : (n + 1) % 2 # n % 2
  OBVIOUS
<1> QED BY <1>1, <1>2, <1>3

LEMMA ParityDiffers ==
    ASSUME NEW S, NEW T, IsFiniteSet(S), IsFiniteSet(T),
           NEW j, (j \in S) # (j \in T), S \ {j} = T \ {j}
    PROVE  Cardinality(S) % 2 # Cardinality(T) % 2
<1>1. CASE j \in S
  <2>1. S = T \cup {j} /\ j \notin T
    BY <1>1
  <2> QED BY <2>1, OneMore
<1>2. CASE j \in T
  <2>1. T = S \cup {j} /\ j \notin S
    BY <1>2
  <2> QED BY <2>1, OneMore
<1> QED BY <1>1, <1>2

(* Files of as many words, with differences that are less than a word      *)
(* apart, so with one at most in a column, have different checksums.       *)
Column(s, b) == {j \in 0..(Words(s) - 1) : s[Word * j + b] = 1}

LEMMA WordsType ==
    ASSUME NEW s \in Seq(Bits)
    PROVE  Words(s) \in Nat /\ Word * Words(s) \in Nat /\ Word * Words(s) <= Len(s)
<1>1. Len(s) \in Nat
  BY LenProperties
<1>2. PICK m \in Int : m = Len(s) \div Word
  BY <1>1
<1>3. m \in Nat /\ Word * m \in Nat /\ Word * m <= Len(s)
  BY <1>1, <1>2
<1> QED BY <1>2, <1>3 DEF Words

LEMMA ColumnFinite == ASSUME NEW s \in Seq(Bits), NEW b PROVE IsFiniteSet(Column(s, b))
<1>1. Words(s) - 1 \in Int
  BY WordsType
<1>2. IsFiniteSet(0..(Words(s) - 1))
  BY <1>1, FS_Interval
<1> QED BY <1>2, FS_Subset DEF Column

LEMMA Caught ==
    ASSUME NEW s \in Seq(Bits), NEW t \in Seq(Bits), Words(s) = Words(t),
           \A p, q \in 1..(Word * Words(s)) : s[p] # t[p] /\ s[q] # t[q] => p - q < Word,
           Checksum(s) = Checksum(t)
    PROVE  WholeWords(s) = WholeWords(t)
<1>1. PICK W \in Nat : W = Words(s)
  BY WordsType
<1>2. ASSUME NEW p \in 1..(Word * W), s[p] # t[p] PROVE FALSE
  <2>1. PICK j \in 0..(W - 1), b \in 1..Word : p = Word * j + b
    BY InWord
  <2>2. ASSUME NEW i \in 0..(W - 1), i # j PROVE s[Word * i + b] = t[Word * i + b]
    <3> SUFFICES ASSUME s[Word * i + b] # t[Word * i + b] PROVE FALSE
      OBVIOUS
    <3>1. PICK q \in Int : q = Word * i + b
      OBVIOUS
    <3>2. q \in 1..(Word * W)
      <4>1. Word * W - Word * i >= Word
        BY Apart
      <4>2. Word * i >= 0
        OBVIOUS
      <4> QED BY <3>1, <4>1, <4>2
    <3>3. p - q < Word /\ q - p < Word
      BY <1>1, <1>2, <3>1, <3>2
    <3>4. p - q = Word * j - Word * i
      BY <2>1, <3>1
    <3>5. CASE i > j
      <4>1. Word * i - Word * j >= Word
        BY <3>5, Apart
      <4> QED BY <3>3, <3>4, <4>1
    <3>6. CASE j > i
      <4>1. Word * j - Word * i >= Word
        BY <3>6, Apart
      <4> QED BY <3>3, <3>4, <4>1
    <3> QED BY <2>2, <3>5, <3>6
  <2>3. Column(s, b) \ {j} = Column(t, b) \ {j}
    BY <1>1, <2>2 DEF Column
  <2>4. s[p] \in Bits /\ t[p] \in Bits
    <3>1. p \in 1..Len(s) /\ p \in 1..Len(t)
      BY <1>1, WordsType
    <3> QED BY <3>1, ElementOfSeq
  <2>5. (j \in Column(s, b)) # (j \in Column(t, b))
    BY <1>1, <1>2, <2>1, <2>4 DEF Column, Bits
  <2>6. Cardinality(Column(s, b)) % 2 # Cardinality(Column(t, b)) % 2
    BY <2>3, <2>5, ColumnFinite, ParityDiffers
  <2>7. Checksum(s)[b] = Cardinality(Column(s, b)) % 2 /\ Checksum(t)[b] = Cardinality(Column(t, b)) % 2
    BY DEF Checksum, Column
  <2> QED BY <2>6, <2>7
<1>3. Word * W \in Nat /\ Word * W <= Len(s) /\ Word * W <= Len(t)
  BY <1>1, WordsType
<1>4. /\ SubSeq(s, 1, Word * W) = [k \in 1..(Word * W) |-> s[k]]
      /\ SubSeq(t, 1, Word * W) = [k \in 1..(Word * W) |-> t[k]]
  BY <1>3, SubSeqProperties
<1> QED BY <1>1, <1>2, <1>4 DEF WholeWords

-----------------------------------------------------------------------------
(* Damage.                                                                 *)

(* After merge() only Flip and Cut change the file.                        *)
LEMMA SameBody ==
    ASSUME [Next]_vars, pc # "merge", ~Cut, \A k \in 1..Len(body) : ~Flip(k)
    PROVE  body' = body /\ flips' = flips /\ cuts' = cuts /\ pc' # "merge"
<1> USE DEF fw, bounds, Turn
<1>1. CASE UNCHANGED vars
  BY <1>1 DEF vars
<1>2. CASE Next
  BY <1>2 DEF Next, save_header, Kill, Open, Finish, savecomp, GiveUp, savefile
<1> QED BY <1>1, <1>2

(* And merge() works on a whole one.                                       *)
LEMMA MergeWhole ==
    ASSUME [Next]_vars, BoundTypes, Damaged
    PROVE  /\ pc' = "merge" => pc = "merge"
           /\ pc = "merge" => Whole /\ Whole'
<1> USE DEF bounds, Turn
<1>1. CASE UNCHANGED vars
  BY <1>1 DEF vars, Damaged, Whole
<1>2. CASE Next
  BY <1>2 DEF Next, save_header, Kill, Open, Finish, savecomp, GiveUp, savefile, Flip, Cut, Damaged, Whole
<1> QED BY <1>1, <1>2

(* A whole file is not damaged.                                            *)
LEMMA WholeUndamaged == StateTypes /\ BoundTypes /\ Whole /\ Laid => Damaged
<1> SUFFICES ASSUME StateTypes, BoundTypes, Whole, Laid PROVE Damaged
  OBVIOUS
<1>1. Lost = 0 /\ ~(flips = MaxFlips - 1)
  BY ConstantTypes DEF Lost, Whole, BoundTypes
<1>2. Len(body) \in Nat
  BY LenProperties DEF StateTypes
<1>3. \A c \in Merged : UpToEnd(c)
  BY <1>1, <1>2 DEF UpToEnd, Laid, InPlace
<1> QED BY <1>1, <1>3 DEF Damaged

LEMMA StepDamaged ==
    ASSUME StateTypes, StateTypes', BoundTypes, BoundTypes', Laid, Laid', Split, Damaged, [Next]_vars
    PROVE  Damaged'
<1>1. CASE Whole'
  BY <1>1, WholeUndamaged, PTL
<1>2. CASE ~Whole'
  <2>1. pc # "merge" /\ pc' # "merge"
    BY <1>2, MergeWhole
  <2>2. \A c \in Parts : ~savecomp(c)
    BY <2>1 DEF savecomp, Turn
  <2>3. Merged' = Merged /\ hd' = hd /\ in' = in /\ \A c : Given(c)' = Given(c)
    BY <2>1, <2>2, SameMerged DEF args, Given
  <2>4. body \in Seq(Bits) /\ Len(body) \in Nat /\ Merged \subseteq Parts
    BY LenProperties DEF StateTypes, Merged, Listed
  <2>5. \A c \in Merged : Len(Given(c)) \in Nat /\ hd[c].off \in Nat
    BY <2>4, GivenType DEF StateTypes, Headers
  <2>6. ASSUME NEW k \in 1..Len(body), Flip(k) PROVE Damaged'
    <3>1. flips' = flips - 1 /\ cuts' = cuts /\ body' = [body EXCEPT ![k] = 1 - @]
      BY <2>6 DEF Flip
    <3>2. flips' # MaxFlips
      BY <3>1 DEF BoundTypes
    <3>3. ASSUME flips' = MaxFlips - 1, cuts' = MaxCuts, NEW c \in Merged PROVE OffAt(c, k)'
      <4>1. InPlace(c)
        BY <3>1, <3>3 DEF BoundTypes, Whole, Laid
      <4>2. Len(body') = Len(body) /\ \A i \in 1..Len(body) : i = k \/ body'[i] = body[i]
        BY <2>4, <3>1, ExceptSeq
      <4>3. PICK g, h : g = Given(c) /\ h = hd[c]
        OBVIOUS
      <4>4. Given(c)' = g /\ hd'[c] = h
        BY <2>3, <4>3
      <4>5. h.off + Len(g) <= Len(body') /\ \A i \in 1..Len(g) : h.off + i = k \/ body'[h.off + i] = g[i]
        <5>1. Len(g) \in Nat /\ h.off \in Nat
          BY <2>5, <3>3, <4>3
        <5>2. h.off + Len(g) <= Len(body) /\ \A i \in 1..Len(g) : body[h.off + i] = g[i]
          BY <4>1, <4>3 DEF InPlace
        <5> QED BY <2>4, <4>2, <5>1, <5>2
      <4> QED BY <4>4, <4>5 DEF OffAt
    <3> QED BY <2>1, <2>3, <3>2, <3>3 DEF Damaged
  <2>7. CASE Cut
    <3>1. flips' = flips /\ cuts' = cuts - 1 /\ body' = SubSeq(body, 1, Len(body) - 1) /\ Len(body) > 0
      BY <2>4, <2>7, EmptySeq DEF Cut
    <3>2. cuts' # MaxCuts
      BY <3>1 DEF BoundTypes
    <3>3. Len(body') = Len(body) - 1 /\ \A i \in 1..(Len(body) - 1) : body'[i] = body[i]
      <4>1. \A i \in 1..(Len(body) - 1) : body[i] \in Bits
        BY <2>4, ElementOfSeq
      <4>2. PICK m \in Int : m = Len(body) - 1
        BY <2>4
      <4>3. /\ Len(SubSeq(body, 1, m)) = IF 1 <= m THEN m - 1 + 1 ELSE 0
            /\ \A i \in 1..(m - 1 + 1) : SubSeq(body, 1, m)[i] = body[1 + i - 1]
        BY <4>1, <4>2, SubSeqProperties
      <4>4. body' = SubSeq(body, 1, m) /\ m >= 0
        BY <2>4, <3>1, <4>2
      <4>5. Len(body') = m /\ \A i \in 1..m : body'[i] = body[i]
        BY <4>3, <4>4
      <4> QED BY <4>2, <4>5
    <3>4. Lost \in Int /\ Lost' = Lost + 1
      BY <3>1 DEF Lost, BoundTypes
    <3>5. ASSUME flips' = MaxFlips, NEW c \in Merged PROVE UpToEnd(c)'
      <4>1. UpToEnd(c)
        BY <3>1, <3>5 DEF Damaged
      <4>2. PICK g, h : g = Given(c) /\ h = hd[c]
        OBVIOUS
      <4>3. Given(c)' = g /\ hd'[c] = h
        BY <2>3, <4>2
      <4>4. PICK l \in Int : l = Lost
        BY <3>4
      <4>5. /\ h.off + Len(g) <= Len(body') + (l + 1)
            /\ \A k \in 1..Len(g) : h.off + k <= Len(body') => body'[h.off + k] = g[k]
        <5>1. Len(g) \in Nat /\ h.off \in Nat
          BY <2>5, <3>5, <4>2
        <5>2. /\ h.off + Len(g) <= Len(body) + l
              /\ \A k \in 1..Len(g) : h.off + k <= Len(body) => body[h.off + k] = g[k]
          BY <4>1, <4>2, <4>4 DEF UpToEnd
        <5>3. PICK m \in Int : m = Len(body)
          BY <2>4
        <5>4. PICK d : d = body'
          OBVIOUS
        <5>5. Len(d) = m - 1 /\ \A i \in 1..(m - 1) : d[i] = body[i]
          BY <3>3, <5>3, <5>4
        <5>6. h.off + Len(g) <= (m - 1) + (l + 1)
          BY <5>1, <5>2, <5>3
        <5>7. ASSUME NEW k \in 1..Len(g), h.off + k <= m - 1 PROVE d[h.off + k] = g[k]
          <6>1. h.off + k \in 1..(m - 1) /\ h.off + k <= m
            BY <5>1, <5>7
          <6> QED BY <5>2, <5>3, <5>5, <6>1
        <5> QED BY <5>3, <5>4, <5>5, <5>6, <5>7
      <4> QED BY <3>4, <4>3, <4>4, <4>5 DEF UpToEnd
    <3> QED BY <2>1, <2>3, <3>2, <3>5 DEF Damaged
  <2>8. CASE ~Cut /\ \A k \in 1..Len(body) : ~Flip(k)
    <3>1. body' = body /\ flips' = flips /\ cuts' = cuts
      BY <2>1, <2>8, SameBody
    <3>2. ASSUME NEW c \in Merged, NEW x \in Int, OffAt(c, x) PROVE OffAt(c, x)'
      BY <2>3, <3>1, <3>2 DEF OffAt, Given
    <3>3. ASSUME NEW c \in Merged, UpToEnd(c) PROVE UpToEnd(c)'
      BY <2>3, <3>1, <3>3 DEF UpToEnd, Lost, Given
    <3> QED BY <2>1, <2>3, <3>1, <3>2, <3>3 DEF Damaged
  <2> QED BY <2>6, <2>7, <2>8
<1> QED BY <1>1, <1>2

LEMMA StepChecked ==
    ASSUME StateTypes, Split, Checked, [Next]_vars
    PROVE  Checked'
<1> USE DEF Checked
<1>1. CASE UNCHANGED vars
  BY <1>1 DEF vars, args, fw
<1>2. CASE save_header \/ Kill \/ Cut
  BY <1>2 DEF save_header, Kill, Cut
<1>3. ASSUME NEW k \in 1..Len(body), Flip(k) PROVE Checked'
  BY <1>3 DEF Flip
<1>4. ASSUME NEW c \in Parts, savecomp(c) \/ GiveUp(c) PROVE Checked'
  BY <1>4 DEF savecomp, GiveUp, Turn
<1>5. CASE Open
  BY <1>5 DEF Open, args, fw
<1>6. CASE Finish
  BY <1>6 DEF Finish, args, fw
<1>7. ASSUME NEW c \in Parts, savefile(c) PROVE Checked'
  <2>1. /\ pc = "split" /\ pc' \in {"split", "failed"} /\ c = Head(todo) /\ todo # <<>>
        /\ body' = body /\ hd' = hd /\ type' = type
    BY <1>7 DEF savefile, Turn, args, fw
  <2>2. out' = [out EXCEPT ![c] = Copied(body, hd[c].off, hd[c].len)]
    BY <1>7 DEF savefile
  <2>3. out'[c] = Copied(body, hd[c].off, hd[c].len) /\ (\A d \in Parts \ {c} : out'[d] = out[d])
    BY <2>2 DEF StateTypes
  <2>4. saved' = saved \/ (saved' = saved \cup {c} /\ Agrees(out'[c], hd[c].chk))
    BY <1>7 DEF savefile
  <2>5. c \in Listed(type) /\ saved \subseteq Parts
    BY <2>1, NextPart DEF StateTypes
  <2>6. Copied(body', hd'[c].off, hd'[c].len) = Copied(body, hd[c].off, hd[c].len)
    BY <2>1
  <2>7. ASSUME NEW d \in saved', d # c
        PROVE  /\ d \in Listed(type') /\ out'[d] = Copied(body', hd'[d].off, hd'[d].len)
               /\ Agrees(out'[d], hd'[d].chk)
    BY <2>1, <2>3, <2>4, <2>5, <2>7
  <2>8. ASSUME c \in saved'
        PROVE  /\ c \in Listed(type') /\ out'[c] = Copied(body', hd'[c].off, hd'[c].len)
               /\ Agrees(out'[c], hd'[c].chk)
    <3>1. CASE saved' = saved
      <4>1. Agrees(out[c], hd[c].chk) /\ out'[c] = out[c]
        BY <2>3, <2>8, <3>1
      <4> QED BY <2>1, <2>3, <2>5, <4>1
    <3>2. CASE Agrees(out'[c], hd[c].chk)
      BY <2>1, <2>3, <2>5, <3>2
    <3> QED BY <2>4, <3>1, <3>2
  <2> QED BY <2>1, <2>7, <2>8
<1> QED BY <1>1, <1>2, <1>3, <1>4, <1>5, <1>6, <1>7 DEF Next

(* What is there of a part, when readwrite() copies it.                    *)
Got(file, off, n) == IF off >= Len(file) THEN 0 ELSE Min2(n, Len(file) - off)

LEMMA GotBounds ==
    ASSUME NEW file \in Seq(Bits), NEW off \in Nat, NEW n \in Nat
    PROVE  Got(file, off, n) \in Nat /\ Got(file, off, n) <= n
BY LenProperties DEF Got, Min2

LEMMA CopiedLength ==
    ASSUME NEW file \in Seq(Bits), NEW off \in Nat, NEW n \in Nat
    PROVE  Len(Copied(file, off, n)) = Filled(Got(file, off, n), n)
<1>1. PICK m \in Nat : m = Filled(Got(file, off, n), n)
  BY GotBounds, FilledBounds
<1>2. DOMAIN Copied(file, off, n) = 1..m
  BY <1>1 DEF Copied, Got
<1>3. PICK l \in Nat : l = Len(Copied(file, off, n)) /\ DOMAIN Copied(file, off, n) = 1..l
  BY CopiedType, LenProperties
<1>4. m > 0 => m \in 1..l
  BY <1>2, <1>3
<1>5. l > 0 => l \in 1..m
  BY <1>2, <1>3
<1> QED BY <1>1, <1>3, <1>4, <1>5

LEMMA CopiedByte ==
    ASSUME NEW file \in Seq(Bits), NEW off \in Nat, NEW n \in Nat,
           NEW k \in Nat \ {0}, k <= Got(file, off, n)
    PROVE  Copied(file, off, n)[k] = file[off + k]
<1>1. PICK got \in Nat : got = Got(file, off, n)
  BY GotBounds
<1>2. Filled(got, n) \in Nat /\ got <= Filled(got, n)
  BY <1>1, GotBounds, FilledBounds
<1>3. PICK m \in Nat : m = Filled(got, n)
  BY <1>2
<1>4. Copied(file, off, n) = [i \in 1..m |-> IF i <= got THEN file[off + i] ELSE 0]
  BY <1>1, <1>3 DEF Copied, Got
<1>5. k \in 1..m /\ k <= got
  BY <1>1, <1>2, <1>3
<1> QED BY <1>4, <1>5

LEMMA CopiedPart ==
    ASSUME NEW file \in Seq(Bits), NEW off \in Nat, NEW s \in Seq(Bits),
           NEW o, o = Copied(file, off, Len(s)), NEW got, got = Got(file, off, Len(s))
    PROVE  /\ o \in Seq(Bits) /\ Len(o) = Filled(got, Len(s)) /\ got <= Len(o)
           /\ \A k \in 1..Len(o) : k <= got => o[k] = file[off + k]
<1>1. PICK n \in Nat : n = Len(s)
  BY LenProperties
<1>2. o = Copied(file, off, n) /\ got = Got(file, off, n)
  BY <1>1
<1>3. got \in Nat /\ got <= n
  BY <1>2, GotBounds
<1>4. Len(o) = Filled(got, n)
  BY <1>2, CopiedLength
<1>5. got <= Len(o)
  BY <1>3, <1>4, FilledBounds
<1>6. o \in Seq(Bits)
  BY <1>2, CopiedType
<1>7. ASSUME NEW k \in 1..Len(o), k <= got PROVE o[k] = file[off + k]
  BY <1>2, <1>7, CopiedByte
<1> QED BY <1>1, <1>4, <1>5, <1>6, <1>7

(* When less than a word is missing all words are copied, for a block is a *)
(* number of words.                                                        *)
LEMMA FilledWords ==
    ASSUME NEW got \in Nat, NEW n \in Nat, got <= n, n - got < Word
    PROVE  Filled(got, n) \div Word = n \div Word
<1>1. PICK r \in Int : r = (got + Block - 1) \div Block
  OBVIOUS
<1>2. r * Block \in Nat /\ r * Block >= got
  BY <1>1, RoundUp
<1>3. CASE n <= r * Block
  BY <1>1, <1>2, <1>3 DEF Filled, Min2
<1>4. CASE r * Block < n
  <2>1. Filled(got, n) = r * Block
    BY <1>1, <1>2, <1>4 DEF Filled, Min2
  <2>2. PICK q \in Int : Block = Word * q
    <3>1. PICK q \in Int, m \in Int : q = Block \div Word /\ m = Block % Word
      BY ConstantTypes
    <3>2. Block = Word * q + m
      BY <3>1, ConstantTypes
    <3>3. m = 0
      BY <3>1, ConstantTypes
    <3> QED BY <3>2, <3>3
  <2>3. PICK m \in Int : m = r * q
    OBVIOUS
  <2>4. r * Block = Word * m
    BY <2>2, <2>3
  <2>5. Word * m <= n /\ n < Word * m + Word
    BY <1>2, <1>4, <2>4
  <2>6. n \div Word = m /\ (Word * m) \div Word = m
    BY <2>5
  <2> QED BY <2>1, <2>4, <2>6
<1> QED BY <1>2, <1>3, <1>4

(* dns323-fw.c:243 "saved, checksum is OK": for files of every length, one *)
(* changed byte, or a lost end shorter than a word, is never saved in a    *)
(* whole word of a part, unless its checksum is zero.                      *)
THEOREM DamageIsCaught == Spec => []DamageCaught
<1> DEFINE DInv == IInv /\ Damaged /\ Checked
<1>1. Init => Damaged /\ Checked
  <2>1. Init => Whole
    BY DEF Init, Whole
  <2>2. Init => Checked
    BY DEF Init, Checked
  <2> QED BY <2>1, <2>2, InitIInv, WholeUndamaged DEF IInv
<1>2. DInv /\ [Next]_vars => DInv'
  <2> SUFFICES ASSUME DInv, [Next]_vars PROVE DInv'
    OBVIOUS
  <2>1. IInv'
    BY NextIInv
  <2> QED BY <2>1, StepDamaged, StepChecked DEF IInv
<1>3. DInv => DamageCaught
  <2> SUFFICES ASSUME DInv,
                      (Flipped = 0 /\ Lost < Word) \/ (Flipped <= 1 /\ Lost = 0),
                      NEW c \in saved, hd[c].chk # NoPart.chk
               PROVE  WholeWords(out[c]) = WholeWords(Given(c))
    BY DEF DamageCaught
  <2>1. c \in Parts /\ c \in Merged
    BY DEF IInv, StateTypes, Checked, Split, Merged
  <2>2. PICK g, f, off, o : g = Given(c) /\ f = body /\ off = hd[c].off /\ o = out[c]
    OBVIOUS
  <2>3. g \in Seq(Bits) /\ f \in Seq(Bits) /\ off \in Nat /\ Len(g) \in Nat /\ Len(f) \in Nat
    BY <2>1, <2>2, GivenType, LenProperties DEF IInv, StateTypes, Headers
  <2>4. o = Copied(f, off, Len(g)) /\ Checksum(o) = Checksum(g)
    BY <2>1, <2>2 DEF IInv, Headed, Checked, Agrees
  <2>5. PICK got \in Nat : got = Got(f, off, Len(g)) /\ got <= Len(g)
    BY <2>3, GotBounds
  <2>6. /\ o \in Seq(Bits) /\ Len(o) = Filled(got, Len(g)) /\ got <= Len(o)
        /\ \A k \in 1..Len(o) : k <= got => o[k] = f[off + k]
    BY <2>3, <2>4, <2>5, CopiedPart
  <2>7. flips \in Int /\ cuts \in Int /\ MaxFlips \in Int /\ MaxCuts \in Int /\ flips <= MaxFlips
    BY ConstantTypes DEF IInv, BoundTypes
  <2>8. ASSUME Len(g) - got < Word,
               \A p, q \in 1..Len(g) : p <= Len(o) /\ o[p] # g[p] /\ q <= Len(o) /\ o[q] # g[q] => p - q < Word
        PROVE  WholeWords(o) = WholeWords(g)
    <3>1. Words(o) = Words(g)
      BY <2>3, <2>5, <2>6, <2>8, FilledWords DEF Words
    <3>2. 1..(Word * Words(o)) \subseteq 1..Len(o) /\ 1..(Word * Words(o)) \subseteq 1..Len(g)
      BY <2>3, <2>6, <3>1, WordsType, LenProperties
    <3>3. \A p, q \in 1..(Word * Words(o)) : o[p] # g[p] /\ o[q] # g[q] => p - q < Word
      BY <2>8, <3>2
    <3> QED BY <2>3, <2>4, <2>6, <3>1, <3>3, Caught
  <2>9. CASE Flipped = 0 /\ Lost < Word
    <3>1. UpToEnd(c) /\ Lost \in Int
      BY <2>1, <2>7, <2>9 DEF Damaged, Flipped, Lost
    <3>2. /\ off + Len(g) - Len(f) < Word
          /\ \A k \in 1..Len(g) : off + k <= Len(f) => f[off + k] = g[k]
      BY <2>2, <2>3, <2>9, <3>1 DEF UpToEnd
    <3>3. Len(g) - got < Word /\ (got > 0 => off + got <= Len(f))
      BY <2>3, <2>5, <3>2 DEF Got, Min2
    <3>4. \A k \in 1..Len(g) : k <= Len(o) /\ o[k] # g[k] => k > got
      <4> SUFFICES ASSUME NEW k \in 1..Len(g), k <= Len(o), k <= got PROVE o[k] = g[k]
        BY <2>3
      <4>1. k \in 1..Len(o) /\ off + k <= Len(f)
        BY <2>3, <2>6, <3>3, LenProperties
      <4> QED BY <2>6, <3>2, <4>1
    <3>5. \A p, q \in 1..Len(g) : p <= Len(o) /\ o[p] # g[p] /\ q <= Len(o) /\ o[q] # g[q] => p - q < Word
      BY <2>3, <3>3, <3>4
    <3> QED BY <2>2, <2>8, <3>3, <3>5
  <2>10. CASE Flipped = 1 /\ Lost = 0
    <3>1. PICK x \in Int : OffAt(c, x)
      BY <2>1, <2>7, <2>10 DEF Damaged, Flipped, Lost
    <3>2. off + Len(g) <= Len(f) /\ \A k \in 1..Len(g) : off + k = x \/ f[off + k] = g[k]
      BY <2>2, <3>1 DEF OffAt
    <3>3. got = Len(g)
      BY <2>3, <2>5, <3>2 DEF Got, Min2
    <3>4. \A k \in 1..Len(g) : k <= Len(o) /\ o[k] # g[k] => off + k = x
      <4> SUFFICES ASSUME NEW k \in 1..Len(g), k <= Len(o), off + k # x PROVE o[k] = g[k]
        OBVIOUS
      <4>1. k \in 1..Len(o) /\ k <= got
        BY <2>3, <2>6, <3>3, LenProperties
      <4> QED BY <2>6, <3>2, <4>1
    <3>5. \A p, q \in 1..Len(g) : p <= Len(o) /\ o[p] # g[p] /\ q <= Len(o) /\ o[q] # g[q] => p - q < Word
      <4> SUFFICES ASSUME NEW p \in 1..Len(g), NEW q \in 1..Len(g), off + p = x, off + q = x PROVE p - q < Word
        BY <3>4
      <4>1. p = q
        BY <2>3
      <4> QED BY <2>3, <4>1
    <3>6. Len(g) - got < Word
      BY <2>3, <3>3
    <3> QED BY <2>2, <2>8, <3>5, <3>6
  <2> QED BY <2>7, <2>9, <2>10 DEF Flipped, Lost
<1> HIDE DEF DInv
<1>4. Spec => []DInv
  <2>1. Init => DInv
    BY <1>1, InitIInv DEF DInv
  <2> QED BY <2>1, <1>2, PTL DEF Spec
<1> QED BY <1>3, <1>4, PTL
=============================================================================
