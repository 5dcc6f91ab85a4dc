---------------------------- MODULE FirmwareImage ---------------------------
(***************************************************************************)
(* dns323-fw: merge() puts kernel, initramfs, sqimage and defaults behind  *)
(* a header into a vendor's firmware file, split() takes them out again    *)
(* and compares the checksum, the exclusive or of the words of a part.     *)
(* Bytes are bits, a part of a U-Boot image starts with 1, and a word has  *)
(* Word bytes for the program's four.                                      *)
(***************************************************************************)
EXTENDS Integers, Sequences, FiniteSets

CONSTANTS
    Word, Block,     \* bytes of a word, and of the buffer of readwrite()
    Types,           \* header types: 64 has no sqimage, 128 has
    Inputs,          \* for each part, the files it may be made from
    None,            \* no file given
    Max,             \* signatures[].kernel_max, ...
    MaxFlips, MaxCuts, MaxKills      \* bytes changed, bytes lost, kills

Parts == {"kernel", "initramfs", "sqimage", "defaults"}
Uboot == {"kernel", "initramfs"}
Bits == {0, 1}

ASSUME FirmwareAssumption ==
    /\ Word \in Nat \ {0} /\ Block \in Nat \ {0} /\ Block % Word = 0
    /\ Types \subseteq {64, 128}
    /\ \A c \in Parts : Inputs[c] \subseteq Seq(Bits) \cup {None} /\ Max[c] \in Nat
    /\ {None, << >>} \cap (Inputs["kernel"] \cup Inputs["initramfs"]) = {}
    /\ {MaxFlips, MaxCuts, MaxKills} \subseteq Nat

VARIABLES
    type, in,        \* the arguments of merge()
    pc,              \* "merge", "split" or how the program ended
    todo,            \* the parts the running command has still to do
    body,            \* the firmware file behind its header
    hd,              \* merge()'s myhd, and then what open_read() reads
    sealed,          \* save_header() has been done
    out, saved,      \* the files split() has written, those called "saved"
    flips, cuts, kills

args == <<type, in>>
fw == <<body, hd, sealed>>
bounds == <<flips, cuts, kills>>
vars == <<args, pc, todo, fw, out, saved, bounds>>

NoPart == [off |-> 0, len |-> 0, chk |-> [b \in 1..Word |-> 0]]
Order(t) ==
    IF t = 64 THEN <<"kernel", "initramfs", "defaults">>
    ELSE <<"kernel", "initramfs", "sqimage", "defaults">>

TypeOK ==
    /\ type \in Types /\ in \in [Parts -> Seq(Bits) \cup {None}]
    /\ pc \in {"merge", "merged", "split", "refused", "failed", "done"}
    /\ Len(todo) <= 4 /\ body \in Seq(Bits) /\ sealed \in BOOLEAN
    /\ \A c \in Parts : hd[c].off \in Nat /\ hd[c].len \in 0..Max[c]
    /\ out \in [Parts -> Seq(Bits)] /\ saved \subseteq Parts
    /\ flips \in 0..MaxFlips /\ cuts \in 0..MaxCuts /\ kills \in 0..MaxKills

Init ==
    /\ type \in Types
    /\ in \in {f \in [Parts -> UNION {Inputs[c] : c \in Parts}] :
                 \A c \in Parts : f[c] \in Inputs[c]}
    /\ pc = "merge" /\ todo = Order(type)
    /\ body = << >> /\ hd = [c \in Parts |-> NoPart] /\ sealed = FALSE
    /\ out = [c \in Parts |-> << >>] /\ saved = {}
    /\ flips = MaxFlips /\ cuts = MaxCuts /\ kills = MaxKills

-----------------------------------------------------------------------------
(* readwrite().                                                            *)

Min2(a, b) == IF a < b THEN a ELSE b

(* j < n/sizeof(uint32_t): the bytes behind the last whole word are left   *)
(* out.                                                                    *)
Words(s) == Len(s) \div Word

Checksum(s) ==
    [b \in 1..Word |-> Cardinality({j \in 0..(Words(s) - 1) : s[Word * j + b] = 1}) % 2]

(* Mutant: the last block is filled too.                                   *)
FilledUp(got, n) == ((got + Block - 1) \div Block) * Block

(* Where the loop stops for a part of n bytes of which got are there: a    *)
(* block that is cut short is filled with zeros, one that is missing ends  *)
(* the loop.                                                               *)
Filled(got, n) == Min2(n, ((got + Block - 1) \div Block) * Block)

Copied(file, off, n) ==
    LET got == IF off >= Len(file) THEN 0 ELSE Min2(n, Len(file) - off)
    IN  [k \in 1..Filled(got, n) |-> IF k <= got THEN file[off + k] ELSE 0]

(* Mutant: no comparison at all.                                           *)
NotCompared(s, chk) == TRUE

(* *chk == 0 stands for "not known".                                       *)
Agrees(s, chk) == chk = NoPart.chk \/ Checksum(s) = chk

(* What is_uboot() may answer: behind the end of the file read() leaves    *)
(* file_sig[] as the stack had it, with the bytes of the last call or not. *)
IsUboot(file, off) == IF Len(file) > off THEN {file[off + 1] = 1} ELSE BOOLEAN

-----------------------------------------------------------------------------
(* merge().                                                                *)

(* A part that is not given has no bytes.                                  *)
Given(c) == IF in[c] = None THEN << >> ELSE in[c]

(* savecomp() refuses a file that is no U-Boot image, or too large.        *)
Refused(c) ==
    (c \in Uboot /\ FALSE \in IsUboot(Given(c), 0)) \/ Len(Given(c)) > Max[c]

(* lseek(fdo, 0, SEEK_END)                                                 *)
Offset(c) == Len(body)

Turn(command, c) == pc = command /\ todo # << >> /\ c = Head(todo)

savecomp(c) ==
    /\ Turn("merge", c) /\ ~Refused(c)
    /\ LET s == Copied(Given(c), 0, Len(Given(c)))
       IN  /\ hd' = [hd EXCEPT ![c] = [off |-> Offset(c), len |-> Len(Given(c)), chk |-> Checksum(s)]]
           /\ body' = body \o s
    /\ todo' = Tail(todo)
    /\ UNCHANGED <<args, pc, sealed, out, saved, bounds>>

GiveUp(c) ==
    /\ Turn("merge", c) /\ Refused(c)
    /\ pc' = "merged"
    /\ UNCHANGED <<args, todo, fw, out, saved, bounds>>

save_header ==
    /\ pc = "merge" /\ todo = << >>
    /\ sealed' = TRUE /\ pc' = "merged"
    /\ UNCHANGED <<args, todo, body, hd, out, saved, bounds>>

Kill ==
    /\ pc = "merge" /\ kills > 0 /\ kills' = kills - 1
    /\ pc' = "merged"
    /\ UNCHANGED <<args, todo, fw, out, saved, flips, cuts>>

-----------------------------------------------------------------------------
(* The file is copied, flashed and read back: a byte changes, the end is   *)
(* lost.                                                                   *)
Flip(k) ==
    /\ pc = "merged" /\ flips > 0 /\ flips' = flips - 1
    /\ body' = [body EXCEPT ![k] = 1 - @]
    /\ UNCHANGED <<args, pc, todo, hd, sealed, out, saved, cuts, kills>>

Cut ==
    /\ pc = "merged" /\ body # << >> /\ cuts > 0 /\ cuts' = cuts - 1
    /\ body' = SubSeq(body, 1, Len(body) - 1)
    /\ UNCHANGED <<args, pc, todo, hd, sealed, out, saved, flips, kills>>

-----------------------------------------------------------------------------
(* split().                                                                *)

(* Mutant: any file is taken for a firmware file.                          *)
AnySignature == TRUE

(* check_sig() finds no signature in merge()'s "fake write".               *)
Signature == sealed

(* open_read(), and is_uboot() of the parts that must be; size_ok() always *)
(* says yes.                                                               *)
Open ==
    /\ pc = "merged"
    /\ \E k \in IsUboot(body, hd["kernel"].off), i \in IsUboot(body, hd["initramfs"].off) :
           pc' = IF Signature /\ k /\ i THEN "split" ELSE "refused"
    /\ todo' = Order(type)
    /\ UNCHANGED <<args, fw, out, saved, bounds>>

savefile(c) ==
    /\ Turn("split", c)
    /\ out' = [out EXCEPT ![c] = Copied(body, hd[c].off, hd[c].len)]
    /\ IF Agrees(out'[c], hd[c].chk)
       THEN saved' = saved \cup {c} /\ todo' = Tail(todo) /\ UNCHANGED pc
       ELSE pc' = "failed" /\ UNCHANGED <<saved, todo>>
    /\ UNCHANGED <<args, fw, bounds>>

Finish ==
    /\ pc = "split" /\ todo = << >> /\ pc' = "done"
    /\ UNCHANGED <<args, todo, fw, out, saved, bounds>>

Next ==
    \/ save_header \/ Kill \/ Cut \/ Open \/ Finish
    \/ \E c \in Parts : savecomp(c) \/ GiveUp(c) \/ savefile(c)
    \/ \E k \in 1..Len(body) : Flip(k)

Spec == Init /\ [][Next]_vars

-----------------------------------------------------------------------------
Flipped == MaxFlips - flips
Lost == MaxCuts - cuts
WholeWords(s) == SubSeq(s, 1, Word * Words(s))

(* dns323-fw.c:5,6 "Split a vendor firmware file into its components",     *)
(* "Merge a kernel/initramfs/defaults together": what was merged is what   *)
(* is saved, byte for byte, whatever its length, and also when another     *)
(* part fails.                                                             *)
RoundTrip == Flipped = 0 /\ Lost = 0 => \A c \in saved : out[c] = Given(c)

(* An image that merge() finished is not turned down by split().           *)
AcceptsOwn == Flipped = 0 /\ Lost = 0 /\ pc \in {"refused", "failed"} => ~sealed

(* split() is the inverse of merge().                                      *)
SplitInverts == TypeOK /\ RoundTrip /\ AcceptsOwn

(* dns323-fw.c:243 "saved, checksum is OK": one changed byte, or an end    *)
(* shorter than a word that was lost, is never saved in a whole word of a  *)
(* part, unless its checksum is zero, which stands for "not known".        *)
DamageCaught ==
    (Flipped = 0 /\ Lost < Word) \/ (Flipped <= 1 /\ Lost = 0) =>
        \A c \in saved :
            WholeWords(out[c]) = WholeWords(Given(c)) \/ hd[c].chk = NoPart.chk

(* Whatever ended merge() early, split() makes nothing of what it left:    *)
(* the header is the last thing written.                                   *)
NoHalfImage ==
    saved # {} => \A k \in DOMAIN Order(type) : ~Refused(Order(type)[k])
                    /\ hd[Order(type)[k]].len = Len(Given(Order(type)[k]))
=============================================================================
