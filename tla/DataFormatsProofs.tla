------------------------- MODULE DataFormatsProofs -------------------------
(***************************************************************************)
(* The five results of the pure computations hold for every template that  *)
(* has each register once, every OTP with one damaged copy, every number   *)
(* of cells and every base, every image and every command.                 *)
(*                                                                         *)
(* The computations share no state: each has an invariant of its own, kept *)
(* by its own steps.                                                       *)
(***************************************************************************)
EXTENDS DataFormats, WellFoundedInduction, TLAPS

-----------------------------------------------------------------------------
\* Bytes and words.

LEMMA WordMaxIs == WordMax \in Int /\ WordMax >= 65535
BY DEF WordMax

LEMMA WordBounds ==
  ASSUME NEW n \in Word16
  PROVE  n \in Int /\ 0 <= n /\ n <= 65535
BY DEF Word16, WordMax

LEMMA ByteBounds ==
  ASSUME NEW n \in Int
  PROVE  Low(n) \in Byte /\ High(n) \in Byte /\ Mod16(n) \in Word16
<1>1. Low(n) \in Byte /\ High(n) \in Byte
  BY DEF Low, High, Byte
<1>2. Mod16(n) \in Word16
  BY WordMaxIs DEF Mod16, Word16
<1> QED BY <1>1, <1>2

LEMMA SmallLow ==
  ASSUME NEW n \in Byte
  PROVE  n \in Int /\ Low(n) = n /\ High(n) = 0
<1>1. n \in 0..255
  BY DEF Byte
<1> QED
  BY <1>1 DEF Low, High

LEMMA SmallWord ==
  ASSUME NEW n \in Word16, n < 256
  PROVE  n \in Byte
<1>1. n \in Int /\ 0 <= n
  BY WordBounds
<1> QED BY <1>1 DEF Byte

\* A 16-bit number has two bytes.
LEMMA Words ==
  ASSUME NEW n \in Word16
  PROVE  Low(n) \in Byte /\ High(n) \in Byte /\ Le16(Low(n), High(n)) = n
<1>1. n \in Int /\ 0 <= n /\ n <= 65535
  BY WordBounds
<1>2. n \div 256 \in Int /\ 0 <= n \div 256 /\ n \div 256 <= 255
  BY <1>1
<1>3. (n \div 256) % 256 = n \div 256
  BY <1>1, <1>2
<1>4. /\ n % 256 \in Int /\ 0 <= n % 256 /\ n % 256 <= 255
      /\ (n % 256) + 256 * (n \div 256) = n
  BY <1>1
<1> QED
  BY <1>1, <1>2, <1>3, <1>4 DEF Low, High, Le16, Byte

\* The upper byte of a byte that was moved up.
LEMMA Shifted ==
  ASSUME NEW n \in Word16
  PROVE  Mod16(n * 256) \in Int /\ High(Mod16(n * 256)) = Low(n)
<1>1. n \in Int /\ 0 <= n /\ n <= 65535
  BY WordBounds
<1>2. (((n * 256) % 65536) \div 256) % 256 = n % 256
  BY <1>1
<1>3. (n * 256) % 65536 \in Int
  BY <1>1
<1> QED
  BY <1>1, <1>2, <1>3 DEF Mod16, High, Low

LEMMA SmallWord16 ==
  ASSUME NEW n \in Word16
  PROVE  Mod16(n) = n
<1>1. n \in Int /\ 0 <= n /\ n <= 65535
  BY WordBounds
<1> QED BY <1>1 DEF Mod16

\* Counting in 16 bits.
LEMMA NextWord ==
  ASSUME NEW s \in Int, NEW n \in Nat
  PROVE  Mod16(Mod16(s + n) + 1) = Mod16(s + (n + 1))
<1>1. (((s + n) % 65536) + 1) % 65536 = (s + (n + 1)) % 65536
  OBVIOUS
<1> QED BY <1>1 DEF Mod16

\* The negated sum closes a sum.
LEMMA Cancelled ==
  ASSUME NEW n \in Nat
  PROVE  Mod16(Seed + (n + Mod16(-(Seed + n)))) = 0
<1>1. (42405 + (n + ((-(42405 + n)) % 65536))) % 65536 = 0
  OBVIOUS
<1> QED BY <1>1 DEF Mod16, Seed

LEMMA NegatedInt ==
  ASSUME NEW n \in Nat
  PROVE  -(Seed + n) \in Int
BY DEF Seed

LEMMA DeltaBounds ==
  ASSUME NEW n \in Int
  PROVE  ToDelta(n) \in 0..1365
BY DEF ToDelta, Mod16

-----------------------------------------------------------------------------
\* Sums over the words of the blob, by induction.

\* A set of naturals has a least element.
LEMMA LeastElement ==
  ASSUME NEW T \in SUBSET Nat, T # {}
  PROVE  \E x \in T : \A y \in T : x <= y
<1> DEFINE R == OpToRel(<, Nat)
<1>1. \A m, n \in Nat : <<m, n>> \in R <=> m < n
  BY DEF OpToRel
<1>2. IsWellFoundedOn(R, Nat)
  BY NatLessThanWellFounded
<1> HIDE DEF R
<1>3. PICK x \in T : \A y \in T : ~(<<y, x>> \in R)
  BY <1>2, WFMin
<1>4. \A y \in T : ~(y < x)
  BY <1>1, <1>3
<1> QED
  BY <1>3, <1>4

\* Induction, for a set instead of a predicate.
LEMMA SetInduction ==
  ASSUME NEW S \in SUBSET Nat, 0 \in S, \A n \in S : n + 1 \in S
  PROVE  Nat \subseteq S
<1> SUFFICES ASSUME Nat \ S # {} PROVE FALSE
  OBVIOUS
<1>1. PICK x \in Nat \ S : \A y \in Nat \ S : x <= y
  BY LeastElement
<1>2. x # 0 /\ x - 1 \in Nat
  BY <1>1
<1>3. x - 1 \in S
  BY <1>1, <1>2
<1> QED
  BY <1>1, <1>2, <1>3

\* f holds the sums of the first 0, 1, ..., k words of c.
PrefixSums(c, k, f) ==
  f = [n \in 0..k |-> IF n = 0 THEN 0 ELSE f[n - 1] + WordAt(c, 2 * (n - 1))]

\* There is such a function, so that WordSum is what its definition says.
LEMMA PrefixSumsExist ==
  ASSUME NEW c
  PROVE  \A k \in Nat : \E f : PrefixSums(c, k, f)
<1> DEFINE S == {k \in Nat : \E f : PrefixSums(c, k, f)}
<1>1. 0 \in S
  <2> DEFINE f == [n \in 0..0 |-> 0]
  <2>1. f = [n \in 0..0 |-> IF n = 0 THEN 0 ELSE f[n - 1] + WordAt(c, 2 * (n - 1))]
    OBVIOUS
  <2> QED BY <2>1 DEF PrefixSums
<1>2. ASSUME NEW k \in S PROVE k + 1 \in S
  <2>1. PICK f : PrefixSums(c, k, f)
    OBVIOUS
  <2> DEFINE g == [n \in 0..k + 1 |-> IF n = k + 1 THEN f[k] + WordAt(c, 2 * k) ELSE f[n]]
  <2>2. ASSUME NEW n \in 0..k + 1
        PROVE  g[n] = IF n = 0 THEN 0 ELSE g[n - 1] + WordAt(c, 2 * (n - 1))
    <3>1. CASE n = k + 1
      <4>1. n # 0 /\ n - 1 \in 0..k + 1 /\ n - 1 # k + 1 /\ n - 1 = k
        BY <3>1
      <4> QED BY <3>1, <4>1
    <3>2. CASE n # k + 1
      <4>1. n \in 0..k
        BY <3>2
      <4>2. f[n] = IF n = 0 THEN 0 ELSE f[n - 1] + WordAt(c, 2 * (n - 1))
        BY <2>1, <4>1 DEF PrefixSums
      <4>3. n # 0 => n - 1 \in 0..k + 1 /\ n - 1 # k + 1
        BY <4>1
      <4> QED BY <3>2, <4>2, <4>3
    <3> QED BY <3>1, <3>2
  <2>3. PrefixSums(c, k + 1, g)
    BY <2>2 DEF PrefixSums
  <2> QED BY <2>3
<1> HIDE DEF S
<1>3. Nat \subseteq S
  BY <1>1, <1>2, SetInduction DEF S
<1> QED
  BY <1>3 DEF S

\* The sum of w words is that of one less, and the last one.
LEMMA WordSumStep ==
  ASSUME NEW c, NEW w \in 0..CfgLen \div 2
  PROVE  WordSum(c, w) = IF w = 0 THEN 0
                         ELSE WordSum(c, w - 1) + WordAt(c, 2 * (w - 1))
<1> DEFINE Sum == CHOOSE f : f = [n \in 0..CfgLen \div 2 |-> IF n = 0 THEN 0 ELSE f[n - 1] + WordAt(c, 2 * (n - 1))]
<1>1. CfgLen \div 2 \in Nat
  BY DEF CfgLen
<1>2. Sum = [n \in 0..CfgLen \div 2 |-> IF n = 0 THEN 0 ELSE Sum[n - 1] + WordAt(c, 2 * (n - 1))]
  BY <1>1, PrefixSumsExist DEF PrefixSums
<1>3. \A x : WordSum(c, x) = Sum[x]
  BY DEF WordSum
<1> HIDE DEF Sum
<1> QED
  BY <1>2, <1>3

\* A blob: a byte at each offset.
Blobs == [0..CfgLen - 1 -> Byte]

LEMMA BlobBytes ==
  ASSUME NEW c \in Blobs
  PROVE  \A i \in 0..CfgLen - 1 : c[i] \in Nat /\ c[i] < 256
<1>1. \A i \in 0..CfgLen - 1 : c[i] \in Byte
  BY DEF Blobs
<1>2. \A b \in Byte : b \in Nat /\ b < 256
  BY DEF Byte
<1> QED BY <1>1, <1>2

LEMMA WordSumNat ==
  ASSUME NEW c \in Blobs
  PROVE  \A w \in 0..CfgLen \div 2 : WordSum(c, w) \in Nat
<1> DEFINE S == {w \in Nat : w \in 0..CfgLen \div 2 => WordSum(c, w) \in Nat}
<1>1. 0 \in S
  BY WordSumStep DEF CfgLen
<1>2. ASSUME NEW w \in S PROVE w + 1 \in S
  <2> SUFFICES ASSUME w + 1 \in 0..CfgLen \div 2 PROVE WordSum(c, w + 1) \in Nat
    OBVIOUS
  <2>1. WordSum(c, w) \in Nat
    BY DEF CfgLen
  <2>2. c[2 * w] \in Nat /\ c[2 * w + 1] \in Nat
    <3>1. w \in Nat /\ 2 * w \in 0..CfgLen - 1 /\ 2 * w + 1 \in 0..CfgLen - 1
      BY DEF CfgLen
    <3>2. \A i \in 0..CfgLen - 1 : c[i] \in Nat
      BY BlobBytes
    <3> QED BY <3>1, <3>2
  <2>3. WordSum(c, w + 1) = WordSum(c, w) + WordAt(c, 2 * w)
    BY WordSumStep
  <2> QED BY <2>1, <2>2, <2>3 DEF WordAt, Le16
<1> HIDE DEF S
<1>3. Nat \subseteq S
  BY <1>1, <1>2, SetInduction DEF S
<1> QED
  BY <1>3 DEF S, CfgLen

\* Blobs that agree below an offset have the same sum up to there.
LEMMA WordSumSame ==
  ASSUME NEW c, NEW d, NEW k \in 0..CfgLen \div 2,
         \A i \in 0..2 * k - 1 : c[i] = d[i]
  PROVE  WordSum(c, k) = WordSum(d, k)
<1> DEFINE S == {w \in Nat : w \in 0..k => WordSum(c, w) = WordSum(d, w)}
<1>0. k \in Nat
  BY DEF CfgLen
<1>1. 0 \in S
  BY <1>0, WordSumStep DEF CfgLen
<1>2. ASSUME NEW w \in S PROVE w + 1 \in S
  <2> SUFFICES ASSUME w + 1 \in 0..k PROVE WordSum(c, w + 1) = WordSum(d, w + 1)
    OBVIOUS
  <2>1. WordSum(c, w) = WordSum(d, w)
    BY <1>0
  <2>2. 2 * w \in 0..2 * k - 1 /\ 2 * w + 1 \in 0..2 * k - 1
    BY <1>0
  <2>3. w + 1 \in 0..CfgLen \div 2
    BY <1>0 DEF CfgLen
  <2>4. /\ WordSum(c, w + 1) = WordSum(c, w) + WordAt(c, 2 * w)
        /\ WordSum(d, w + 1) = WordSum(d, w) + WordAt(d, 2 * w)
    BY <2>3, WordSumStep
  <2> QED BY <2>1, <2>2, <2>4 DEF WordAt
<1> HIDE DEF S
<1>3. Nat \subseteq S
  BY <1>1, <1>2, SetInduction DEF S
<1> QED
  BY <1>0, <1>3 DEF S

-----------------------------------------------------------------------------
\* The OTP: the vote over three copies of a byte, one of them damaged.

LEMMA VoteStored ==
  ASSUME NEW v \in Byte, NEW x \in Byte
  PROVE  /\ Vote(x, Complement(v), v) = v
         /\ Vote(v, x, v) = v
         /\ Vote(v, Complement(v), x) = v
BY DEF Vote, Complement, None, Byte

LEMMA Voted ==
  ASSUME otp \in Otps
  PROVE  VotedTcode = otp.stored.tcode /\ VotedDac = otp.stored.dac
<1> USE DEF VotedTcode, VotedDac
<1> DEFINE cs == Copies(otp.stored)
<1>1. PICK f \in DOMAIN cs :
        /\ otp.copies[f] \in Byte
        /\ otp.copies = [cs EXCEPT ![f] = otp.copies[f]]
  BY OtpsAssumption
<1>2. otp.stored.tcode \in Byte /\ otp.stored.dac \in Byte
  BY OtpsAssumption
<1> DEFINE x == otp.copies[f]
<1>3. f \in {"tcode", "tcodeNeg", "tcodeAlt", "dac", "dacBak", "dacNeg"}
  BY DEF Copies
<1>4. \A g \in {"tcode", "tcodeNeg", "tcodeAlt", "dac", "dacBak", "dacNeg"} :
        otp.copies[g] = IF g = f THEN x ELSE cs[g]
  BY <1>1 DEF Copies
<1>5. /\ cs["tcode"] = otp.stored.tcode /\ cs["tcodeAlt"] = otp.stored.tcode
      /\ cs["tcodeNeg"] = Complement(otp.stored.tcode)
      /\ cs["dac"] = otp.stored.dac /\ cs["dacNeg"] = otp.stored.dac
      /\ cs["dacBak"] = Complement(otp.stored.dac)
  BY DEF Copies
<1> HIDE DEF cs, x
<1>6. x \in Byte
  BY <1>1 DEF x
<1>7. CASE f = "tcode"
  BY <1>2, <1>4, <1>5, <1>6, <1>7, VoteStored
<1>8. CASE f = "tcodeNeg"
  BY <1>2, <1>4, <1>5, <1>6, <1>8, VoteStored
<1>9. CASE f = "tcodeAlt"
  BY <1>2, <1>4, <1>5, <1>6, <1>9, VoteStored
<1>10. CASE f = "dac"
  BY <1>2, <1>4, <1>5, <1>6, <1>10, VoteStored
<1>11. CASE f = "dacBak"
  BY <1>2, <1>4, <1>5, <1>6, <1>11, VoteStored
<1>12. CASE f = "dacNeg"
  BY <1>2, <1>4, <1>5, <1>6, <1>12, VoteStored
<1> QED
  BY <1>3, <1>7, <1>8, <1>9, <1>10, <1>11, <1>12

\* The calibration has 16 bits.
LEMMA CalibrationBounds ==
  ASSUME NEW t \in Byte
  PROVE  Tcode(t) \in Word16 /\ Dac(t) \in Word16 /\ FdtDelta(t) \in Word16
<1>1. Tcode(t) \in 16..256
  BY DEF Tcode, Byte
<1>2. Dac(t) \in Int /\ 0 <= Dac(t) /\ Dac(t) <= 4088
  BY DEF Dac, Byte
<1>3. \A a \in Int, b \in 16..256 : a \div b \in Int
  OBVIOUS
<1>4. ((t % 16) + 2) * 25600 \in Int
  BY DEF Byte
<1>5. (((t % 16) + 2) * 25600) \div Tcode(t) \in Int
  BY <1>1, <1>3, <1>4
<1>6. FdtDelta(t) \in 0..1365
  BY <1>5, DeltaBounds DEF FdtDelta
<1>7. Tcode(t) \in Word16
  BY <1>1, WordMaxIs DEF Word16
<1>8. Dac(t) \in Word16
  BY <1>2, WordMaxIs DEF Word16
<1>9. FdtDelta(t) \in Word16
  BY <1>6, WordMaxIs DEF Word16
<1> QED
  BY <1>7, <1>8, <1>9

-----------------------------------------------------------------------------
\* The blob: where the template has the three registers, and what stays.

EntryAt(r) == CHOOSE e \in 0..CfgLen - 1 : EntriesOf(Template, r) = {e}

Patched(i) ==
  \E r \in DOMAIN Registers : i \in {EntryAt(r) + 2, EntryAt(r) + 3}

Shaped(c) ==
  /\ c \in Blobs
  /\ \A i \in 0..ChecksumOff - 1 : ~Patched(i) => c[i] = Template[i]
  /\ c[EntryAt("fdt") + 2] = 128

Summed(c) == Mod16(Seed + WordSum(c, CfgLen \div 2)) = 0

LEMMA RegisterNames ==
  DOMAIN Registers = {"dac", "tcode", "fdt"}
BY DEF Registers

LEMMA TemplateEntries ==
  ASSUME NEW r \in DOMAIN Registers
  PROVE  /\ EntriesOf(Template, r) = {EntryAt(r)}
         /\ EntryAt(r) \in 17..ChecksumOff - 4
         /\ EntryAt(r) % 4 = 1
         /\ WordAt(Template, EntryAt(r)) = Registers[r]
<1> DEFINE firstEntry == Template[1 + 2 * SectionOf[r]]
           len == Template[2 + 2 * SectionOf[r]]
<1>1. \E e \in 0..CfgLen - 1 : EntriesOf(Template, r) = {e}
  BY TemplateAssumption
<1>2. EntriesOf(Template, r) = {EntryAt(r)}
  BY <1>1 DEF EntryAt
<1>3. /\ EntryAt(r) \in firstEntry..firstEntry + len - 1
      /\ (EntryAt(r) - firstEntry) % 4 = 0
      /\ WordAt(Template, EntryAt(r)) = Registers[r]
  BY <1>2 DEF EntriesOf, Entries
<1>4. firstEntry >= 17 /\ firstEntry % 4 = 1 /\ firstEntry + len < ChecksumOff
  BY TemplateAssumption
<1>5. SectionOf[r] \in {0, 2, 4}
  BY RegisterNames DEF SectionOf
<1>6. firstEntry \in Nat /\ len \in Nat
  <2>1. \A i \in 0..CfgLen - 1 : Template[i] \in Nat
    BY TemplateAssumption, BlobBytes DEF Blobs
  <2>2. 1 + 2 * SectionOf[r] \in 0..CfgLen - 1 /\ 2 + 2 * SectionOf[r] \in 0..CfgLen - 1
    BY <1>5 DEF CfgLen
  <2> QED BY <2>1, <2>2
<1> HIDE DEF firstEntry, len
<1>7. EntryAt(r) \in Int /\ EntryAt(r) >= 17 /\ EntryAt(r) <= 220
  BY <1>3, <1>4, <1>6 DEF ChecksumOff, CfgLen
<1>8. EntryAt(r) % 4 = 1
  BY <1>3, <1>4, <1>6, <1>7
<1> QED
  BY <1>2, <1>3, <1>7, <1>8 DEF ChecksumOff, CfgLen

\* Entries of different registers do not overlap.
LEMMA EntriesApart ==
  ASSUME NEW r \in DOMAIN Registers, NEW q \in DOMAIN Registers, r # q
  PROVE  {EntryAt(r) + 2, EntryAt(r) + 3} \cap {EntryAt(q) + 2, EntryAt(q) + 3} = {}
<1>1. Registers[r] # Registers[q]
  BY RegisterNames DEF Registers
<1>2. EntryAt(r) # EntryAt(q)
  BY <1>1, TemplateEntries
<1>3. /\ EntryAt(r) \in Int /\ EntryAt(q) \in Int
      /\ EntryAt(r) % 4 = 1 /\ EntryAt(q) % 4 = 1
  BY TemplateEntries
<1> QED
  BY <1>2, <1>3

LEMMA PatchedValues ==
  ASSUME NEW i \in Int, Patched(i)
  PROVE  i \in 19..ChecksumOff - 1 /\ i % 4 \in {0, 3}
<1>1. PICK r \in DOMAIN Registers : i \in {EntryAt(r) + 2, EntryAt(r) + 3}
  BY DEF Patched
<1>2. EntryAt(r) \in 17..ChecksumOff - 4 /\ EntryAt(r) % 4 = 1
  BY TemplateEntries
<1> QED
  BY <1>1, <1>2 DEF ChecksumOff, CfgLen

\* Patching the values moves no entry.
LEMMA EntriesKept ==
  ASSUME NEW c, Shaped(c), NEW r \in DOMAIN Registers
  PROVE  EntriesOf(c, r) = {EntryAt(r)}
<1> DEFINE firstEntry == Template[1 + 2 * SectionOf[r]]
           len == Template[2 + 2 * SectionOf[r]]
<1>1. SectionOf[r] \in {0, 2, 4}
  BY RegisterNames DEF SectionOf
<1>2. c[1 + 2 * SectionOf[r]] = firstEntry /\ c[2 + 2 * SectionOf[r]] = len
  <2>1. /\ 1 + 2 * SectionOf[r] \in 0..ChecksumOff - 1
        /\ 2 + 2 * SectionOf[r] \in 0..ChecksumOff - 1
        /\ 1 + 2 * SectionOf[r] < 17 /\ 2 + 2 * SectionOf[r] < 17
    BY <1>1 DEF ChecksumOff, CfgLen
  <2>2. ~Patched(1 + 2 * SectionOf[r]) /\ ~Patched(2 + 2 * SectionOf[r])
    BY <1>1, <2>1, PatchedValues
  <2> QED BY <2>1, <2>2 DEF Shaped
<1>3. firstEntry \in Nat /\ len \in Nat
  <2>1. \A i \in 0..CfgLen - 1 : Template[i] \in Nat
    BY TemplateAssumption, BlobBytes DEF Blobs
  <2>2. 1 + 2 * SectionOf[r] \in 0..CfgLen - 1 /\ 2 + 2 * SectionOf[r] \in 0..CfgLen - 1
    BY <1>1 DEF CfgLen
  <2> QED BY <2>1, <2>2
<1>4. firstEntry >= 17 /\ firstEntry % 4 = 1 /\ firstEntry + len < ChecksumOff
  BY TemplateAssumption
<1>5. Entries(c, SectionOf[r]) = Entries(Template, SectionOf[r])
  BY <1>2 DEF Entries
<1>6. ASSUME NEW e \in Entries(Template, SectionOf[r])
      PROVE  WordAt(c, e) = WordAt(Template, e)
  <2>1. e \in firstEntry..firstEntry + len - 1 /\ (e - firstEntry) % 4 = 0
    BY DEF Entries
  <2> HIDE DEF firstEntry, len
  <2>2. e \in Int /\ e % 4 = 1 /\ (e + 1) % 4 = 2
    BY <1>3, <1>4, <2>1
  <2>3. e \in 0..ChecksumOff - 1 /\ e + 1 \in 0..ChecksumOff - 1
    BY <1>3, <1>4, <2>1, <2>2 DEF ChecksumOff, CfgLen
  <2>4. ~Patched(e) /\ ~Patched(e + 1)
    BY <2>2, PatchedValues
  <2> QED BY <2>3, <2>4 DEF Shaped, WordAt
<1>7. EntriesOf(c, r) = EntriesOf(Template, r)
  BY <1>5, <1>6 DEF EntriesOf
<1> QED
  BY <1>7, TemplateEntries

\* Setting an entry keeps the shape, writes the two bytes and the checksum.
LEMMA EntrySet ==
  ASSUME NEW c, Shaped(c), NEW r \in DOMAIN Registers,
         NEW low \in Byte, NEW high \in Byte,
         r = "fdt" => low = 128
  PROVE  LET d == SetEntry(c, EntryAt(r), low, high)
         IN /\ Shaped(d) /\ Summed(d)
            /\ d[EntryAt(r) + 2] = low /\ d[EntryAt(r) + 3] = high
            /\ \A i \in 0..ChecksumOff - 1 \ {EntryAt(r) + 2, EntryAt(r) + 3} :
                 d[i] = c[i]
<1> DEFINE e == EntryAt(r)
           m == [c EXCEPT ![e + 2] = low, ![e + 3] = high]
           sum == Mod16(-(Seed + WordSum(m, ChecksumOff \div 2)))
           d == SetEntry(c, e, low, high)
<1>1. /\ e \in 0..CfgLen - 1 /\ e + 2 \in 0..ChecksumOff - 1
      /\ e + 3 \in 0..ChecksumOff - 1 /\ e + 2 # e + 3
  BY TemplateEntries DEF ChecksumOff, CfgLen
<1>2. d = [m EXCEPT ![ChecksumOff] = Low(sum), ![ChecksumOff + 1] = High(sum)]
  BY DEF SetEntry, WithChecksum
<1> HIDE DEF e, d
<1>3. m \in Blobs
  BY <1>1 DEF Shaped, Blobs
<1>4. /\ \A i \in 0..CfgLen - 1 \ {e + 2, e + 3} : m[i] = c[i]
      /\ m[e + 2] = low /\ m[e + 3] = high
  BY <1>1 DEF Shaped, Blobs, ChecksumOff, CfgLen
<1> HIDE DEF m
<1>5. WordSum(m, ChecksumOff \div 2) \in Nat
  BY <1>3, WordSumNat DEF ChecksumOff, CfgLen
<1>6. /\ Low(sum) \in Byte /\ High(sum) \in Byte
      /\ Le16(Low(sum), High(sum)) = sum
  <2>1. -(Seed + WordSum(m, ChecksumOff \div 2)) \in Int
    BY <1>5, NegatedInt, Zenon
  <2>2. sum \in Word16
    BY <2>1, ByteBounds, Zenon
  <2> HIDE DEF sum
  <2> QED BY <2>2, Words, Zenon
<1>7. ChecksumOff \in 0..CfgLen - 1 /\ ChecksumOff + 1 \in 0..CfgLen - 1
      /\ ChecksumOff # ChecksumOff + 1
  BY DEF ChecksumOff, CfgLen
<1> HIDE DEF sum
<1>8. d \in Blobs
  BY <1>2, <1>3, <1>6, <1>7 DEF Blobs
<1>9. /\ \A i \in 0..ChecksumOff - 1 : d[i] = m[i]
      /\ d[ChecksumOff] = Low(sum) /\ d[ChecksumOff + 1] = High(sum)
  BY <1>2, <1>3, <1>7 DEF Blobs, ChecksumOff, CfgLen
<1>10. /\ d[e + 2] = low /\ d[e + 3] = high
       /\ \A i \in 0..ChecksumOff - 1 \ {e + 2, e + 3} : d[i] = c[i]
  BY <1>1, <1>4, <1>9 DEF ChecksumOff, CfgLen
<1>11. Shaped(d)
  <2>1. ASSUME NEW i \in 0..ChecksumOff - 1, ~Patched(i)
        PROVE  d[i] = Template[i]
    <3>1. i \notin {e + 2, e + 3}
      BY <2>1 DEF Patched, e
    <3> QED BY <1>10, <2>1, <3>1 DEF Shaped
  <2>2. d[EntryAt("fdt") + 2] = 128
    <3>1. CASE r = "fdt"
      BY <1>10, <3>1 DEF e
    <3>2. CASE r # "fdt"
      <4>1. "fdt" \in DOMAIN Registers
        BY RegisterNames
      <4>2. EntryAt("fdt") + 2 \notin {e + 2, e + 3}
        BY <3>2, <4>1, EntriesApart DEF e
      <4>3. EntryAt("fdt") + 2 \in 0..ChecksumOff - 1
        BY <4>1, TemplateEntries DEF ChecksumOff, CfgLen
      <4> QED BY <1>10, <4>2, <4>3 DEF Shaped
    <3> QED BY <3>1, <3>2
  <2> QED BY <1>8, <2>1, <2>2 DEF Shaped
<1>12. Summed(d)
  <2> DEFINE total == WordSum(m, ChecksumOff \div 2)
  <2>1. WordSum(d, ChecksumOff \div 2) = total
    <3>1. \A i \in 0..2 * (ChecksumOff \div 2) - 1 : d[i] = m[i]
      BY <1>9 DEF ChecksumOff, CfgLen
    <3>2. ChecksumOff \div 2 \in 0..CfgLen \div 2
      BY DEF ChecksumOff, CfgLen
    <3> QED BY <3>1, <3>2, WordSumSame
  <2>2. WordSum(d, CfgLen \div 2) = total + sum
    <3>1. /\ CfgLen \div 2 \in 0..CfgLen \div 2 /\ CfgLen \div 2 # 0
          /\ CfgLen \div 2 - 1 = ChecksumOff \div 2
          /\ 2 * (CfgLen \div 2 - 1) = ChecksumOff
      BY DEF ChecksumOff, CfgLen
    <3>2. WordSum(d, CfgLen \div 2) = WordSum(d, ChecksumOff \div 2) + WordAt(d, ChecksumOff)
      BY <3>1, WordSumStep
    <3>3. WordAt(d, ChecksumOff) = sum
      BY <1>6, <1>9, Zenon DEF WordAt
    <3> QED BY <2>1, <3>2, <3>3, Zenon
  <2>3. Mod16(Seed + (total + Mod16(-(Seed + total)))) = 0
    BY <1>5, Cancelled, Zenon
  <2>4. sum = Mod16(-(Seed + total))
    BY DEF sum
  <2> HIDE DEF total
  <2> QED BY <2>2, <2>3, <2>4, Zenon DEF Summed
<1> QED
  BY <1>10, <1>11, <1>12 DEF d, e

-----------------------------------------------------------------------------
\* The steps of gxfp_apply_milang_cfg, with their invariant.

ConfigInv ==
  /\ cfgStep \in {"read", "dac", "tcode", "fdt", "ready", "refused"}
  /\ IF subject = "config" THEN otp \in Otps ELSE cfgStep = "read"
  /\ OtpVoted
  /\ Shaped(cfg)
  /\ cfgStep \in {"tcode", "fdt", "ready"} =>
       Summed(cfg) /\ WordAt(cfg, EntryAt("dac") + 2) = cal.dac
  /\ cfgStep \in {"fdt", "ready"} =>
       WordAt(cfg, EntryAt("tcode") + 2) = cal.tcode
  /\ cfgStep = "ready" =>
       cfg[EntryAt("fdt") + 3] = Low(cal.delta)

\* The registers' calibration, when it was not refused.
LEMMA CalibrationTyped ==
  ASSUME ConfigInv, cfgStep \notin {"read", "refused"}
  PROVE  cal.dac \in Word16 /\ cal.tcode \in Word16 /\ cal.delta \in Word16
<1>1. subject = "config" /\ otp \in Otps
  BY DEF ConfigInv
<1>2. otp.stored.tcode \in Byte /\ otp.stored.dac \in Byte
  BY <1>1, OtpsAssumption
<1>3. cal = [tcode |-> Tcode(otp.stored.tcode), dac |-> Dac(otp.stored.dac),
             delta |-> FdtDelta(otp.stored.tcode)]
  BY <1>1 DEF ConfigInv, OtpVoted
<1> QED
  BY <1>2, <1>3, CalibrationBounds

LEMMA ParseOtpKeeps ==
  ASSUME ConfigInv, subject = "config", subject' = subject, ParseOtp
  PROVE  ConfigInv'
<1>1. otp \in Otps /\ otp' = otp /\ cfgStep = "read"
  BY DEF ConfigInv, ParseOtp
<1>2. VotedTcode = otp.stored.tcode /\ VotedDac = otp.stored.dac
  BY <1>1, Voted
<1>3. Shaped(cfg')
  <2>1. cfg' = Template
    BY DEF ParseOtp
  <2>2. "fdt" \in DOMAIN Registers
    BY RegisterNames
  <2>3. Template[EntryAt("fdt") + 2] = 128
    BY <2>2, TemplateEntries, TemplateAssumption
  <2> QED BY <2>1, <2>3, TemplateAssumption DEF Shaped, Blobs
<1>4. cfgStep' \in {"dac", "refused"}
  BY DEF ParseOtp
<1>5. OtpVoted'
  BY <1>1, <1>2 DEF OtpVoted, ParseOtp, None
<1> QED
  BY <1>1, <1>3, <1>4, <1>5 DEF ConfigInv

\* A register set from the calibration: the step, whatever the register.
LEMMA RegisterSet ==
  ASSUME ConfigInv, NEW r \in DOMAIN Registers, NEW val, val \in Int,
         NEW keepsLow, keepsLow <=> r = "fdt", NEW next,
         PatchReg(r, val, keepsLow, next)
  PROVE  /\ cfgStep' = next
         /\ Shaped(cfg') /\ Summed(cfg')
         /\ keepsLow \/ cfg'[EntryAt(r) + 2] = Low(val)
         /\ cfg'[EntryAt(r) + 3] = High(val)
         /\ \A q \in DOMAIN Registers \ {r} :
              WordAt(cfg', EntryAt(q) + 2) = WordAt(cfg, EntryAt(q) + 2)
<1> DEFINE e == EntryAt(r)
           low == IF keepsLow THEN cfg[e + 2] ELSE Low(val)
<1>1. EntriesOf(cfg, r) = {e}
  BY EntriesKept DEF ConfigInv
<1>2. (CHOOSE x \in {e} : \A y \in {e} : x <= y) = e
  <2>1. e \in Int
    BY TemplateEntries
  <2>2. \E x \in {e} : \A y \in {e} : x <= y
    BY <2>1
  <2> QED BY <2>2
<1>3. cfg' = SetEntry(cfg, e, low, High(val)) /\ cfgStep' = next
  BY <1>1, <1>2 DEF PatchReg
<1>4. Low(val) \in Byte /\ High(val) \in Byte
  BY ByteBounds, Zenon
<1>5. low \in Byte /\ (r = "fdt" => low = 128)
  <2>1. CASE keepsLow
    BY <2>1 DEF ConfigInv, Shaped, Byte
  <2>2. CASE ~keepsLow
    BY <1>4, <2>2
  <2> QED BY <2>1, <2>2
<1> DEFINE d == SetEntry(cfg, e, low, High(val))
<1>6. /\ Shaped(d) /\ Summed(d)
      /\ d[e + 2] = low /\ d[e + 3] = High(val)
      /\ \A i \in 0..ChecksumOff - 1 \ {e + 2, e + 3} : d[i] = cfg[i]
  BY <1>4, <1>5, EntrySet DEF ConfigInv
<1>7. ASSUME NEW q \in DOMAIN Registers \ {r}
      PROVE  WordAt(d, EntryAt(q) + 2) = WordAt(cfg, EntryAt(q) + 2)
  <2>1. EntryAt(q) + 2 \notin {e + 2, e + 3} /\ EntryAt(q) + 3 \notin {e + 2, e + 3}
    BY EntriesApart
  <2>2. /\ EntryAt(q) + 2 \in 0..ChecksumOff - 1
        /\ EntryAt(q) + 3 \in 0..ChecksumOff - 1
        /\ (EntryAt(q) + 2) + 1 = EntryAt(q) + 3
    BY TemplateEntries DEF ChecksumOff, CfgLen
  <2> HIDE DEF d
  <2> QED BY <1>6, <2>1, <2>2 DEF WordAt
<1> QED
  BY <1>3, <1>6, <1>7 DEF e, low

LEMMA PatchKeeps ==
  ASSUME ConfigInv, subject = "config", subject' = subject, Patch
  PROVE  ConfigInv'
<1>1. otp' = otp /\ cal' = cal
  BY DEF Patch
<1>2. DOMAIN Registers = {"dac", "tcode", "fdt"}
  BY RegisterNames
<1>3. \A n \in Word16 : n \in Int
  BY DEF Word16
<1>4. \A r \in DOMAIN Registers : (EntryAt(r) + 2) + 1 = EntryAt(r) + 3
  BY TemplateEntries
<1>5. ASSUME NEW r \in DOMAIN Registers, NEW v \in Word16,
             cfg'[EntryAt(r) + 2] = Low(v), cfg'[EntryAt(r) + 3] = High(v)
      PROVE  WordAt(cfg', EntryAt(r) + 2) = v
  <2>1. Le16(Low(v), High(v)) = v
    BY Words, Zenon
  <2> QED BY <1>4, <1>5, <2>1, Zenon DEF WordAt
<1>6. CASE cfgStep = "dac" /\ PatchReg("dac", cal.dac, FALSE, "tcode")
  <2>1. cal.dac \in Word16 /\ cal.dac \in Int
    BY <1>3, <1>6, CalibrationTyped
  <2>2. /\ cfgStep' = "tcode" /\ Shaped(cfg') /\ Summed(cfg')
        /\ cfg'[EntryAt("dac") + 2] = Low(cal.dac)
        /\ cfg'[EntryAt("dac") + 3] = High(cal.dac)
    BY <1>2, <1>6, <2>1, RegisterSet
  <2>3. WordAt(cfg', EntryAt("dac") + 2) = cal.dac
    BY <1>2, <1>5, <2>1, <2>2
  <2>4. OtpVoted'
    BY <1>1, <1>6, <2>2 DEF ConfigInv, OtpVoted
  <2> QED BY <1>1, <2>2, <2>3, <2>4 DEF ConfigInv
<1>7. CASE cfgStep = "tcode" /\ PatchReg("tcode", cal.tcode, FALSE, "fdt")
  <2>1. cal.tcode \in Word16 /\ cal.tcode \in Int
    BY <1>3, <1>7, CalibrationTyped
  <2>2. /\ cfgStep' = "fdt" /\ Shaped(cfg') /\ Summed(cfg')
        /\ cfg'[EntryAt("tcode") + 2] = Low(cal.tcode)
        /\ cfg'[EntryAt("tcode") + 3] = High(cal.tcode)
        /\ WordAt(cfg', EntryAt("dac") + 2) = WordAt(cfg, EntryAt("dac") + 2)
    BY <1>2, <1>7, <2>1, RegisterSet
  <2>3. WordAt(cfg', EntryAt("tcode") + 2) = cal.tcode
    BY <1>2, <1>5, <2>1, <2>2
  <2>4. OtpVoted'
    BY <1>1, <1>7, <2>2 DEF ConfigInv, OtpVoted
  <2> QED BY <1>1, <1>7, <2>2, <2>3, <2>4 DEF ConfigInv
<1>8. CASE cfgStep = "fdt" /\ PatchReg("fdt", Mod16(cal.delta * 256), TRUE, "ready")
  <2>1. cal.delta \in Word16
    BY <1>8, CalibrationTyped
  <2> DEFINE v == Mod16(cal.delta * 256)
  <2>2. v \in Int /\ High(v) = Low(cal.delta) /\ PatchReg("fdt", v, TRUE, "ready")
    BY <1>8, <2>1, Shifted, Zenon
  <2> HIDE DEF v
  <2>3. /\ cfgStep' = "ready" /\ Shaped(cfg') /\ Summed(cfg')
        /\ cfg'[EntryAt("fdt") + 3] = Low(cal.delta)
        /\ WordAt(cfg', EntryAt("dac") + 2) = WordAt(cfg, EntryAt("dac") + 2)
        /\ WordAt(cfg', EntryAt("tcode") + 2) = WordAt(cfg, EntryAt("tcode") + 2)
    <3>1. "fdt" \in DOMAIN Registers /\ (TRUE <=> "fdt" = "fdt")
      BY <1>2
    <3>2. /\ cfgStep' = "ready" /\ Shaped(cfg') /\ Summed(cfg')
          /\ cfg'[EntryAt("fdt") + 3] = High(v)
          /\ \A q \in DOMAIN Registers \ {"fdt"} :
               WordAt(cfg', EntryAt(q) + 2) = WordAt(cfg, EntryAt(q) + 2)
      BY <2>2, <3>1, RegisterSet, Zenon
    <3> QED BY <1>2, <2>2, <3>2
  <2>4. OtpVoted'
    BY <1>1, <1>8, <2>3 DEF ConfigInv, OtpVoted
  <2> QED BY <1>1, <1>8, <2>3, <2>4 DEF ConfigInv
<1> QED
  BY <1>6, <1>7, <1>8 DEF Patch

\* The result of the last step: what the uploaded blob is.
LEMMA ConfigPatchedReady ==
  ASSUME ConfigInv
  PROVE  ConfigPatched
<1> SUFFICES ASSUME cfgStep = "ready", cal.delta < 256
             PROVE  ConfigPatched
  BY DEF ConfigPatched
<1>1. DOMAIN Registers = {"dac", "tcode", "fdt"}
  BY RegisterNames
<1>2. \A r \in DOMAIN Registers : EntriesOf(cfg, r) = {EntryAt(r)}
  BY EntriesKept DEF ConfigInv
<1>3. cal.delta \in Word16
  BY CalibrationTyped
<1>4. cal.delta \in Byte
  BY <1>3, SmallWord, Zenon
<1>5. WordAt(cfg, EntryAt("fdt") + 2) = 128 + 256 * cal.delta
  <2>1. cfg[EntryAt("fdt") + 2] = 128 /\ cfg[EntryAt("fdt") + 3] = cal.delta
    <3>1. Low(cal.delta) = cal.delta
      BY <1>4, SmallLow, Zenon
    <3> QED BY <3>1 DEF ConfigInv, Shaped
  <2>2. (EntryAt("fdt") + 2) + 1 = EntryAt("fdt") + 3
    BY <1>1, TemplateEntries
  <2> QED BY <2>1, <2>2 DEF WordAt, Le16
<1>6. ASSUME NEW r \in DOMAIN Registers
      PROVE  WordAt(cfg, EntryAt(r) + 2) = Setting(r)
  <2>1. CASE r = "dac"
    BY <2>1 DEF ConfigInv, Setting
  <2>2. CASE r = "tcode"
    BY <2>2 DEF ConfigInv, Setting
  <2>3. CASE r = "fdt"
    BY <1>5, <2>3 DEF Setting
  <2> QED BY <1>1, <2>1, <2>2, <2>3
<1>7. \A i \in 0..ChecksumOff - 1 :
        \/ cfg[i] = Template[i]
        \/ \E r \in DOMAIN Registers : \E e \in EntriesOf(cfg, r) : i \in {e + 2, e + 3}
  <2> SUFFICES ASSUME NEW i \in 0..ChecksumOff - 1, cfg[i] # Template[i]
               PROVE  \E r \in DOMAIN Registers :
                        \E e \in EntriesOf(cfg, r) : i \in {e + 2, e + 3}
    OBVIOUS
  <2>1. Patched(i)
    BY DEF ConfigInv, Shaped
  <2> QED BY <1>2, <2>1 DEF Patched
<1>8. Summed(cfg)
  BY DEF ConfigInv
<1> QED
  BY <1>2, <1>6, <1>7, <1>8 DEF ConfigPatched, Summed

-----------------------------------------------------------------------------
\* The touch bases: both tables follow the last valid reports, cell by cell.

BasesInv ==
  /\ offset \in Nat \ {1}
  /\ \A c \in Cells : FollowsLeft(downTable[c], left[c])
  /\ \A c \in Cells : FollowsTouch(upTable[c], touched[c])
  /\ ThresholdsFollow

\* The threshold for the finger to leave, as long as it fits a byte.
LEMMA RaisedEntry ==
  ASSUME offset \in Nat \ {1}, NEW raw \in Word16, NEW flag \in BOOLEAN
  PROVE  FollowsTouch(UpEntry(raw, flag), <<raw, flag>>)
<1> DEFINE raised == Half(raw) + UpOffset
<1> SUFFICES ASSUME raised < 256
             PROVE  UpEntry(raw, flag) =
                      [low |-> raised, high |-> IF flag THEN raised ELSE UpOffset - 2]
  BY DEF FollowsTouch
<1>1. UpOffset \in Nat /\ UpOffset >= 2
  BY DEF UpOffset
<1>2. Half(raw) \in Nat
  <2>1. raw \in Nat
    BY DEF Word16
  <2> QED BY <2>1 DEF Half
<1> HIDE DEF raised
<1>3. raised \in Byte
  BY <1>1, <1>2 DEF raised, Byte
<1>4. Low(raised) = raised /\ High(raised) = 0
  BY <1>3, SmallLow, Zenon
<1>5. ByteOr(raised, 0) = raised
  BY <1>3, OrAssumption
<1>6. Encoded(raw) = [low |-> raised, high |-> raised]
  BY <1>4, <1>5, Zenon DEF Encoded, Entry, raised
<1>7. UpOffset - 2 \in Byte /\ (IF offset = 0 THEN 19 ELSE offset - 2) = UpOffset - 2
  <2>1. UpOffset < 256
    BY <1>1, <1>2 DEF raised
  <2> QED BY <1>1, <2>1 DEF UpOffset, Byte
<1>8. Low(UpOffset - 2) = UpOffset - 2
  BY <1>7, SmallLow, Zenon
<1>9. Untouched(raw) = [low |-> raised, high |-> UpOffset - 2]
  BY <1>4, <1>6, <1>7, <1>8 DEF Untouched, Entry
<1> QED
  BY <1>6, <1>9 DEF UpEntry

LEMMA LeftEntry ==
  ASSUME NEW raw \in Word16
  PROVE  FollowsLeft(DownEntry(raw), <<raw>>)
<1>1. 128 \in Byte
  BY DEF Byte
<1>2. Low(128) = 128
  BY <1>1, SmallLow
<1> QED
  BY <1>2 DEF FollowsLeft, DownEntry, Entry

LEMMA ReportedRaw ==
  ASSUME NEW raws \in Reports, NEW c \in DOMAIN raws
  PROVE  raws[c] \in Word16
<1>1. PICK n \in -1..NumCells - 1 : raws \in [0..n -> Bases]
  BY DEF Reports
<1>2. raws[c] \in Bases
  BY <1>1
<1> QED
  BY <1>2, BasesAssumption

LEMMA BasesInitially ==
  ASSUME BasesInit(Offsets) \/ BasesInit({0})
  PROVE  BasesInv
<1>1. offset \in Nat \ {1}
  <2>1. offset \in Offsets \/ offset = 0
    BY DEF BasesInit
  <2>2. Offsets \subseteq Nat \ {1}
    BY BasesAssumption
  <2>3. 0 \in Nat \ {1}
    OBVIOUS
  <2> QED BY <2>1, <2>2, <2>3, Zenon
<1>2. \A c \in Cells : left[c] = <<>> /\ touched[c] = <<>>
  BY DEF BasesInit, Unknown
<1>3. sent.dir = "none"
  BY DEF BasesInit
<1> QED
  BY <1>1, <1>2, <1>3 DEF BasesInv, FollowsLeft, FollowsTouch, ThresholdsFollow

LEMMA BasesKept ==
  ASSUME BasesInv, [BasesNext]_baseVars
  PROVE  BasesInv'
<1>1. ASSUME UNCHANGED baseVars
      PROVE  BasesInv'
  BY <1>1 DEF BasesInv, baseVars, FollowsLeft, FollowsTouch, UpOffset,
              ThresholdsFollow
<1>2. CASE ReportDown
  <2>1. PICK raws \in Reports, flags \in SUBSET Cells :
          /\ upTable' = [c \in Cells |-> IF c \in DOMAIN raws
                                         THEN UpEntry(raws[c], c \in flags)
                                         ELSE upTable[c]]
          /\ touched' = [c \in Cells |-> IF c \in DOMAIN raws
                                         THEN <<raws[c], c \in flags>>
                                         ELSE touched[c]]
    BY <1>2 DEF ReportDown
  <2>2. UNCHANGED <<offset, downTable, sent, left>>
    BY <1>2 DEF ReportDown
  <2>3. ASSUME NEW c \in Cells
        PROVE  FollowsTouch(upTable'[c], touched'[c])
    <3>1. CASE c \in DOMAIN raws
      <4>1. raws[c] \in Word16
        BY <3>1, ReportedRaw
      <4>2. /\ upTable'[c] = UpEntry(raws[c], c \in flags)
            /\ touched'[c] = <<raws[c], c \in flags>>
        BY <2>1, <3>1
      <4>3. offset \in Nat \ {1} /\ (c \in flags) \in BOOLEAN
        BY DEF BasesInv
      <4> QED BY <4>1, <4>2, <4>3, RaisedEntry, Zenon
    <3>2. CASE c \notin DOMAIN raws
      BY <2>1, <3>2 DEF BasesInv
    <3> QED BY <3>1, <3>2
  <2>4. \A c \in Cells : FollowsTouch(upTable[c], touched[c])'
    BY <2>2, <2>3 DEF FollowsTouch, UpOffset
  <2> QED BY <2>2, <2>4
          DEF BasesInv, ThresholdsFollow, FollowsLeft, FollowsTouch, UpOffset
<1>3. CASE ReportLeft
  <2>1. PICK raws \in Reports :
          /\ downTable' = [c \in Cells |-> IF c \in DOMAIN raws
                                           THEN DownEntry(raws[c])
                                           ELSE downTable[c]]
          /\ left' = [c \in Cells |-> IF c \in DOMAIN raws THEN <<raws[c]>>
                                      ELSE left[c]]
    BY <1>3 DEF ReportLeft
  <2>2. UNCHANGED <<offset, upTable, sent, touched>>
    BY <1>3 DEF ReportLeft
  <2>3. ASSUME NEW c \in Cells
        PROVE  FollowsLeft(downTable'[c], left'[c])
    <3>1. CASE c \in DOMAIN raws
      <4>1. raws[c] \in Word16
        BY <3>1, ReportedRaw
      <4>2. downTable'[c] = DownEntry(raws[c]) /\ left'[c] = <<raws[c]>>
        BY <2>1, <3>1
      <4> QED BY <4>1, <4>2, LeftEntry, Zenon
    <3>2. CASE c \notin DOMAIN raws
      BY <2>1, <3>2 DEF BasesInv
    <3> QED BY <3>1, <3>2
  <2> QED BY <2>2, <2>3
          DEF BasesInv, ThresholdsFollow, FollowsLeft, FollowsTouch, UpOffset
<1>4. CASE ReportInvalid
  BY <1>1, <1>4 DEF ReportInvalid
<1>5. ASSUME NEW dir \in {"down", "up"}, Arm(dir)
      PROVE  BasesInv'
  <2>1. /\ sent'.dir = dir
        /\ sent'.manual = downTable
        /\ sent'.table = IF dir = "down" THEN downTable ELSE upTable
        /\ sent'.touched = touched /\ sent'.left = left
        /\ UNCHANGED <<offset, upTable, downTable, touched, left>>
    BY <1>5 DEF Arm, Manual
  <2>2. ThresholdsFollow'
    <3>1. ASSUME NEW c \in Cells
          PROVE  /\ FollowsLeft(sent'.manual[c], sent'.left[c])
                 /\ dir = "down" => FollowsLeft(sent'.table[c], sent'.left[c])
                 /\ dir = "up" => FollowsTouch(sent'.table[c], sent'.touched[c])
      BY <2>1 DEF BasesInv
    <3> QED BY <2>1, <3>1 DEF ThresholdsFollow, FollowsLeft, FollowsTouch, UpOffset
  <2> QED BY <2>1, <2>2 DEF BasesInv, FollowsLeft, FollowsTouch, UpOffset
<1> QED
  BY <1>1, <1>2, <1>3, <1>4, <1>5 DEF BasesNext

-----------------------------------------------------------------------------
\* The image: the arithmetic of rows and columns.

LEMMA RowsAndColumns ==
  ASSUME NEW q \in Nat, NEW r \in Nat, NEW rows \in {54, 64}, r < rows,
         NEW cols \in {16, 80, 176}
  PROVE  /\ RowIn(q * rows + r, rows) = r
         /\ Transposed(q * rows + r, rows, cols) = r * cols + q
<1>1. CASE rows = 54
  <2>1. (q * 54 + r) % 54 = r /\ (q * 54 + r) \div 54 = q
    BY <1>1
  <2> QED BY <1>1, <2>1 DEF RowIn, Transposed
<1>2. CASE rows = 64
  <2>1. (q * 64 + r) % 64 = r /\ (q * 64 + r) \div 64 = q
    BY <1>2
  <2> QED BY <1>2, <2>1 DEF RowIn, Transposed
<1> QED
  BY <1>1, <1>2

LEMMA PixelParts ==
  ASSUME NEW q \in Nat, NEW r \in Nat, NEW cols \in {16, 80, 176}, q < cols
  PROVE  RowOf(r * cols + q, cols) = r /\ ColOf(r * cols + q, cols) = q
<1>1. CASE cols = 16
  <2>1. (r * 16 + q) % 16 = q /\ (r * 16 + q) \div 16 = r
    BY <1>1
  <2> QED BY <1>1, <2>1 DEF RowOf, ColOf
<1>2. CASE cols = 80
  <2>1. (r * 80 + q) % 80 = q /\ (r * 80 + q) \div 80 = r
    BY <1>2
  <2> QED BY <1>2, <2>1 DEF RowOf, ColOf
<1>3. CASE cols = 176
  <2>1. (r * 176 + q) % 176 = q /\ (r * 176 + q) \div 176 = r
    BY <1>3
  <2> QED BY <1>3, <2>1 DEF RowOf, ColOf
<1> QED
  BY <1>1, <1>2, <1>3

\* The k-th sample of the g-th group.
LEMMA GroupSample ==
  ASSUME NEW from, NEW g \in Nat, NEW k \in 1..4
  PROVE  SampleFrom(from, 4 * g + k - 1) = Samples(Group(from + 6 * g))[k]
<1>1. (4 * g + k - 1) \div 4 = g /\ ((4 * g + k - 1) % 4) + 1 = k
  OBVIOUS
<1> QED
  BY <1>1, Zenon DEF SampleFrom

LEMMA Lengths3 ==
  /\ PackedLen(54) = 81 /\ PackedLen(54 + 2) = 84
  /\ Pitch(14784, 176) = 84 /\ Pitch(1344, 16) = 84 /\ Pitch(7680, 80) = 96
BY DEF PackedLen, Pitch

\* What a Milan column is packed to lies in the stride's first bytes.
LEMMA UnpackedAt ==
  ASSUME NEW col \in Nat, NEW b \in 0..81
  PROVE  Unpacked(col * 82 + b, 82, 84) = col * 84 + b
<1>1. (col * 82 + b) \div 82 = col /\ (col * 82 + b) % 82 = b
  OBVIOUS
<1> QED
  BY <1>1 DEF Unpacked

\* The first two samples need four of the six bytes, without the third.
LEMMA SamplesAgree ==
  ASSUME NEW b, NEW c, NEW n \in {2, 4},
         b[1] = c[1], b[2] = c[2], b[4] = c[4],
         n = 4 => b[3] = c[3] /\ b[5] = c[5] /\ b[6] = c[6]
  PROVE  \A k \in 1..n : Samples(b)[k] = Samples(c)[k]
BY DEF Samples

-----------------------------------------------------------------------------
\* The decoder: its loop has a column and a group in it, or only a group.

MilanAt(col, g) ==
  /\ format \in Formats /\ format.name \in Milan
  /\ col \in 0..format.cols /\ g \in 0..13
  /\ col = format.cols => g = 0
  /\ outPos = col * 54 + 4 * g
  /\ inPos = col * 82 + 6 * g

ChicagoAt(j) ==
  /\ format \in Formats /\ format.name \notin Milan
  /\ j \in Nat /\ 4 * j <= Total
  /\ outPos = 4 * j /\ inPos = 6 * j

DecoderInv ==
  /\ image \in Images
  /\ PixelsPlaced
  /\ decStep = "detect" => placed = <<>>
  /\ start \in Nat
  /\ decStep = "loop" =>
       (\E col, g \in Nat : MilanAt(col, g)) \/ (\E j \in Nat : ChicagoAt(j))

LEMMA MilanFormat ==
  ASSUME format \in Formats, format.name \in Milan
  PROVE  /\ format.rows = 54 /\ format.cols \in {16, 176}
         /\ format.name # "chicagohNav"
         /\ Take = 82 /\ Stride = 84 /\ Pitch(format.len, format.cols) = 84
         /\ Total = 54 * format.cols
<1>1. /\ format.rows = 54 /\ format.name # "chicagohNav"
      /\ (format.len = 14784 /\ format.cols = 176) \/ (format.len = 1344 /\ format.cols = 16)
  BY DEF Formats, Milan
<1>2. Take = 82 /\ Stride = 84
  BY <1>1, Lengths3 DEF Take, Stride
<1>3. Pitch(format.len, format.cols) = 84
  BY <1>1, Lengths3
<1> QED
  BY <1>1, <1>2, <1>3 DEF Total

LEMMA ChicagoFormat ==
  ASSUME format \in Formats, format.name \notin Milan
  PROVE  \/ /\ format.name = "chicagohRaw" /\ format.rows = 64 /\ format.cols = 80
            /\ format.len = 7680 /\ Total = 5120 /\ Transposes
            /\ Pitch(format.len, format.cols) = 96
         \/ /\ format.name = "chicagohNav" /\ format.rows = 64 /\ format.cols = 25
            /\ format.len = 2400 /\ Total = 1600 /\ ~Transposes
<1>1. \/ format = [name |-> "chicagohRaw", len |-> 7680, rows |-> 64, cols |-> 80]
      \/ format = [name |-> "chicagohNav", len |-> 2400, rows |-> 64, cols |-> 25]
  BY DEF Formats, Milan
<1>2. CASE format = [name |-> "chicagohRaw", len |-> 7680, rows |-> 64, cols |-> 80]
  <2>1. /\ format.name = "chicagohRaw" /\ format.rows = 64 /\ format.cols = 80
        /\ format.len = 7680
    BY <1>2
  <2> QED BY <2>1, Lengths3 DEF Total, Transposes
<1>3. CASE format = [name |-> "chicagohNav", len |-> 2400, rows |-> 64, cols |-> 25]
  <2>1. /\ format.name = "chicagohNav" /\ format.rows = 64 /\ format.cols = 25
        /\ format.len = 2400
    BY <1>3
  <2> QED BY <2>1 DEF Total, Transposes
<1> QED
  BY <1>1, <1>2, <1>3

\* What a length may be read as is one thing only.
LEMMA OneReading ==
  ASSUME image \in Images,
         NEW r \in Readings(image.head + image.f.len + image.tail)
  PROVE  r.f = image.f /\ r.head = image.head
<1>1. /\ r.f \in Formats \union Plain /\ image.f \in Formats \union Plain
      /\ r.head \in {0, 5} /\ r.tail \in {0, 4}
      /\ image.head \in {0, 5} /\ image.tail \in {0, 4}
      /\ image.head + image.f.len + image.tail = r.head + r.f.len + r.tail
  BY DEF Readings, Images, HeaderLen, CrcLen
<1>2. \A f \in Formats \union Plain : f.len \in {14784, 1344, 7680, 2400, 10240, 3200}
  BY DEF Formats, Plain
<1>3. \A f, g \in Formats \union Plain : f.len = g.len => f = g
  BY DEF Formats, Plain
<1>4. \A a, b \in {14784, 1344, 7680, 2400, 10240, 3200},
         h, i \in {0, 5}, t, u \in {0, 4} :
           h + a + t = i + b + u => a = b /\ h = i
  OBVIOUS
<1> QED
  BY <1>1, <1>2, <1>3, <1>4

LEMMA DetectKeeps ==
  ASSUME DecoderInv, Detect
  PROVE  DecoderInv'
<1>1. image' = image /\ placed' = <<>> /\ inPos' = 0 /\ outPos' = 0
  BY DEF Detect
<1>2. format' = image.f /\ start' = image.head
  <2>1. PICK r \in Readings(image.head + image.f.len + image.tail) :
          format' = r.f /\ start' = r.head
    BY DEF Detect
  <2> QED BY <2>1, OneReading DEF DecoderInv
<1>3. image.f \in Formats \union Plain /\ image.head \in Nat
  BY DEF DecoderInv, Images, HeaderLen
<1>4. decStep' = IF format' \in Plain THEN "copied" ELSE "loop"
  BY DEF Detect
<1>5. PixelsPlaced'
  BY <1>1, <1>2, <1>4 DEF PixelsPlaced
<1>6. ASSUME decStep' = "loop"
      PROVE  \/ \E col, g \in Nat : MilanAt(col, g)'
             \/ \E j \in Nat : ChicagoAt(j)'
  <2>1. format' \in Formats
    BY <1>2, <1>3, <1>4, <1>6
  <2>2. CASE format'.name \in Milan
    <3>1. format'.cols \in {16, 176}
      BY <2>1, <2>2 DEF Formats, Milan
    <3>2. MilanAt(0, 0)'
      BY <1>1, <2>1, <2>2, <3>1 DEF MilanAt
    <3> QED BY <3>2
  <2>3. CASE format'.name \notin Milan
    <3>1. Total' \in Nat
      BY <2>1 DEF Formats, Total
    <3>2. ChicagoAt(0)'
      BY <1>1, <2>1, <2>3, <3>1 DEF ChicagoAt
    <3> QED BY <3>2
  <2> QED BY <2>2, <2>3
<1> QED
  BY <1>1, <1>2, <1>3, <1>4, <1>5, <1>6 DEF DecoderInv

LEMMA MilanStepKeeps ==
  ASSUME DecoderInv, MilanStep
  PROVE  DecoderInv'
<1>1. /\ decStep = "loop" /\ decStep' = decStep
      /\ UNCHANGED <<image, format, start>>
      /\ outPos < Total /\ inPos < Take * format.cols
  BY DEF MilanStep
<1>2. PICK col \in Nat, g \in Nat : MilanAt(col, g)
  BY <1>1 DEF DecoderInv, MilanStep, ChicagoAt
<1>3. format \in Formats /\ format.name \in Milan
  BY <1>2 DEF MilanAt
<1>4. /\ format.rows = 54 /\ format.cols \in {16, 176}
      /\ format.name # "chicagohNav"
      /\ Take = 82 /\ Stride = 84 /\ Pitch(format.len, format.cols) = 84
      /\ Total = 54 * format.cols
  BY <1>3, MilanFormat
<1>5. start \in Nat /\ g \in 0..13 /\ col <= format.cols
  BY <1>2 DEF MilanAt, DecoderInv
<1>6. outPos = col * 54 + 4 * g /\ inPos = col * 82 + 6 * g
  BY <1>2 DEF MilanAt
<1>7. col < format.cols
  BY <1>1, <1>4, <1>5, <1>6
<1> DEFINE n == IF g = 13 THEN 2 ELSE 4
           bytes == [i \in 1..6 |-> Source(inPos + i - 1)]
           group == Group((start + col * 84) + 6 * g)
<1>8. RowIn(outPos, format.rows) = format.rows - 2 <=> g = 13
  <2>1. RowIn(col * 54 + 4 * g, 54) = 4 * g
    BY <1>5, RowsAndColumns
  <2> QED BY <1>4, <1>5, <1>6, <2>1
<1>9. /\ placed' = [k \in 1..n |-> [pixel |-> Pixel(outPos + k - 1),
                                    nibbles |-> Samples(bytes)[k]]]
      /\ outPos' = outPos + n
      /\ inPos' = inPos + (IF n = 2 THEN 4 ELSE 6)
  BY <1>8 DEF MilanStep
<1>10. ASSUME NEW i \in 1..6, 6 * g + i - 1 <= 81
       PROVE  bytes[i] = group[i]
  <2>1. inPos + i - 1 = col * 82 + (6 * g + i - 1) /\ 6 * g + i - 1 \in 0..81
    BY <1>5, <1>6, <1>10
  <2>2. Unpacked(inPos + i - 1, 82, 84) = col * 84 + (6 * g + i - 1)
    BY <2>1, UnpackedAt
  <2>3. bytes[i] = start + (col * 84 + (6 * g + i - 1))
    BY <1>4, <2>2 DEF Source
  <2> QED BY <1>5, <2>3 DEF Group
<1>11. \A k \in 1..n : Samples(bytes)[k] = Samples(group)[k]
  <2>1. bytes[1] = group[1] /\ bytes[2] = group[2] /\ bytes[4] = group[4]
    BY <1>5, <1>10
  <2>2. n = 4 => bytes[3] = group[3] /\ bytes[5] = group[5] /\ bytes[6] = group[6]
    BY <1>5, <1>10
  <2> HIDE DEF bytes, group
  <2> QED BY <2>1, <2>2, SamplesAgree
<1> HIDE DEF bytes, group
<1>12. ASSUME NEW k \in 1..n
       PROVE  /\ Pixel(outPos + k - 1) \in 0..Total - 1
              /\ Samples(group)[k] = SampleOf(Pixel(outPos + k - 1))
  <2> DEFINE r == 4 * g + k - 1
  <2>1. k \in 1..4 /\ r \in Nat /\ r < 54
    BY <1>5
  <2>2. outPos + k - 1 = col * 54 + r
    BY <1>6, <1>5, <2>1
  <2>3. SampleFrom(start + col * 84, r) = Samples(group)[k]
    BY <1>5, <2>1, GroupSample DEF group
  <2> HIDE DEF r
  <2>4. Pixel(outPos + k - 1) = r * format.cols + col
    BY <1>4, <2>1, <2>2, RowsAndColumns DEF Pixel
  <2>5. RowOf(r * format.cols + col, format.cols) = r
        /\ ColOf(r * format.cols + col, format.cols) = col
    <3>1. CASE format.cols = 16
      <4>1. RowOf(r * 16 + col, 16) = r /\ ColOf(r * 16 + col, 16) = col
        BY <1>7, <2>1, <3>1, PixelParts
      <4> QED BY <3>1, <4>1
    <3>2. CASE format.cols = 176
      <4>1. col \in Nat /\ r \in Nat /\ col < 176
        BY <1>7, <2>1, <3>2
      <4>2. 176 \in {16, 80, 176}
        OBVIOUS
      <4>3. RowOf(r * 176 + col, 176) = r /\ ColOf(r * 176 + col, 176) = col
        BY <4>1, <4>2, PixelParts, Zenon
      <4> QED BY <3>2, <4>3
    <3> QED BY <1>4, <3>1, <3>2
  <2>6. SampleOf(Pixel(outPos + k - 1)) = SampleFrom(start + col * 84, r)
    BY <1>4, <2>4, <2>5 DEF SampleOf
  <2>7. r * format.cols + col \in 0..Total - 1
    BY <1>4, <1>7, <2>1
  <2> QED BY <2>3, <2>4, <2>6, <2>7
<1>13. PixelsPlaced'
  <2>1. Total' = Total /\ \A x : SampleOf(x)' = SampleOf(x)
    BY <1>1 DEF Total, SampleOf
  <2>2. ASSUME NEW k \in DOMAIN placed'
        PROVE  /\ placed'[k].pixel \in 0..Total - 1
               /\ placed'[k].nibbles = SampleOf(placed'[k].pixel)
    BY <1>9, <1>11, <1>12
  <2> QED BY <1>1, <2>1, <2>2 DEF PixelsPlaced, DecoderInv
<1>14. \E c, h \in Nat : MilanAt(c, h)'
  <2>1. CASE g = 13
    <3>1. MilanAt(col + 1, 0)'
      BY <1>1, <1>3, <1>4, <1>5, <1>6, <1>7, <1>9, <2>1 DEF MilanAt
    <3> QED BY <3>1
  <2>2. CASE g # 13
    <3>1. MilanAt(col, g + 1)'
      BY <1>1, <1>3, <1>4, <1>5, <1>6, <1>7, <1>9, <2>2 DEF MilanAt
    <3> QED BY <1>5, <3>1
  <2> QED BY <2>1, <2>2
<1> QED
  BY <1>1, <1>13, <1>14 DEF DecoderInv

LEMMA ChicagoStepKeeps ==
  ASSUME DecoderInv, ChicagoStep
  PROVE  DecoderInv'
<1>1. /\ decStep = "loop" /\ decStep' = decStep
      /\ UNCHANGED <<image, format, start>>
      /\ inPos + 6 <= format.len
      /\ outPos' = outPos + 4 /\ inPos' = inPos + 6
  BY DEF ChicagoStep
<1>2. PICK j \in Nat : ChicagoAt(j)
  BY <1>1 DEF DecoderInv, ChicagoStep, MilanAt
<1>3. format \in Formats /\ format.name \notin Milan
  BY <1>2 DEF ChicagoAt
<1>4. outPos = 4 * j /\ inPos = 6 * j /\ start \in Nat
  BY <1>2 DEF ChicagoAt, DecoderInv
<1> DEFINE group == Group(start + 6 * j)
<1>5. placed' = [k \in 1..4 |->
                   [pixel |-> IF Transposes THEN Pixel(outPos + k - 1)
                                            ELSE outPos + k - 1,
                    nibbles |-> Samples(group)[k]]]
  BY <1>4 DEF ChicagoStep
<1> HIDE DEF group
<1>6. ASSUME NEW k \in 1..4
      PROVE  /\ placed'[k].pixel \in 0..Total - 1
             /\ Samples(group)[k] = SampleOf(placed'[k].pixel)
  <2>1. CASE format.name = "chicagohRaw"
    <3>1. /\ format.rows = 64 /\ format.cols = 80 /\ format.len = 7680
          /\ Total = 5120 /\ Transposes /\ Pitch(format.len, format.cols) = 96
      BY <1>3, <2>1, ChicagoFormat
    <3> DEFINE col == j \div 16
               g == j % 16
               r == 4 * g + k - 1
    <3>2. col \in Nat /\ g \in 0..15 /\ j = col * 16 + g
      OBVIOUS
    <3>3. col < 80
      BY <1>1, <1>4, <3>1, <3>2
    <3> HIDE DEF col, g
    <3>4. r \in Nat /\ r < 64 /\ outPos + k - 1 = col * 64 + r
      BY <1>4, <3>2
    <3>5. SampleFrom(start + col * 96, r) = Samples(group)[k]
      <4>1. SampleFrom(start + col * 96, r) = Samples(Group((start + col * 96) + 6 * g))[k]
        BY <3>2, GroupSample
      <4>2. (start + col * 96) + 6 * g = start + 6 * j
        BY <1>4, <3>2
      <4> QED BY <4>1, <4>2 DEF group
    <3> HIDE DEF r
    <3>6. placed'[k].pixel = r * 80 + col
      <4>1. Transposed(col * 64 + r, 64, 80) = r * 80 + col
        BY <3>2, <3>4, RowsAndColumns
      <4> QED BY <1>5, <3>1, <3>4, <4>1 DEF Pixel
    <3>7. RowOf(r * 80 + col, 80) = r /\ ColOf(r * 80 + col, 80) = col
      BY <3>2, <3>3, <3>4, PixelParts
    <3>8. SampleOf(placed'[k].pixel) = SampleFrom(start + col * 96, r)
      BY <2>1, <3>1, <3>6, <3>7 DEF SampleOf
    <3>9. r * 80 + col \in 0..5119
      BY <3>2, <3>3, <3>4
    <3> QED BY <3>1, <3>5, <3>6, <3>8, <3>9
  <2>2. CASE format.name = "chicagohNav"
    <3>1. format.len = 2400 /\ Total = 1600 /\ ~Transposes
      BY <1>3, <2>2, ChicagoFormat
    <3>2. placed'[k].pixel = 4 * j + k - 1
      BY <1>4, <1>5, <3>1
    <3>3. 4 * j + k - 1 \in 0..1599
      BY <1>1, <1>4, <3>1
    <3>4. SampleOf(4 * j + k - 1) = Samples(group)[k]
      BY <2>2, GroupSample DEF SampleOf, group
    <3> QED BY <3>1, <3>2, <3>3, <3>4
  <2> QED BY <1>3, <2>1, <2>2, ChicagoFormat
<1>7. PixelsPlaced'
  <2>1. Total' = Total /\ \A x : SampleOf(x)' = SampleOf(x)
    BY <1>1 DEF Total, SampleOf
  <2>2. ASSUME NEW k \in DOMAIN placed'
        PROVE  /\ placed'[k].pixel \in 0..Total - 1
               /\ placed'[k].nibbles = SampleOf(placed'[k].pixel)
    <3>1. k \in 1..4
      BY <1>5
    <3> QED BY <1>5, <1>6, <3>1
  <2> QED BY <1>1, <2>1, <2>2 DEF PixelsPlaced, DecoderInv
<1>8. ChicagoAt(j + 1)'
  <2>1. 6 * j + 6 <= format.len
    BY <1>1, <1>4
  <2>2. 4 * (j + 1) <= Total /\ Total' = Total
    BY <1>1, <1>3, <2>1, ChicagoFormat DEF Total
  <2> QED BY <1>1, <1>3, <1>4, <2>2 DEF ChicagoAt
<1> QED
  BY <1>1, <1>7, <1>8 DEF DecoderInv

\* The loop ends with every pixel placed: no image is refused.
LEMMA LoopEndsKeeps ==
  ASSUME DecoderInv, LoopEnds
  PROVE  DecoderInv'
<1>1. /\ decStep = "loop" /\ placed' = <<>>
      /\ decStep' = IF outPos = Total THEN "decoded" ELSE "refused"
      /\ UNCHANGED <<image, format, start, inPos, outPos>>
  BY DEF LoopEnds
<1>2. outPos = Total
  <2>1. ASSUME NEW col \in Nat, NEW g \in Nat, MilanAt(col, g)
        PROVE  outPos = Total
    <3>1. format \in Formats /\ format.name \in Milan
      BY <2>1 DEF MilanAt
    <3>2. format.cols \in {16, 176} /\ Take = 82 /\ Total = 54 * format.cols
      BY <3>1, MilanFormat
    <3>3. outPos >= Total \/ inPos >= Take * format.cols
      BY <3>1 DEF LoopEnds
    <3>4. col <= format.cols /\ g \in 0..13 /\ (col = format.cols => g = 0)
          /\ outPos = col * 54 + 4 * g /\ inPos = col * 82 + 6 * g
      BY <2>1, <3>2 DEF MilanAt
    <3> QED BY <3>2, <3>3, <3>4
  <2>2. ASSUME NEW j \in Nat, ChicagoAt(j)
        PROVE  outPos = Total
    <3>1. format \in Formats /\ format.name \notin Milan
      BY <2>2 DEF ChicagoAt
    <3>2. inPos + 6 > format.len
      BY <3>1 DEF LoopEnds
    <3>3. 4 * j <= Total /\ outPos = 4 * j /\ inPos = 6 * j
      BY <2>2 DEF ChicagoAt
    <3>4. (format.len = 7680 /\ Total = 5120) \/ (format.len = 2400 /\ Total = 1600)
      BY <3>1, ChicagoFormat
    <3> QED BY <3>2, <3>3, <3>4
  <2> QED BY <1>1, <2>1, <2>2 DEF DecoderInv
<1>3. decStep' = "decoded"
  BY <1>1, <1>2
<1>4. PixelsPlaced'
  BY <1>1, <1>3 DEF PixelsPlaced, DecoderInv
<1> QED
  BY <1>1, <1>3, <1>4 DEF DecoderInv

LEMMA DecoderKept ==
  ASSUME DecoderInv, [DecoderNext]_decoderVars
  PROVE  DecoderInv'
<1>1. CASE UNCHANGED decoderVars
  BY <1>1 DEF decoderVars, DecoderInv, PixelsPlaced, SampleOf, Total, MilanAt, ChicagoAt
<1> QED
  BY <1>1, DetectKeeps, MilanStepKeeps, ChicagoStepKeeps, LoopEndsKeeps DEF DecoderNext

LEMMA DecoderInitially ==
  ASSUME DecoderInit(Images) \/ DecoderInit({AnImage})
  PROVE  DecoderInv
<1>1. AnImage \in Images
  <2>1. [f |-> [name |-> "milangNav", len |-> 1344, rows |-> 54, cols |-> 16],
         head |-> 0, tail |-> 0] \in Images
    BY DEF Images, Formats, HeaderLen, CrcLen
  <2> QED BY <2>1 DEF AnImage
<1>2. /\ image \in Images /\ start = 0 /\ placed = <<>> /\ decStep = "detect"
  BY <1>1 DEF DecoderInit
<1> QED
  BY <1>2 DEF DecoderInv, PixelsPlaced

-----------------------------------------------------------------------------
\* The packets.

MpOf(a) == [head |-> HeadOf(TypeCmd, BodyLen(a)), body |-> Body(a)]

Asked == [cmd : Byte, len : PayloadLengths, sum : Byte]

Sendable(a) == a \in Asked /\ BodyLen(a) <= MaxPayload

\* One byte of the head changed to another value.
Damaged(m, e) ==
  \E f \in {"flags", "low", "high", "check"} : \E v \in Byte :
    v # m.head[f] /\ e = [m EXCEPT !.head[f] = v]

PacketsInv ==
  /\ packets \in Nat /\ seq16 = Mod16(SeqStart + packets)
  /\ pktStep \in {"idle", "tooLong", "built", "wrapped", "written", "echoed", "parsed"}
  /\ pktStep \in {"built", "wrapped", "written", "echoed", "parsed"} =>
       Sendable(asked) /\ mp = MpOf(asked)
  /\ pktStep \in {"echoed", "parsed"} => echo = mp \/ Damaged(mp, echo)
  /\ PacketsRoundTrip

LEMMA ShortPayload ==
  ASSUME NEW n \in PayloadLengths
  PROVE  /\ n \in Int /\ n + 1 \in Word16
         /\ 1 + 2 + n + 1 <= MaxPayload => n + 4 \in 4..500
<1>1. n \in Int /\ 0 <= n /\ n <= 65280
  BY DEF PayloadLengths, PayloadMax
<1>2. n + 1 \in Word16
  <2>1. n + 1 \in Int /\ 0 <= n + 1 /\ n + 1 <= WordMax
    BY <1>1, WordMaxIs
  <2> QED BY <2>1, WordMaxIs DEF Word16
<1>3. MaxPayload = 500
  BY DEF MaxPayload, TxBufferSize
<1>4. 1 + 2 + n + 1 <= 500 => n + 4 \in 4..500
  BY <1>1
<1> QED BY <1>1, <1>2, <1>3, <1>4

LEMMA ShortWord ==
  ASSUME NEW n \in 4..500
  PROVE  n \in Word16
BY WordMaxIs DEF Word16

\* The head of a packet of a sendable command.
LEMMA HeadBytes ==
  ASSUME NEW a, Sendable(a)
  PROVE  LET len == BodyLen(a)
             h == HeadOf(TypeCmd, len)
         IN /\ len \in 4..500 /\ len = a.len + 4
            /\ h.flags = 160 /\ h.low \in Byte /\ h.high \in Byte
            /\ Le16(h.low, h.high) = len
            /\ h.check = Low(160 + h.low + h.high)
<1>1. a.len \in PayloadLengths
  BY DEF Sendable, Asked
<1>2. a.len \in Int /\ (1 + 2 + a.len + 1 <= MaxPayload => a.len + 4 \in 4..500)
  BY <1>1, ShortPayload, Zenon
<1>3. BodyLen(a) = a.len + 4 /\ BodyLen(a) \in 4..500 /\ BodyLen(a) \in Word16
  <2>1. 1 + 2 + a.len + 1 <= MaxPayload
    BY Zenon DEF Sendable, BodyLen
  <2>2. BodyLen(a) = a.len + 4
    BY <1>2 DEF BodyLen
  <2>3. BodyLen(a) \in 4..500
    BY <1>2, <2>1, <2>2, Zenon
  <2> QED BY <2>2, <2>3, ShortWord, Zenon
<1>4. /\ Low(BodyLen(a)) \in Byte /\ High(BodyLen(a)) \in Byte
      /\ Le16(Low(BodyLen(a)), High(BodyLen(a))) = BodyLen(a)
  BY <1>3, Words, Zenon
<1>5. HeadOf(TypeCmd, BodyLen(a)) =
        [flags |-> 160, low |-> Low(BodyLen(a)), high |-> High(BodyLen(a)),
         check |-> Low(160 + Low(BodyLen(a)) + High(BodyLen(a)))]
  BY DEF HeadOf, TypeCmd
<1> QED
  BY <1>3, <1>4, <1>5

\* The lengths of the body's own header.
LEMMA BodyBytes ==
  ASSUME NEW a, Sendable(a)
  PROVE  /\ Le16(Body(a).low, Body(a).high) = a.len + 1
         /\ Body(a).cmd = a.cmd
         /\ Body(a).check = ProtoChecksum(a.cmd, a.len + 1, a.sum)
         /\ Body(a).sum = a.sum
<1>0. a.len \in PayloadLengths
  BY DEF Sendable, Asked
<1>1. a.len + 1 \in Word16
  BY <1>0, ShortPayload, Zenon
<1>2. Le16(Low(a.len + 1), High(a.len + 1)) = a.len + 1
  BY <1>1, Words, Zenon
<1> QED
  BY <1>2 DEF Body

LEMMA CheckOfByte ==
  ASSUME NEW x \in Byte, NEW y \in Byte, NEW s \in Int, x # y
  PROVE  Low(s + x) # Low(s + y)
<1>1. x \in Int /\ y \in Int /\ 0 <= x /\ x < 256 /\ 0 <= y /\ y < 256
  BY DEF Byte
<1>2. (s + x) % 256 # (s + y) % 256
  BY <1>1
<1> QED BY <1>2 DEF Low

\* A head with one byte changed is refused.
LEMMA DamagedInvalid ==
  ASSUME NEW h, h.flags \in Byte, h.low \in Byte, h.high \in Byte,
         h.check = Low(h.flags + h.low + h.high),
         NEW f \in {"flags", "low", "high", "check"}, NEW v \in Byte, v # h[f],
         DOMAIN h = {"flags", "low", "high", "check"}, h = [x \in DOMAIN h |-> h[x]]
  PROVE  ~HeadValid([h EXCEPT ![f] = v])
<1> DEFINE d == [h EXCEPT ![f] = v]
<1>0. h.flags \in Int /\ h.low \in Int /\ h.high \in Int /\ v \in Int
  BY DEF Byte
<1>1. d[f] = v /\ \A x \in {"flags", "low", "high", "check"} \ {f} : d[x] = h[x]
  OBVIOUS
<1> HIDE DEF d
<1> SUFFICES d.check # Low(d.flags + d.low + d.high)
  BY DEF HeadValid, d
<1>2. CASE f = "flags"
  <2>1. Low((h.low + h.high) + v) # Low((h.low + h.high) + h.flags)
    BY <1>0, <1>2, CheckOfByte
  <2>2. /\ (h.low + h.high) + v = v + h.low + h.high
        /\ (h.low + h.high) + h.flags = h.flags + h.low + h.high
    BY <1>0
  <2> QED BY <1>1, <1>2, <2>1, <2>2
<1>3. CASE f = "low"
  <2>1. Low((h.flags + h.high) + v) # Low((h.flags + h.high) + h.low)
    BY <1>0, <1>3, CheckOfByte
  <2>2. /\ (h.flags + h.high) + v = h.flags + v + h.high
        /\ (h.flags + h.high) + h.low = h.flags + h.low + h.high
    BY <1>0
  <2> QED BY <1>1, <1>3, <2>1, <2>2
<1>4. CASE f = "high"
  <2>1. Low((h.flags + h.low) + v) # Low((h.flags + h.low) + h.high)
    BY <1>0, <1>4, CheckOfByte
  <2> QED BY <1>1, <1>4, <2>1
<1>5. CASE f = "check"
  BY <1>1, <1>5
<1> QED
  BY <1>2, <1>3, <1>4, <1>5

\* What is padded to whole blocks of eight.
LEMMA Padded ==
  ASSUME NEW n \in 4..500
  PROVE  /\ WrappedLen(n + 4) \in Blocks
         /\ WrappedLen(n + 4) \in 8 + (n + 4)..TxBufferSize
         /\ ~(WrappedLen(n + 4) > TxBufferSize)
<1> DEFINE m == n + 4
           k == (m + 15) \div 8
<1>1. k \in 0..64 /\ 8 + m + ((8 - (m % 8)) % 8) = 8 * k
  OBVIOUS
<1>2. 8 * k >= 8 + m /\ 8 * k <= 512
  OBVIOUS
<1>3. WrappedLen(n + 4) = 8 * k
  BY <1>1 DEF WrappedLen
<1>4. TxBufferSize = 512 /\ TxBufferSize \div 8 = 64
  BY DEF TxBufferSize
<1> HIDE DEF k
<1>5. WrappedLen(n + 4) \in Blocks
  BY <1>1, <1>3, <1>4 DEF Blocks
<1> QED
  BY <1>1, <1>2, <1>3, <1>4, <1>5

LEMMA BuildKeeps ==
  ASSUME PacketsInv, Build
  PROVE  PacketsInv'
<1>1. /\ UNCHANGED <<seq16, packet, echo, parsed, packets>>
      /\ pktStep = "idle" /\ pktStep' \in {"tooLong", "built"}
  BY DEF Build
<1>2. PICK a \in [cmd : Opcodes, len : Lengths, sum : Sums] :
        /\ asked' = a
        /\ IF BodyLen(a) > MaxPayload
           THEN pktStep' = "tooLong" /\ UNCHANGED mp
           ELSE /\ pktStep' = "built"
                /\ mp' = [head |-> HeadOf(TypeCmd, BodyLen(a)), body |-> Body(a)]
  BY DEF Build
<1>3. a \in Asked
  BY PacketsAssumption DEF Asked
<1>4. a.len \in PayloadLengths
  BY <1>3 DEF Asked
<1>5. BodyLen(a) \in Int /\ MaxPayload \in Int
      /\ (BodyLen(a) > MaxPayload => a.len > 496)
  <2>1. a.len \in Int
    BY <1>4, ShortPayload, Zenon
  <2> QED BY <2>1 DEF BodyLen, MaxPayload, TxBufferSize
<1>6. CASE BodyLen(a) > MaxPayload
  BY <1>1, <1>2, <1>5, <1>6 DEF PacketsInv, PacketsRoundTrip
<1>7. CASE ~(BodyLen(a) > MaxPayload)
  <2>1. Sendable(a)
    BY <1>3, <1>5, <1>7 DEF Sendable
  <2>2. pktStep' = "built" /\ asked' = a /\ mp' = MpOf(a)
    BY <1>2, <1>7 DEF MpOf
  <2>3. PacketsRoundTrip'
    BY <2>2 DEF PacketsRoundTrip
  <2> QED BY <1>1, <2>1, <2>2, <2>3 DEF PacketsInv
<1> QED
  BY <1>6, <1>7

LEMMA WrapKeeps ==
  ASSUME PacketsInv, Wrap
  PROVE  PacketsInv'
<1>1. /\ UNCHANGED <<asked, mp, echo, parsed>>
      /\ pktStep = "built" /\ Sendable(asked) /\ mp = MpOf(asked)
  BY DEF Wrap, PacketsInv
<1> DEFINE n == BodyLen(asked)
           mpLen == n + 4
<1>2. /\ n \in 4..500 /\ n = asked.len + 4
      /\ Le16(mp.head.low, mp.head.high) = n
  BY <1>1, HeadBytes DEF MpOf
<1>3. 4 + Le16(mp.head.low, mp.head.high) = mpLen
  BY <1>2
<1>4. /\ WrappedLen(mpLen) \in Blocks
      /\ WrappedLen(mpLen) \in 8 + mpLen..TxBufferSize
      /\ ~(WrappedLen(mpLen) > TxBufferSize)
  BY <1>2, Padded
<1> HIDE DEF n, mpLen
<1>5. /\ seq16' = NextSeq /\ packets' = packets + 1 /\ pktStep' = "wrapped"
      /\ packet'.low = Low(mpLen) /\ packet'.high = High(mpLen)
      /\ packet'.seqLow = Low(seq16') /\ packet'.seqHigh = High(seq16')
      /\ packet'.size = WrappedLen(mpLen)
  BY <1>3, <1>4 DEF Wrap
<1>6. mpLen \in Word16 /\ mpLen = asked.len + 8
  <2>1. mpLen \in 8..504
    BY <1>2 DEF mpLen
  <2>2. mpLen \in Word16
    BY <2>1, WordMaxIs DEF Word16
  <2>3. asked.len \in Int
    <3>1. asked.len \in PayloadLengths
      BY <1>1 DEF Sendable, Asked
    <3> QED BY <3>1, ShortPayload, Zenon
  <2> QED BY <1>2, <2>2, <2>3 DEF mpLen
<1>7. Le16(Low(mpLen), High(mpLen)) = mpLen
  BY <1>6, Words, Zenon
<1>8. packets' \in Nat /\ seq16' = Mod16(SeqStart + packets') /\ seq16' \in Word16
  <2>1. /\ packets \in Nat /\ seq16 = Mod16(SeqStart + packets) /\ SeqStart \in Int
    <3>1. SeqStart \in Int
      BY PacketsAssumption DEF Word16
    <3> QED BY <3>1 DEF PacketsInv
  <2>2. Mod16(Mod16(SeqStart + packets) + 1) = Mod16(SeqStart + (packets + 1))
    BY <2>1, NextWord, Zenon
  <2>3. SeqStart + (packets + 1) \in Int
    BY <2>1
  <2>4. packets' \in Nat /\ packets' = packets + 1
    BY <1>5, <2>1
  <2>5. seq16' = Mod16(SeqStart + (packets + 1))
    BY <1>5, <2>1, <2>2, Zenon DEF NextSeq
  <2>6. Mod16(SeqStart + (packets + 1)) \in Word16
    BY <2>3, ByteBounds, Zenon
  <2> QED BY <2>4, <2>5, <2>6
<1>9. Le16(Low(seq16'), High(seq16')) = seq16'
  BY <1>8, Words, Zenon
<1>10. PacketsRoundTrip'
  BY <1>1, <1>4, <1>5, <1>6, <1>7, <1>8, <1>9 DEF PacketsRoundTrip
<1> QED
  BY <1>1, <1>5, <1>8, <1>10 DEF PacketsInv

\* The frame of the command, undamaged, is valid and parses to the command.
LEMMA ParsedAsAsked ==
  ASSUME NEW a, Sendable(a)
  PROVE  LET m == MpOf(a)
             declLen == Le16(m.body.low, m.body.high)
         IN /\ HeadValid(m.head)
            /\ declLen >= 1 /\ declLen - 1 = a.len
            /\ 3 + (declLen - 1) + 1 <= Le16(m.head.low, m.head.high)
            /\ m.body.cmd = a.cmd
            /\ m.body.check = ProtoChecksum(m.body.cmd, declLen, m.body.sum)
<1> DEFINE n == BodyLen(a)
           h == HeadOf(TypeCmd, n)
           b == Body(a)
<1>1. /\ n \in 4..500 /\ n = a.len + 4
      /\ h.flags = 160 /\ h.low \in Byte /\ h.high \in Byte
      /\ Le16(h.low, h.high) = n
      /\ h.check = Low(160 + h.low + h.high)
  BY HeadBytes
<1>2. /\ Le16(b.low, b.high) = a.len + 1 /\ b.cmd = a.cmd
      /\ b.check = ProtoChecksum(a.cmd, a.len + 1, a.sum) /\ b.sum = a.sum
  BY BodyBytes
<1>3. MpOf(a).head = h /\ MpOf(a).body = b
  BY DEF MpOf
<1>4. a.len \in Nat
  <2>1. a.len \in PayloadLengths
    BY DEF Sendable, Asked
  <2> QED BY <2>1 DEF PayloadLengths
<1> HIDE DEF n, h, b
<1>5. HeadValid(h)
  <2>1. TypeOf(160) \in Types
    BY DEF TypeOf, Types
  <2>2. n < LenMax
    BY <1>1 DEF LenMax
  <2> QED BY <1>1, <2>1, <2>2 DEF HeadValid
<1> QED
  BY <1>1, <1>2, <1>3, <1>4, <1>5

\* The frame of the command with one byte of its head changed is not valid.
LEMMA DamagedRefused ==
  ASSUME NEW a, Sendable(a), NEW e, Damaged(MpOf(a), e)
  PROVE  ~HeadValid(e.head)
<1> DEFINE h == HeadOf(TypeCmd, BodyLen(a))
<1>1. PICK f \in {"flags", "low", "high", "check"}, v \in Byte :
        v # h[f] /\ e = [MpOf(a) EXCEPT !.head[f] = v]
  BY DEF Damaged, MpOf
<1>2. e.head = [h EXCEPT ![f] = v]
  BY <1>1 DEF MpOf
<1>3. /\ h.flags = 160 /\ h.low \in Byte /\ h.high \in Byte
      /\ h.check = Low(160 + h.low + h.high)
  BY HeadBytes
<1>4. /\ DOMAIN h = {"flags", "low", "high", "check"}
      /\ h = [x \in DOMAIN h |-> h[x]]
  BY DEF HeadOf
<1>5. 160 \in Byte
  BY DEF Byte
<1> HIDE DEF h
<1>6. h.flags \in Byte /\ h.check = Low(h.flags + h.low + h.high)
  BY <1>3, <1>5
<1>7. ~HeadValid([h EXCEPT ![f] = v])
  BY <1>1, <1>3, <1>4, <1>6, DamagedInvalid, Zenon
<1> QED
  BY <1>2, <1>7

LEMMA EchoKeeps ==
  ASSUME PacketsInv, Echo
  PROVE  PacketsInv'
<1>1. /\ pktStep = "written" /\ pktStep' = "echoed"
      /\ UNCHANGED <<asked, mp, seq16, packet, parsed, packets>>
  BY DEF Echo
<1>2. Sendable(asked) /\ mp = MpOf(asked)
  BY <1>1 DEF PacketsInv
<1>3. echo' = mp \/ Damaged(mp, echo')
  <2>1. CASE echo' = mp
    BY <2>1
  <2>2. ASSUME NEW f \in {"flags", "low", "high", "check"},
               NEW v \in {0, 1, 160, 176, 255},
               echo' = [mp EXCEPT !.head[f] = v]
        PROVE  echo' = mp \/ Damaged(mp, echo')
    <3>1. v \in Byte
      BY DEF Byte
    <3>2. CASE v = mp.head[f]
      BY <1>2, <2>2, <3>2 DEF MpOf, HeadOf
    <3>3. CASE v # mp.head[f]
      BY <2>2, <3>1, <3>3 DEF Damaged
    <3> QED BY <3>2, <3>3
  <2> QED BY <2>1, <2>2 DEF Echo
<1>4. PacketsRoundTrip'
  BY <1>1 DEF PacketsRoundTrip
<1> QED
  BY <1>1, <1>2, <1>3, <1>4 DEF PacketsInv, Damaged, Sendable, Asked, MpOf

LEMMA ParseKeeps ==
  ASSUME PacketsInv, Parse
  PROVE  PacketsInv'
<1>1. /\ pktStep = "echoed" /\ pktStep' = "parsed"
      /\ UNCHANGED <<asked, mp, seq16, packet, echo, packets>>
  BY DEF Parse
<1>2. Sendable(asked) /\ mp = MpOf(asked) /\ (echo = mp \/ Damaged(mp, echo))
  BY <1>1 DEF PacketsInv
<1>3. CASE echo = mp
  <2> DEFINE declLen == Le16(mp.body.low, mp.body.high)
  <2>1. /\ HeadValid(mp.head)
        /\ declLen >= 1 /\ declLen - 1 = asked.len
        /\ 3 + (declLen - 1) + 1 <= Le16(mp.head.low, mp.head.high)
        /\ mp.body.cmd = asked.cmd
        /\ mp.body.check = ProtoChecksum(mp.body.cmd, declLen, mp.body.sum)
    BY <1>2, ParsedAsAsked
  <2>2. parsed' = [valid |-> TRUE, cmd |-> asked.cmd, len |-> asked.len, ok |-> TRUE]
    BY <1>3, <2>1 DEF Parse
  <2>3. PacketsRoundTrip'
    BY <1>1, <1>3, <2>2 DEF PacketsRoundTrip
  <2> QED BY <1>1, <1>2, <2>3 DEF PacketsInv, Damaged, Sendable, Asked, MpOf
<1>4. CASE Damaged(mp, echo)
  <2>1. ~HeadValid(echo.head)
    BY <1>2, <1>4, DamagedRefused
  <2>2. parsed' = [valid |-> FALSE]
    BY <2>1 DEF Parse
  <2>3. echo # mp
    BY <1>2, <2>1, ParsedAsAsked
  <2>4. PacketsRoundTrip'
    BY <1>1, <2>2, <2>3 DEF PacketsRoundTrip
  <2> QED BY <1>1, <1>2, <2>4 DEF PacketsInv, Damaged, Sendable, Asked, MpOf
<1> QED
  BY <1>2, <1>3, <1>4

LEMMA PacketsKept ==
  ASSUME PacketsInv, [PacketsNext]_packetVars
  PROVE  PacketsInv'
<1>1. CASE UNCHANGED packetVars
  BY <1>1 DEF packetVars, PacketsInv, PacketsRoundTrip, Damaged, Sendable, Asked, MpOf
<1>2. CASE Write
  BY <1>2 DEF Write, PacketsInv, PacketsRoundTrip, Sendable, Asked, MpOf
<1>3. CASE Forget
  BY <1>3 DEF Forget, PacketsInv, PacketsRoundTrip
<1> QED
  BY <1>1, <1>2, <1>3, BuildKeeps, WrapKeeps, EchoKeeps, ParseKeeps
     DEF PacketsNext, SendFails, Again

LEMMA PacketsInitially ==
  ASSUME PacketsInit
  PROVE  PacketsInv
<1>1. packets \in Nat /\ SeqStart + packets = SeqStart /\ SeqStart \in Word16
  <2>1. SeqStart \in Int
    BY PacketsAssumption DEF Word16
  <2> QED BY <2>1, PacketsAssumption DEF PacketsInit
<1>2. Mod16(SeqStart) = SeqStart
  BY <1>1, SmallWord16, Zenon
<1>3. pktStep = "idle" /\ seq16 = SeqStart
  BY DEF PacketsInit
<1>4. seq16 = Mod16(SeqStart + packets)
  BY <1>1, <1>2, <1>3
<1> QED
  BY <1>1, <1>3, <1>4 DEF PacketsInv, PacketsRoundTrip

-----------------------------------------------------------------------------
\* All five together, in every state.

FormatsInv ==
  /\ subject \in {"config", "bases", "image", "packets"}
  /\ ConfigInv /\ BasesInv /\ DecoderInv /\ PacketsInv

LEMMA ConfigInitially ==
  ASSUME Init
  PROVE  ConfigInv
<1>1. cfgStep = "read" /\ cfg = Template /\ (subject = "config" => otp \in Otps)
  BY DEF Init, ConfigInit
<1>2. "fdt" \in DOMAIN Registers
  BY RegisterNames
<1>3. Template[EntryAt("fdt") + 2] = 128
  BY <1>2, TemplateEntries, TemplateAssumption
<1>4. Shaped(cfg)
  BY <1>1, <1>3, TemplateAssumption DEF Shaped, Blobs
<1> QED
  BY <1>1, <1>4 DEF ConfigInv, OtpVoted

\* Each computation keeps the invariants of all of them.
LEMMA FormatsKept ==
  ASSUME FormatsInv, [Next]_vars
  PROVE  FormatsInv'
<1>1. UNCHANGED subject
  BY DEF Next, Configures, Measures, Decodes, Sends, vars
<1>2. ConfigInv'
  <2>1. CASE Configures
    BY <2>1, <1>1, ParseOtpKeeps, PatchKeeps DEF Configures, ConfigNext, FormatsInv
  <2>2. CASE UNCHANGED configVars
    BY <1>1, <2>2 DEF configVars, FormatsInv, ConfigInv, OtpVoted
  <2> QED BY <2>1, <2>2 DEF Next, Measures, Decodes, Sends, vars
<1>3. BasesInv'
  <2>1. [BasesNext]_baseVars
    BY DEF Next, Configures, Measures, Decodes, Sends, vars
  <2> QED BY <2>1, BasesKept DEF FormatsInv
<1>4. DecoderInv'
  <2>1. [DecoderNext]_decoderVars
    BY DEF Next, Configures, Measures, Decodes, Sends, vars
  <2> QED BY <2>1, DecoderKept DEF FormatsInv
<1>5. PacketsInv'
  <2>1. [PacketsNext]_packetVars
    BY DEF Next, Configures, Measures, Decodes, Sends, vars
  <2> QED BY <2>1, PacketsKept DEF FormatsInv
<1> QED
  BY <1>1, <1>2, <1>3, <1>4, <1>5 DEF FormatsInv

LEMMA FormatsInvHolds == Spec => []FormatsInv
<1>1. Init => FormatsInv
  <2> SUFFICES ASSUME Init PROVE FormatsInv
    OBVIOUS
  <2>1. /\ BasesInit(Offsets) \/ BasesInit({0})
        /\ DecoderInit(Images) \/ DecoderInit({AnImage})
        /\ PacketsInit /\ subject \in {"config", "bases", "image", "packets"}
    BY DEF Init
  <2> QED BY <2>1, ConfigInitially, BasesInitially, DecoderInitially,
             PacketsInitially DEF FormatsInv
<1>2. FormatsInv /\ [Next]_vars => FormatsInv'
  BY FormatsKept
<1> QED
  BY <1>1, <1>2, PTL DEF Spec

\* Whichever copy of a calibration is damaged, the vote returns what was
\* stored; the parse refuses only what the CRC or a missing value makes it.
THEOREM OtpVotedHolds == Spec => []OtpVoted
<1>1. FormatsInv => OtpVoted
  BY DEF FormatsInv, ConfigInv
<1> QED
  BY <1>1, FormatsInvHolds, PTL

\* The blob to upload holds the calibration in the three entries of the
\* template, its checksum closes, and nothing else of the template changed.
THEOREM ConfigPatchedHolds == Spec => []ConfigPatched
<1>1. FormatsInv => ConfigPatched
  BY ConfigPatchedReady DEF FormatsInv
<1> QED
  BY <1>1, FormatsInvHolds, PTL

\* The sensor is armed with the thresholds of the last valid reports, for any
\* number of cells, any bases and any delta of the OTP.
THEOREM ThresholdsFollowHolds == Spec => []ThresholdsFollow
<1>1. FormatsInv => ThresholdsFollow
  BY DEF FormatsInv, BasesInv
<1> QED
  BY <1>1, FormatsInvHolds, PTL

\* Every image is taken for what it is, and every pixel comes from its own
\* three nibbles.
THEOREM PixelsPlacedHolds == Spec => []PixelsPlaced
<1>1. FormatsInv => PixelsPlaced
  BY DEF FormatsInv, DecoderInv
<1> QED
  BY <1>1, FormatsInvHolds, PTL

\* Every command that fits is sent whole under the next sequence number and
\* parses back to itself, and a head with a byte changed is refused.
THEOREM PacketsRoundTripHolds == Spec => []PacketsRoundTrip
<1>1. FormatsInv => PacketsRoundTrip
  BY DEF FormatsInv, PacketsInv
<1> QED
  BY <1>1, FormatsInvHolds, PTL

=============================================================================
