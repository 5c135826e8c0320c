-------------------------- MODULE FileSystemProofs --------------------------
(***************************************************************************)
(* Files and lists: what reads return, that nothing leaks, that no mode is *)
(* spoiled, and that the links and the iterator of a list stay in order,   *)
(* for every word size, every ramdisk and every sequence of calls.         *)
(***************************************************************************)
EXTENDS FileSystem, FiniteSetTheorems, SequenceTheorems, WellFoundedInduction, TLAPS

Permission == {"READ", "WRITE", "APPEND", "CREATE_FILE", "TRUNCATE_TO_ZERO", "closed"}
File == [start : Nat, size : Nat, offset : Unsigned, mode : SUBSET Permission, past : BOOLEAN]

\* A file lies in the address space, its offset is behind the end only after
\* a SEEK_END, and it is closed or has a mode.
FileOK(f) ==
    /\ f \in File
    /\ f.start + f.size < WORD
    /\ f.offset > f.size => f.past
    /\ f = Closed \/ f.mode # Closed.mode

FilesInv == files \in [Handles -> File] /\ \A h \in Handles : FileOK(files[h])

-----------------------------------------------------------------------------
(* Words. *)

\* The width of a word, and its values.
LEMMA Words ==
    /\ WORD \in Nat /\ WORD > 0 /\ Unsigned = 0 .. (WORD - 1) /\ Unsigned \subseteq Nat
    /\ Signed \subseteq Int
<1>1. WORD \in Nat /\ WORD > 0
  BY FilesAssumption
<1>2. WORD \div 2 \in Int
  BY <1>1
<1> QED
  BY <1>1, <1>2 DEF Unsigned, Signed

\* 32 bit arithmetic one word around the range.
LEMMA Wraps ==
    ASSUME NEW x \in Int
    PROVE  /\ u32(x) \in Unsigned
           /\ 0 <= x /\ x < WORD => u32(x) = x
           /\ -WORD <= x /\ x < 0 => u32(x) = x + WORD
           /\ WORD <= x /\ x < 2 * WORD => u32(x) = x - WORD
<1>1. WORD \in Nat \ {0}
  BY FilesAssumption
<1>2. x % WORD \in 0 .. (WORD - 1)
  BY <1>1
<1>3. ASSUME 0 <= x, x < WORD PROVE x % WORD = x
  BY <1>1, <1>3
<1>4. ASSUME -WORD <= x, x < 0 PROVE x % WORD = x + WORD
  BY <1>1, <1>4
<1>5. ASSUME WORD <= x, x < 2 * WORD PROVE x % WORD = x - WORD
  BY <1>1, <1>5
<1> QED
  BY <1>2, <1>3, <1>4, <1>5 DEF u32, Unsigned

-----------------------------------------------------------------------------
(* Reads and jumps. *)

\* What file_read copies: from an offset in the file, what is asked for or
\* left; from one behind the end nothing, unless the sum wraps.
LEMMA ReadLength ==
    ASSUME NEW f, FileOK(f), NEW length \in Unsigned
    PROVE  LET b == initrd_read(f, clamped(f, length)) IN
           /\ b \in Unsigned
           /\ f.offset <= f.size =>
                 b = IF length < f.size - f.offset THEN length ELSE f.size - f.offset
           /\ f.offset > f.size /\ b > 0 => f.offset + b >= WORD
<1>1. /\ f.offset \in Nat /\ f.offset < WORD /\ f.size \in Nat /\ f.size < WORD
      /\ length \in Nat /\ length < WORD /\ WORD \in Nat
  BY Words DEF FileOK, File
<1> DEFINE left == u32(f.size - f.offset)
           c == clamped(f, length)
<1>2. f.size - f.offset \in Int
  BY <1>1
<1>3. left \in Unsigned /\ (f.offset <= f.size => left = f.size - f.offset)
      /\ (f.offset > f.size => left = f.size - f.offset + WORD)
  BY <1>1, <1>2, Wraps
<1>4. c = IF length > left THEN left ELSE length
  BY DEF clamped
<1> HIDE DEF left
<1>5. c \in Nat /\ c < WORD /\ c <= left /\ left \in Nat
  BY <1>1, <1>3, <1>4, Words
<1> HIDE DEF c
<1>6. f.offset + c \in Int /\ f.offset + c < 2 * WORD
  BY <1>1, <1>5
<1>7. /\ f.offset + c < WORD => u32(f.offset + c) = f.offset + c
      /\ f.offset + c >= WORD => u32(f.offset + c) = f.offset + c - WORD
  BY <1>1, <1>5, <1>6, Wraps
<1>8. initrd_read(f, c) = IF c = 0 \/ f.size < u32(f.offset + c) THEN 0 ELSE c
  BY DEF initrd_read
<1>9. initrd_read(f, c) \in Unsigned
  BY <1>1, <1>5, <1>8, Words
<1>10. f.offset <= f.size => initrd_read(f, c) = c
  BY <1>1, <1>3, <1>5, <1>7, <1>8
<1>11. f.offset > f.size /\ initrd_read(f, c) > 0 => f.offset + initrd_read(f, c) >= WORD
  BY <1>1, <1>5, <1>7, <1>8
<1>12. f.offset <= f.size => c = IF length < f.size - f.offset THEN length ELSE f.size - f.offset
  BY <1>1, <1>3, <1>4
<1> QED
  BY <1>9, <1>10, <1>11, <1>12 DEF c

LEMMA MinOfTwo ==
    ASSUME NEW a \in Int, NEW b \in Int
    PROVE  Min({a, b}) = IF a < b THEN a ELSE b
BY DEF Min

\* The bytes of a read from an offset in the file, and of no other that does
\* not wrap.
LEMMA ReadBytes ==
    ASSUME NEW f, FileOK(f), NEW length \in Unsigned, NEW b,
           b = initrd_read(f, clamped(f, length)),
           last' = [start |-> f.start, size |-> f.size, offset |-> f.offset, asked |-> length,
                    bytes |-> [k \in 1 .. b |-> u32(f.start + f.offset + k - 1)]]
    PROVE  /\ last'.offset <= last'.size =>
                 last'.bytes = [k \in 1 .. Min({last'.asked, last'.size - last'.offset}) |->
                                   last'.start + last'.offset + k - 1]
           /\ ReadsInFile'
<1>1. /\ f.start \in Nat /\ f.offset \in Nat /\ f.size \in Nat /\ f.start + f.size < WORD
      /\ length \in Nat /\ WORD \in Nat
  BY Words DEF FileOK, File
<1>2. /\ b \in Nat
      /\ f.offset <= f.size =>
           b = IF length < f.size - f.offset THEN length ELSE f.size - f.offset
      /\ f.offset > f.size /\ b > 0 => f.offset + b >= WORD
  BY ReadLength, Words
<1>3. /\ last'.start = f.start /\ last'.size = f.size /\ last'.offset = f.offset
      /\ last'.asked = length
      /\ last'.bytes = [k \in 1 .. b |-> u32(f.start + f.offset + k - 1)]
  OBVIOUS
<1>4. Len(last'.bytes) = b /\ DOMAIN last'.bytes = 1 .. b
  BY <1>2, <1>3
<1>5. ASSUME f.offset <= f.size, NEW k \in 1 .. b
      PROVE  /\ u32(f.start + f.offset + k - 1) = f.start + f.offset + k - 1
             /\ f.start + f.offset + k - 1 \in f.start .. (f.start + f.size - 1)
  <2>1. b <= f.size - f.offset
    BY <1>1, <1>2, <1>5
  <2>2. /\ f.start + f.offset + k - 1 \in Int /\ 0 <= f.start + f.offset + k - 1
        /\ f.start + f.offset + k - 1 < f.start + f.size
    BY <1>1, <1>2, <1>5, <2>1
  <2> QED
    BY <1>1, <2>2, Wraps
<1>6. ASSUME f.offset <= f.size
      PROVE  last'.bytes = [k \in 1 .. Min({length, f.size - f.offset}) |->
                               f.start + f.offset + k - 1]
  <2>1. Min({length, f.size - f.offset}) = b
    <3>1. length \in Int /\ f.size - f.offset \in Int
      BY <1>1
    <3>2. Min({length, f.size - f.offset}) =
             IF length < f.size - f.offset THEN length ELSE f.size - f.offset
      BY <3>1, MinOfTwo
    <3> QED
      BY <1>2, <1>6, <3>2
  <2> QED
    BY <1>3, <1>5, <1>6, <2>1
<1>7. ASSUME f.offset + b < WORD, NEW k \in 1 .. b
      PROVE  last'.bytes[k] \in f.start .. (f.start + f.size - 1)
  <2>1. f.offset <= f.size
    BY <1>1, <1>2, <1>7
  <2> QED
    BY <1>3, <1>5, <1>7, <2>1
<1>8. ReadsInFile'
  BY <1>3, <1>4, <1>7 DEF ReadsInFile
<1> QED
  BY <1>3, <1>6, <1>8

\* A read leaves a file that is still in order.
LEMMA ReadFile ==
    ASSUME NEW f, FileOK(f), f # Closed, NEW length \in Unsigned
    PROVE  LET g == [f EXCEPT !.offset = u32(f.offset + initrd_read(f, clamped(f, length)))] IN
           FileOK(g) /\ g # Closed
<1> DEFINE b == initrd_read(f, clamped(f, length))
           there == u32(f.offset + b)
           g == [f EXCEPT !.offset = there]
<1>1. /\ f \in File /\ f.start \in Nat /\ f.offset \in Nat /\ f.size \in Nat /\ f.start + f.size < WORD
      /\ length \in Nat /\ WORD \in Nat /\ f.mode # Closed.mode
      /\ f.offset > f.size => f.past
  BY Words DEF FileOK, File
<1>2. /\ b \in Nat
      /\ f.offset <= f.size =>
           b = IF length < f.size - f.offset THEN length ELSE f.size - f.offset
  BY ReadLength, Words
<1> HIDE DEF b
<1>3. there \in Unsigned /\ (f.offset <= f.size => there <= f.size)
  BY <1>1, <1>2, Wraps
<1> HIDE DEF there
<1>4. g \in File /\ g.start = f.start /\ g.size = f.size /\ g.offset = there /\ g.mode = f.mode /\ g.past = f.past
  BY <1>1, <1>3 DEF File
<1> HIDE DEF g
<1>5. FileOK(g) /\ g # Closed
  BY <1>1, <1>3, <1>4, Words DEF FileOK
<1> QED
  BY <1>5 DEF g, there, b

\* Only SEEK_END leaves the offset behind the end, and says so.
LEMMA SeekFile ==
    ASSUME NEW f, FileOK(f), f # Closed, NEW there \in Unsigned, NEW past \in BOOLEAN,
           there > f.size => past
    PROVE  LET g == [f EXCEPT !.offset = there, !.past = past] IN
           FileOK(g) /\ g # Closed
<1> DEFINE g == [f EXCEPT !.offset = there, !.past = past]
<1>1. /\ f \in File /\ f.start \in Nat /\ f.size \in Nat /\ f.start + f.size < WORD
      /\ f.mode # Closed.mode
  BY DEF FileOK, File
<1>2. g \in File /\ g.start = f.start /\ g.size = f.size /\ g.offset = there /\ g.mode = f.mode /\ g.past = past
  BY <1>1 DEF File
<1> HIDE DEF g
<1>3. FileOK(g) /\ g # Closed
  BY <1>1, <1>2, Words DEF FileOK
<1> QED
  BY <1>3 DEF g

\* Where an accepted jump leads.
LEMMA SeekTarget ==
    ASSUME NEW f, FileOK(f), NEW jmp \in Signed,
           NEW seek_type \in {"SEEK_SET", "SEEK_CUR", "SEEK_END"}, seeks(f, jmp, seek_type)
    PROVE  /\ seek_type = "SEEK_SET" => jmp \in Unsigned /\ ~(jmp > f.size)
           /\ seek_type = "SEEK_CUR" => /\ u32(f.offset + jmp) \in Unsigned
                                        /\ ~(u32(f.offset + jmp) > f.size)
           /\ seek_type = "SEEK_END" => u32(f.offset - jmp) \in Unsigned
<1>1. /\ f.offset \in Nat /\ f.size \in Nat /\ f.size < WORD /\ jmp \in Int /\ WORD \in Nat
  BY Words DEF FileOK, File
<1>2. f.offset + jmp \in Int /\ f.offset - jmp \in Int
  BY <1>1
<1>3. u32(f.offset + jmp) \in Unsigned /\ u32(f.offset - jmp) \in Unsigned
  BY <1>2, Wraps
<1>4. CASE seek_type = "SEEK_SET"
  BY <1>1, <1>4, Words DEF seeks
<1>5. CASE seek_type = "SEEK_CUR"
  BY <1>1, <1>3, <1>5, Words DEF seeks
<1>6. CASE seek_type = "SEEK_END"
  BY <1>3, <1>6
<1> QED
  BY <1>4, <1>5, <1>6

-----------------------------------------------------------------------------
(* Modes. *)

Characters == {"r", "w", "a", "b", "+"}
Strings == Seq(Characters)

\* However the literals were cut, the search compares them as it did the
\* first time.
TextInv ==
    /\ mode_text \in [1 .. 15 -> Strings]
    /\ \A i \in 1 .. 15 : cut(mode_text, i) = cut(possible_modes, i)

\* Every set of numbers has a least one.
LEMMA NatMin ==
    ASSUME NEW S \in SUBSET Nat, S # {}
    PROVE  \E x \in S : \A y \in S : x <= y
<1> DEFINE R == {ss \in Nat \X Nat : ss[1] < ss[2]}
<1>1. OpToRel(<, Nat) = R
  BY Zenon DEF OpToRel
<1>2. IsWellFoundedOn(R, Nat)
  BY <1>1, NatLessThanWellFounded, Zenon
<1> HIDE DEF R
<1>3. PICK x \in S : \A y \in S : ~ (<<y, x>> \in R)
  BY <1>2, WFMin, Zenon
<1>4. \A y, z \in Nat : y < z => <<y, z>> \in R
  BY DEF R
<1>5. ASSUME NEW y \in S PROVE x <= y
  <2>1. x \in Nat /\ y \in Nat
    OBVIOUS
  <2>2. ~(<<y, x>> \in R)
    BY <1>3, Zenon
  <2>3. ~(y < x)
    BY <1>4, <2>1, <2>2, Zenon
  <2> QED
    BY <2>1, <2>3
<1> QED
  BY <1>5

\* What SelectInSeq chooses.
LEMMA FirstIndex ==
    ASSUME NEW S \in SUBSET Nat, S # {}
    PROVE  Min(S) \in S /\ \A y \in S : Min(S) <= y
<1>1. \E x \in S : \A y \in S : x <= y
  BY NatMin
<1> QED
  BY <1>1 DEF Min

\* A string cut once is not cut further.
LEMMA UptoTwo ==
    ASSUME NEW string \in Strings
    PROVE  /\ Upto(string, 2) \in Strings /\ <<>> \in Strings /\ Upto(<<>>, 2) = <<>>
           /\ Upto(Upto(string, 2), 2) = Upto(string, 2)
<1>1. \A t \in Strings : SubSeq(t, 1, Len(t)) = t
  BY DEF Strings
<1>2. Upto(string, 2) \in Strings /\ Len(Upto(string, 2)) <= 2 /\ Len(Upto(string, 2)) \in Nat
  BY DEF Upto, Strings
<1>3. ASSUME NEW t \in Strings, Len(t) <= 2, Len(t) \in Nat PROVE Upto(t, 2) = t
  <2>1. PICK n \in Nat : n = Len(t) /\ n <= 2
    BY <1>3
  <2>2. (IF n < 2 THEN n ELSE 2) = n
    BY <2>1
  <2> QED
    BY <1>1, <2>1, <2>2 DEF Upto
<1>4. <<>> \in Strings /\ Len(<<>>) = 0
  BY DEF Strings
<1> QED
  BY <1>2, <1>3, <1>4

\* The literals one by one, for the provers.
LEMMA Literals ==
    /\ possible_modes[1] = <<"r">> /\ possible_modes[2] = <<"r", "b">> /\ possible_modes[3] = <<"w">>
    /\ possible_modes[4] = <<"w", "b">> /\ possible_modes[5] = <<"a">> /\ possible_modes[6] = <<"a", "b">>
    /\ possible_modes[7] = <<"r", "+">> /\ possible_modes[8] = <<"r", "b", "+">> /\ possible_modes[9] = <<"r", "+", "b">>
    /\ possible_modes[10] = <<"w", "+">> /\ possible_modes[11] = <<"w", "b", "+">> /\ possible_modes[12] = <<"w", "+", "b">>
    /\ possible_modes[13] = <<"a", "+">> /\ possible_modes[14] = <<"a", "b", "+">> /\ possible_modes[15] = <<"a", "+", "b">>
<1>1. possible_modes[1] = <<"r">> /\ possible_modes[2] = <<"r", "b">> /\ possible_modes[3] = <<"w">>
  BY DEF possible_modes
<1>2. possible_modes[4] = <<"w", "b">> /\ possible_modes[5] = <<"a">> /\ possible_modes[6] = <<"a", "b">>
  BY DEF possible_modes
<1>3. possible_modes[7] = <<"r", "+">> /\ possible_modes[8] = <<"r", "b", "+">> /\ possible_modes[9] = <<"r", "+", "b">>
  BY DEF possible_modes
<1>4. possible_modes[10] = <<"w", "+">> /\ possible_modes[11] = <<"w", "b", "+">> /\ possible_modes[12] = <<"w", "+", "b">>
  BY DEF possible_modes
<1>5. possible_modes[13] = <<"a", "+">> /\ possible_modes[14] = <<"a", "b", "+">> /\ possible_modes[15] = <<"a", "+", "b">>
  BY DEF possible_modes
<1> QED
  BY <1>1, <1>2, <1>3, <1>4, <1>5

\* The literals are strings, and two characters of each are compared.
LEMMA Lengths ==
    /\ max_length - 1 = 2 /\ possible_modes \in [1 .. 15 -> Strings]
    /\ DOMAIN possible_modes = 1 .. 15
<1>1. DOMAIN possible_modes = 1 .. 15 /\ possible_modes = [i \in 1 .. 15 |-> possible_modes[i]]
  BY DEF possible_modes
<1>2. ASSUME NEW i \in 1 .. 15 PROVE possible_modes[i] \in Strings
  <2>1. /\ \A c \in Characters : <<c>> \in Strings
        /\ \A c, d \in Characters : <<c, d>> \in Strings
        /\ \A c, d, e \in Characters : <<c, d, e>> \in Strings
    BY DEF Strings
  <2>2. {"r", "w", "a", "b", "+"} \subseteq Characters
    BY DEF Characters
  <2>3. \A k \in {1, 3, 5} : \E c \in Characters : possible_modes[k] = <<c>>
    BY <2>2, Literals
  <2>4. \A k \in {2, 4, 6, 7, 10, 13} : \E c, d \in Characters : possible_modes[k] = <<c, d>>
    BY <2>2, Literals
  <2>5. \A k \in {8, 9, 11, 12, 14, 15} :
           \E c, d, e \in Characters : possible_modes[k] = <<c, d, e>>
    BY <2>2, Literals
  <2>6. \A k \in {1, 3, 5} : possible_modes[k] \in Strings
    BY <2>1, <2>3
  <2>7. \A k \in {2, 4, 6, 7, 10, 13} : possible_modes[k] \in Strings
    BY <2>1, <2>4
  <2>8. \A k \in {8, 9, 11, 12, 14, 15} : possible_modes[k] \in Strings
    BY <2>1, <2>5
  <2> QED
    BY <2>6, <2>7, <2>8
<1>3. max_length - 1 = 2
  BY DEF max_length
<1> QED
  BY <1>1, <1>2, <1>3

\* What the search leaves of the literals is again compared as before.
LEMMA CutAgain ==
    ASSUME NEW text \in [1 .. 15 -> Strings], NEW k \in 1 .. 15
    PROVE  /\ reached(text, k) \in Strings /\ cut(text, k) \in Strings
           /\ \A new \in [1 .. 15 -> Strings] :
                 new[k] \in {text[k], reached(text, k), cut(text, k)} => cut(new, k) = cut(text, k)
<1> DEFINE short == k > 1 /\ Len(possible_modes[k - 1]) + 2 = max_length
<1>1. \A t \in [1 .. 15 -> Strings] :
         /\ reached(t, k) = IF short THEN <<>> ELSE t[k]
         /\ cut(t, k) = Upto(reached(t, k), 2)
  <2>1. \A t : reached(t, k) = IF short THEN <<>> ELSE t[k]
    BY DEF reached
  <2>2. \A t : cut(t, k) = Upto(reached(t, k), max_length - 1)
    BY DEF cut
  <2> HIDE DEF short
  <2> QED
    BY <2>1, <2>2, Lengths
<1> HIDE DEF short
<1>2. text[k] \in Strings /\ <<>> \in Strings
  BY UptoTwo
<1>3. reached(text, k) \in Strings
  BY <1>1, <1>2
<1>4. cut(text, k) \in Strings /\ Upto(cut(text, k), 2) = cut(text, k)
  BY <1>1, <1>3, UptoTwo
<1>5. ASSUME NEW new \in [1 .. 15 -> Strings],
             new[k] \in {text[k], reached(text, k), cut(text, k)}
      PROVE  cut(new, k) = cut(text, k)
  <2>1. CASE short
    BY <1>1, <2>1
  <2>2. CASE ~short
    BY <1>1, <1>4, <1>5, <2>2
  <2> QED
    BY <2>1, <2>2
<1> QED
  BY <1>3, <1>4, <1>5

\* What the search for a mode returns, and that it spoils no literal.
LEMMA Search ==
    ASSUME NEW text \in [1 .. 15 -> Strings], NEW mode, NEW lookup, lookup = search(text, mode)
    PROVE  /\ lookup.found \in 0 .. 15
           /\ lookup.found # 0 => cut(text, lookup.found) = Upto(mode, 2)
           /\ lookup.found = 0 => \A i \in 1 .. 15 : cut(text, i) # Upto(mode, 2)
           /\ lookup.text \in [1 .. 15 -> Strings]
           /\ \A i \in 1 .. 15 : cut(lookup.text, i) = cut(text, i)
<1> DEFINE cuts == [i \in DOMAIN text |-> cut(text, i)]
           I == {i \in 1 .. Len(cuts) : cuts[i] = Upto(mode, max_length - 1)}
           found == IF I # {} THEN Min(I) ELSE 0
           end == IF found = 0 THEN Len(text) ELSE found
           left == [k \in DOMAIN text |-> CASE k <= end -> cut(text, k)
                                            [] k = end + 1 -> reached(text, k)
                                            [] k > end + 1 -> text[k]]
<1>1. lookup = [found |-> found, text |-> left]
  BY DEF search, SelectInSeq
<1>2. DOMAIN text = 1 .. 15 /\ Len(text) = 15
  BY DEF Strings
<1>3. cuts \in [1 .. 15 -> Strings] /\ \A i \in 1 .. 15 : cuts[i] = cut(text, i)
  BY <1>2, CutAgain
<1>4. Len(cuts) = 15
  BY <1>3
<1>5. I = {i \in 1 .. 15 : cut(text, i) = Upto(mode, 2)}
  BY <1>3, <1>4, Lengths
<1> HIDE DEF cuts, I
<1>6. I # {} => Min(I) \in I
  BY <1>5, FirstIndex
<1>7. /\ found \in 0 .. 15 /\ (found # 0 => cut(text, found) = Upto(mode, 2))
      /\ found = 0 => \A i \in 1 .. 15 : cut(text, i) # Upto(mode, 2)
  BY <1>5, <1>6
<1> HIDE DEF found
<1>8. end \in Nat
  BY <1>2, <1>7
<1> HIDE DEF end
<1>9. ASSUME NEW k \in 1 .. 15
      PROVE  /\ left[k] \in {text[k], reached(text, k), cut(text, k)}
             /\ left[k] \in Strings
  BY <1>2, <1>8, CutAgain
<1>10. left \in [1 .. 15 -> Strings]
  BY <1>2, <1>9
<1> HIDE DEF left
<1>11. \A i \in 1 .. 15 : cut(left, i) = cut(text, i)
  BY <1>9, <1>10, CutAgain
<1> QED
  BY <1>1, <1>7, <1>10, <1>11

LEMMA UptoTuples ==
    \A c, d, e \in Characters :
        Upto(<<c>>, 2) = <<c>> /\ Upto(<<c, d>>, 2) = <<c, d>> /\ Upto(<<c, d, e>>, 2) = <<c, d>>
<1> SUFFICES ASSUME NEW c \in Characters, NEW d \in Characters, NEW e \in Characters
             PROVE  /\ Upto(<<c>>, 2) = <<c>> /\ Upto(<<c, d>>, 2) = <<c, d>>
                    /\ Upto(<<c, d, e>>, 2) = <<c, d>>
  OBVIOUS
<1>1. \A t \in Seq(Characters) : SubSeq(t, 1, Len(t)) = t
  OBVIOUS
<1>2. /\ <<c>> \in Seq(Characters) /\ Len(<<c>>) = 1
      /\ <<c, d>> \in Seq(Characters) /\ Len(<<c, d>>) = 2
      /\ <<c, d, e>> \in Seq(Characters) /\ Len(<<c, d, e>>) = 3
  OBVIOUS
<1>3. /\ Upto(<<c>>, 2) = SubSeq(<<c>>, 1, 1) /\ Upto(<<c, d>>, 2) = SubSeq(<<c, d>>, 1, 2)
      /\ Upto(<<c, d, e>>, 2) = SubSeq(<<c, d, e>>, 1, 2)
  BY <1>2 DEF Upto
<1>4. PICK t : t = SubSeq(<<c, d, e>>, 1, 2)
  OBVIOUS
<1>5. t \in Seq(Characters) /\ Len(t) = 2
  BY <1>2, <1>4
<1>6. t[1] = c /\ t[2] = d
  BY <1>2, <1>4
<1>7. t = <<c, d>>
  BY <1>5, <1>6
<1> QED
  BY <1>1, <1>2, <1>3, <1>4, <1>7

\* What is compared of each mode.
LEMMA Heads ==
    /\ Upto(possible_modes[1], 2) = <<"r">> /\ Upto(possible_modes[2], 2) = <<"r", "b">>
    /\ Upto(possible_modes[3], 2) = <<"w">> /\ Upto(possible_modes[4], 2) = <<"w", "b">>
    /\ Upto(possible_modes[5], 2) = <<"a">> /\ Upto(possible_modes[6], 2) = <<"a", "b">>
    /\ Upto(possible_modes[7], 2) = <<"r", "+">> /\ Upto(possible_modes[8], 2) = <<"r", "b">>
    /\ Upto(possible_modes[9], 2) = <<"r", "+">> /\ Upto(possible_modes[10], 2) = <<"w", "+">>
    /\ Upto(possible_modes[11], 2) = <<"w", "b">> /\ Upto(possible_modes[12], 2) = <<"w", "+">>
    /\ Upto(possible_modes[13], 2) = <<"a", "+">> /\ Upto(possible_modes[14], 2) = <<"a", "b">>
    /\ Upto(possible_modes[15], 2) = <<"a", "+">>
<1>1. {"r", "w", "a", "b", "+"} \subseteq Characters
  BY DEF Characters
<1> QED
  BY <1>1, UptoTuples, Literals

\* What each literal is compared as: the second of each plain mode is empty.
LEMMA Cuts ==
    /\ cut(possible_modes, 1) = <<"r">> /\ cut(possible_modes, 2) = <<>>
    /\ cut(possible_modes, 3) = <<"w">> /\ cut(possible_modes, 4) = <<>>
    /\ cut(possible_modes, 5) = <<"a">> /\ cut(possible_modes, 6) = <<>>
    /\ cut(possible_modes, 7) = <<"r", "+">> /\ cut(possible_modes, 8) = <<"r", "b">>
    /\ cut(possible_modes, 9) = <<"r", "+">> /\ cut(possible_modes, 10) = <<"w", "+">>
    /\ cut(possible_modes, 11) = <<"w", "b">> /\ cut(possible_modes, 12) = <<"w", "+">>
    /\ cut(possible_modes, 13) = <<"a", "+">> /\ cut(possible_modes, 14) = <<"a", "b">>
    /\ cut(possible_modes, 15) = <<"a", "+">>
<1>1. \A i : cut(possible_modes, i) = Upto(reached(possible_modes, i), 2)
  BY Lengths DEF cut
<1>2. /\ \A i \in {1, 3, 5} \cup 7 .. 15 : reached(possible_modes, i) = possible_modes[i]
      /\ \A i \in {2, 4, 6} : reached(possible_modes, i) = <<>>
  <2>1. \A i \in 1 .. 15 : reached(possible_modes, i) =
           IF i > 1 /\ Len(possible_modes[i - 1]) = 1 THEN <<>> ELSE possible_modes[i]
    <3>1. ASSUME NEW k \in 1 .. 15 PROVE Len(possible_modes[k]) \in Nat
      BY Lengths DEF Strings
    <3>2. ASSUME NEW i \in 1 .. 15, i > 1
          PROVE  Len(possible_modes[i - 1]) + 2 = max_length <=> Len(possible_modes[i - 1]) = 1
      <4>1. PICK k \in 1 .. 15 : k = i - 1
        BY <3>2
      <4>2. PICK n \in Nat : n = Len(possible_modes[k])
        BY <3>1
      <4>3. n + 2 = 3 <=> n = 1
        OBVIOUS
      <4> QED
        BY <4>1, <4>2, <4>3 DEF max_length
    <3> QED
      BY <3>2 DEF reached
  <2>2. /\ \A c : Len(<<c>>) = 1
        /\ \A c, d : Len(<<c, d>>) = 2
        /\ \A c, d, e : Len(<<c, d, e>>) = 3
    OBVIOUS
  <2>3. /\ \A k \in {1, 3, 5} : Len(possible_modes[k]) = 1
        /\ \A k \in {2, 4} \cup 6 .. 15 : Len(possible_modes[k]) # 1
    BY <2>2, Literals
  <2>4. \A i \in 2 .. 15 : Len(possible_modes[i - 1]) = 1 <=> i \in {2, 4, 6}
    BY <2>3
  <2> QED
    BY <2>1, <2>4
<1>3. Upto(<<>>, 2) = <<>>
  <2>1. <<>> \in Strings
    BY DEF Strings
  <2> QED
    BY <2>1, UptoTwo
<1>4. \A i \in {1, 3, 5} : cut(possible_modes, i) = Upto(possible_modes[i], 2)
  BY <1>1, <1>2
<1>5. \A i \in {2, 4, 6} : cut(possible_modes, i) = <<>>
  BY <1>1, <1>2, <1>3
<1>6. ASSUME NEW i \in 7 .. 15 PROVE cut(possible_modes, i) = Upto(possible_modes[i], 2)
  <2>1. reached(possible_modes, i) = possible_modes[i]
    BY <1>2
  <2> QED
    BY <1>1, <2>1
<1>7. /\ cut(possible_modes, 1) = <<"r">>
      /\ cut(possible_modes, 3) = <<"w">>
      /\ cut(possible_modes, 5) = <<"a">>
  BY <1>4, Heads
<1>8. /\ cut(possible_modes, 2) = <<>>
      /\ cut(possible_modes, 4) = <<>>
      /\ cut(possible_modes, 6) = <<>>
  BY <1>5
<1>9. /\ cut(possible_modes, 7) = <<"r", "+">>
      /\ cut(possible_modes, 8) = <<"r", "b">>
      /\ cut(possible_modes, 9) = <<"r", "+">>
  BY <1>6, Heads
<1>10. /\ cut(possible_modes, 10) = <<"w", "+">>
      /\ cut(possible_modes, 11) = <<"w", "b">>
      /\ cut(possible_modes, 12) = <<"w", "+">>
  BY <1>6, Heads
<1>11. /\ cut(possible_modes, 13) = <<"a", "+">>
      /\ cut(possible_modes, 14) = <<"a", "b">>
      /\ cut(possible_modes, 15) = <<"a", "+">>
  BY <1>6, Heads
<1> QED
  BY <1>7, <1>8, <1>9, <1>10, <1>11

\* The permissions one by one.
LEMMA Permissions ==
    /\ \A i \in 1 .. 2 : modes_bits[i] = {"READ"}
    /\ \A i \in 3 .. 4 : modes_bits[i] = {"WRITE", "CREATE_FILE", "TRUNCATE_TO_ZERO"}
    /\ \A i \in {5, 6} \cup 13 .. 15 : modes_bits[i] = {"APPEND", "CREATE_FILE"}
    /\ \A i \in 7 .. 9 : modes_bits[i] = {"READ", "WRITE"}
    /\ \A i \in 10 .. 12 : modes_bits[i] = {"WRITE", "CREATE_FILE", "TRUNCATE_TO_ZERO", "READ"}
BY DEF modes_bits

\* What a literal and a mode have in common up to the cut decides, and gives
\* the permissions of the mode.
LEMMA Honoured ==
    ASSUME NEW i \in 1 .. 15
    PROVE  /\ \E f \in 1 .. 15 : cut(possible_modes, f) = Upto(possible_modes[i], 2)
           /\ \A f \in 1 .. 15 : cut(possible_modes, f) = Upto(possible_modes[i], 2)
                                 => modes_bits[i] \subseteq modes_bits[f]
<1> DEFINE Same(S, T) ==
             /\ \E f \in S : cut(possible_modes, f) = Upto(possible_modes[i], 2)
             /\ \A f \in 1 .. 15 : cut(possible_modes, f) = Upto(possible_modes[i], 2) => f \in S
             /\ i \in T
<1>1. i \in {1} => Same({1}, {1})
  <2>1. \A k \in {1} : Upto(possible_modes[k], 2) = <<"r">>
    BY Heads
  <2>2. \A f \in 1 .. 15 : cut(possible_modes, f) = <<"r">> => f \in {1}
    BY Cuts
  <2>3. cut(possible_modes, 1) = <<"r">>
    BY Cuts
  <2> QED
    BY <2>1, <2>2, <2>3
<1>2. i \in {2, 8} => Same({8}, {2, 8})
  <2>1. \A k \in {2, 8} : Upto(possible_modes[k], 2) = <<"r", "b">>
    BY Heads
  <2>2. \A f \in 1 .. 15 : cut(possible_modes, f) = <<"r", "b">> => f \in {8}
    BY Cuts
  <2>3. cut(possible_modes, 8) = <<"r", "b">>
    BY Cuts
  <2> QED
    BY <2>1, <2>2, <2>3
<1>3. i \in {3} => Same({3}, {3})
  <2>1. \A k \in {3} : Upto(possible_modes[k], 2) = <<"w">>
    BY Heads
  <2>2. \A f \in 1 .. 15 : cut(possible_modes, f) = <<"w">> => f \in {3}
    BY Cuts
  <2>3. cut(possible_modes, 3) = <<"w">>
    BY Cuts
  <2> QED
    BY <2>1, <2>2, <2>3
<1>4. i \in {4, 11} => Same({11}, {4, 11})
  <2>1. \A k \in {4, 11} : Upto(possible_modes[k], 2) = <<"w", "b">>
    BY Heads
  <2>2. \A f \in 1 .. 15 : cut(possible_modes, f) = <<"w", "b">> => f \in {11}
    BY Cuts
  <2>3. cut(possible_modes, 11) = <<"w", "b">>
    BY Cuts
  <2> QED
    BY <2>1, <2>2, <2>3
<1>5. i \in {5} => Same({5}, {5})
  <2>1. \A k \in {5} : Upto(possible_modes[k], 2) = <<"a">>
    BY Heads
  <2>2. \A f \in 1 .. 15 : cut(possible_modes, f) = <<"a">> => f \in {5}
    BY Cuts
  <2>3. cut(possible_modes, 5) = <<"a">>
    BY Cuts
  <2> QED
    BY <2>1, <2>2, <2>3
<1>6. i \in {6, 14} => Same({14}, {6, 14})
  <2>1. \A k \in {6, 14} : Upto(possible_modes[k], 2) = <<"a", "b">>
    BY Heads
  <2>2. \A f \in 1 .. 15 : cut(possible_modes, f) = <<"a", "b">> => f \in {14}
    BY Cuts
  <2>3. cut(possible_modes, 14) = <<"a", "b">>
    BY Cuts
  <2> QED
    BY <2>1, <2>2, <2>3
<1>7. i \in {7, 9} => Same({7, 9}, {7, 9})
  <2>1. \A k \in {7, 9} : Upto(possible_modes[k], 2) = <<"r", "+">>
    BY Heads
  <2>2. \A f \in 1 .. 15 : cut(possible_modes, f) = <<"r", "+">> => f \in {7, 9}
    BY Cuts
  <2>3. cut(possible_modes, 7) = <<"r", "+">>
    BY Cuts
  <2> QED
    BY <2>1, <2>2, <2>3
<1>8. i \in {10, 12} => Same({10, 12}, {10, 12})
  <2>1. \A k \in {10, 12} : Upto(possible_modes[k], 2) = <<"w", "+">>
    BY Heads
  <2>2. \A f \in 1 .. 15 : cut(possible_modes, f) = <<"w", "+">> => f \in {10, 12}
    BY Cuts
  <2>3. cut(possible_modes, 10) = <<"w", "+">>
    BY Cuts
  <2> QED
    BY <2>1, <2>2, <2>3
<1>9. i \in {13, 15} => Same({13, 15}, {13, 15})
  <2>1. \A k \in {13, 15} : Upto(possible_modes[k], 2) = <<"a", "+">>
    BY Heads
  <2>2. \A f \in 1 .. 15 : cut(possible_modes, f) = <<"a", "+">> => f \in {13, 15}
    BY Cuts
  <2>3. cut(possible_modes, 13) = <<"a", "+">>
    BY Cuts
  <2> QED
    BY <2>1, <2>2, <2>3
<1> QED
  BY <1>1, <1>2, <1>3, <1>4, <1>5, <1>6, <1>7, <1>8, <1>9, Permissions
-----------------------------------------------------------------------------
(* The chain of a list. *)

\* The k-th link of a list with the nodes s.
Link(l, s, k) == IF k = 1 THEN l.head ELSE l.next[s[k - 1]]

\* The links lead through the nodes s[1] to s[n], no two of them the same, to
\* NIL.
Path(l, s, n) ==
    /\ n \in 0 .. MaxNodes /\ s \in [1 .. n -> Nodes]
    /\ \A i, j \in 1 .. n : s[i] = s[j] => i = j
    /\ \A k \in 1 .. n : Link(l, s, k) = s[k]
    /\ Link(l, s, n + 1) = NIL

\* The nodes a list is read to have are those of its path.
LEMMA ChainIs ==
    ASSUME NEW l, NEW s, NEW n, Path(l, s, n)
    PROVE  Chain(l) = s /\ Len(Chain(l)) = n /\ DOMAIN Chain(l) = 1 .. n
<1>1. /\ MaxNodes \in Nat /\ n \in Nat /\ n <= MaxNodes /\ s \in Seq(Nodes) /\ Len(s) = n
      /\ DOMAIN s = 1 .. n /\ \A k \in 1 .. n : s[k] \in Nodes
  BY NodesAssumption DEF Path
<1>2. /\ \A k \in 1 .. n : k # 1 => l.next[s[k - 1]] = s[k]
      /\ n >= 1 => l.head = s[1]
      /\ n = 0 => l.head = NIL
      /\ n >= 1 => l.next[s[n]] = NIL
  BY <1>1 DEF Path, Link
<1>3. \A k \in 1 .. n : s[k] # NIL
  BY <1>1 DEF Nodes, NIL
<1> DEFINE first(k) == SubSeq(s, 1, IF k < n THEN k ELSE n)
           step(t) == LET m == IF t = <<>> THEN l.head ELSE l.next[t[Len(t)]]
                      IN  IF m = NIL THEN t ELSE Append(t, m)
           R(g) == [k \in 0 .. MaxNodes |-> IF k = 0 THEN <<>> ELSE step(g[k - 1])]
           W == [k \in 0 .. MaxNodes |-> first(k)]
           after == CHOOSE g : g = R(g)
<1>4. Chain(l) = after[MaxNodes]
  BY DEF Chain
<1>5. /\ \A k \in Nat : first(k) \in Seq(Nodes)
      /\ \A k \in Nat : k < n => Len(first(k)) = k /\ \A i \in 1 .. k : first(k)[i] = s[i]
      /\ \A k \in Nat : k >= n => first(k) = s
  BY <1>1
<1>6. first(0) = <<>>
  BY <1>1
<1>7. ASSUME NEW k \in Nat \ {0} PROVE first(k) = step(first(k - 1))
  <2>1. k - 1 \in Nat
    BY <1>7
  <2>2. CASE k > n
    <3>1. first(k) = s /\ first(k - 1) = s
      BY <1>1, <1>5, <2>1, <2>2
    <3>2. step(s) = s
      <4>1. s = <<>> <=> n = 0
        BY <1>1
      <4> QED
        BY <1>1, <1>2, <4>1
    <3> HIDE DEF first, step
    <3> QED
      BY <3>1, <3>2
  <2>3. CASE k <= n
    <3>1. PICK t : t = first(k - 1)
      OBVIOUS
    <3>2. t \in Seq(Nodes) /\ Len(t) = k - 1 /\ \A i \in 1 .. k - 1 : t[i] = s[i]
      BY <1>1, <1>5, <2>1, <2>3, <3>1
    <3>3. (IF t = <<>> THEN l.head ELSE l.next[t[Len(t)]]) = s[k]
      <4>1. t = <<>> <=> k = 1
        BY <2>1, <3>2
      <4>2. CASE k = 1
        BY <1>1, <1>2, <2>3, <4>1, <4>2
      <4>3. CASE k # 1
        <5>1. k \in 1 .. n /\ k - 1 \in 1 .. k - 1
          BY <1>1, <1>7, <2>3, <4>3
        <5> QED
          BY <1>2, <3>2, <4>1, <4>3, <5>1
      <4> QED
        BY <4>2, <4>3
    <3>4. k \in 1 .. n
      BY <1>1, <1>7, <2>3
    <3>5. step(t) = Append(t, s[k])
      BY <1>3, <3>3, <3>4
    <3>6. PICK u : u = first(k)
      OBVIOUS
    <3>7. u \in Seq(Nodes) /\ Len(u) = k /\ \A i \in 1 .. k : u[i] = s[i]
      BY <1>1, <1>5, <3>4, <3>6
    <3>8. u = Append(t, s[k])
      <4>1. Append(t, s[k]) \in Seq(Nodes) /\ Len(Append(t, s[k])) = k
        BY <1>1, <2>1, <3>2, <3>4
      <4>2. \A i \in 1 .. k : Append(t, s[k])[i] = s[i]
        BY <1>1, <2>1, <3>2, <3>4
      <4> QED
        BY <3>7, <4>1, <4>2
    <3> HIDE DEF first, step
    <3> QED
      BY <3>1, <3>5, <3>6, <3>8
  <2>4. k > n \/ k <= n
    BY <1>1
  <2> HIDE DEF first, step
  <2> QED
    BY <2>2, <2>3, <2>4
<1> HIDE DEF first, step
<1>8. W = R(W)
  <2>1. \A k \in 0 .. MaxNodes : k # 0 => k - 1 \in 0 .. MaxNodes /\ k \in Nat \ {0}
    BY <1>1
  <2> QED
    BY <1>6, <1>7, <2>1
<1>9. after = R(after)
  <2> HIDE DEF R, W
  <2> QED
    BY <1>8
<1> HIDE DEF after, W
<1>10. \A k \in 0 .. MaxNodes : after[k] = first(k)
  <2> DEFINE S == {k \in 0 .. MaxNodes : after[k] # first(k)}
  <2>1. SUFFICES ASSUME S # {} PROVE FALSE
    OBVIOUS
  <2>2. S \in SUBSET Nat
    BY <1>1
  <2>3. PICK k \in S : \A j \in S : k <= j
    BY <2>1, <2>2, NatMin
  <2>4. k \in 0 .. MaxNodes /\ after[k] # first(k)
    OBVIOUS
  <2>5. k # 0
    BY <1>6, <1>9, <2>4
  <2>6. k - 1 \in 0 .. MaxNodes /\ ~(k <= k - 1) /\ k \in Nat \ {0}
    BY <1>1, <2>4, <2>5
  <2>7. after[k - 1] = first(k - 1)
    BY <2>3, <2>6
  <2>8. after[k] = step(after[k - 1])
    BY <1>9, <2>4, <2>5
  <2> QED
    BY <1>7, <2>4, <2>6, <2>7, <2>8
<1>11. after[MaxNodes] = s
  BY <1>1, <1>5, <1>10
<1> QED
  BY <1>1, <1>4, <1>11

\* A path has no more nodes than there are.
LEMMA PathFits ==
    ASSUME NEW m \in Nat, NEW s \in [1 .. m -> Nodes],
           \A i, j \in 1 .. m : s[i] = s[j] => i = j
    PROVE  m <= MaxNodes
<1>1. MaxNodes \in Nat
  BY NodesAssumption
<1>2. IsFiniteSet(Nodes) /\ Cardinality(Nodes) = MaxNodes
  BY <1>1, FS_Interval DEF Nodes
<1>3. IsFiniteSet(1 .. m) /\ Cardinality(1 .. m) = m
  BY FS_Interval
<1>4. ~(Cardinality(Nodes) < Cardinality(1 .. m))
  BY <1>2, <1>3, FS_PigeonHole
<1> QED
  BY <1>1, <1>2, <1>3, <1>4

MaybeNode == Nodes \cup {NIL}

Lists == [head : MaybeNode, iter_node : MaybeNode, next : [Nodes -> MaybeNode],
          element : [Nodes -> Elements \cup {NoElement}], allocated : SUBSET Nodes]

\* A link set to another node.
LEMMA Relinked ==
    ASSUME NEW l \in Lists, NEW s, NEW n, Path(l, s, n), NEW k \in 1 .. n + 1,
           NEW x \in MaybeNode, NEW r, r = Relink(l, k, x)
    PROVE  /\ r \in Lists /\ r.head = IF k = 1 THEN x ELSE l.head
           /\ \A y \in Nodes : r.next[y] = IF k # 1 /\ y = s[k - 1] THEN x ELSE l.next[y]
           /\ r.element = l.element /\ r.allocated = l.allocated /\ r.iter_node = l.iter_node
<1>1. Chain(l) = s /\ n \in Nat /\ s \in [1 .. n -> Nodes]
  <2>1. Chain(l) = s
    BY ChainIs
  <2> QED
    BY <2>1, NodesAssumption DEF Path
<1>2. CASE k = 1
  <2>1. r = [l EXCEPT !.head = x]
    BY <1>2 DEF Relink
  <2> QED
    BY <1>2, <2>1 DEF Lists
<1>3. CASE k # 1
  <2>1. PICK z : z = s[k - 1]
    OBVIOUS
  <2>2. z \in Nodes
    BY <1>1, <1>3, <2>1
  <2>3. r = [l EXCEPT !.next[z] = x]
    BY <1>1, <1>3, <2>1 DEF Relink
  <2> QED
    BY <1>3, <2>1, <2>2, <2>3 DEF Lists
<1> QED
  BY <1>2, <1>3

Without(s, n, k) == [j \in 1 .. n - 1 |-> IF j < k THEN s[j] ELSE s[j + 1]]

\* The list without its k-th node.
LEMMA Unlinked ==
    ASSUME NEW l \in Lists, NEW s, NEW n, Path(l, s, n), NEW k \in 1 .. n,
           NEW r, r = Relink(l, k, l.next[s[k]])
    PROVE  /\ r \in Lists
           /\ r.element = l.element /\ r.allocated = l.allocated /\ r.iter_node = l.iter_node
           /\ l.next[s[k]] \in MaybeNode
           /\ \A y \in Nodes : r.next[y] \in {l.next[s[k]], l.next[y]}
           /\ Path(r, Without(s, n, k), n - 1)
<1> DEFINE t == [j \in 1 .. n - 1 |-> IF j < k THEN s[j] ELSE s[j + 1]]
           x == l.next[s[k]]
<1>1. /\ MaxNodes \in Nat /\ n \in Nat /\ n <= MaxNodes /\ s \in [1 .. n -> Nodes] /\ k \in Nat
      /\ \A i, j \in 1 .. n : s[i] = s[j] => i = j
      /\ \A i \in 1 .. n : s[i] \in Nodes
  BY NodesAssumption DEF Path
<1>2. x \in MaybeNode
  BY <1>1 DEF Lists
<1>3. /\ r \in Lists /\ r.head = IF k = 1 THEN x ELSE l.head
      /\ \A y \in Nodes : r.next[y] = IF k # 1 /\ y = s[k - 1] THEN x ELSE l.next[y]
      /\ r.element = l.element /\ r.allocated = l.allocated /\ r.iter_node = l.iter_node
  <2>1. k \in 1 .. n + 1
    BY <1>1
  <2> QED
    BY <1>2, <2>1, Relinked
<1> HIDE DEF x
<1>4. /\ l.head = s[1]
      /\ \A i \in 1 .. n - 1 : l.next[s[i]] = s[i + 1]
      /\ l.next[s[n]] = NIL
  <2>1. l.head = s[1]
    BY <1>1 DEF Path, Link
  <2>2. ASSUME NEW i \in 1 .. n - 1 PROVE l.next[s[i]] = s[i + 1]
    <3>1. i + 1 \in 1 .. n /\ i + 1 # 1 /\ (i + 1) - 1 = i
      BY <1>1
    <3> QED
      BY <3>1 DEF Path, Link
  <2>3. n + 1 # 1 /\ (n + 1) - 1 = n
    BY <1>1
  <2>4. l.next[s[n]] = NIL
    BY <2>3 DEF Path, Link
  <2> QED
    BY <2>1, <2>2, <2>4
<1>5. x = IF k = n THEN NIL ELSE s[k + 1]
  BY <1>1, <1>4 DEF x
<1>6. t \in [1 .. n - 1 -> Nodes] /\ \A i, j \in 1 .. n - 1 : t[i] = t[j] => i = j
  BY <1>1
<1>7. ASSUME NEW j \in 1 .. n - 1 PROVE Link(r, t, j) = t[j]
  <2>1. CASE j = 1
    BY <1>1, <1>3, <1>4, <1>5, <2>1 DEF Link
  <2>2. CASE j # 1
    <3>1. PICK i \in 1 .. n - 1 : i = j - 1
      BY <1>1, <2>2
    <3>2. t[i] = IF i < k THEN s[i] ELSE s[i + 1]
      BY <1>1
    <3>3. t[i] \in Nodes
      BY <1>6
    <3>4. Link(r, t, j) = IF k # 1 /\ t[i] = s[k - 1] THEN x ELSE l.next[t[i]]
      BY <1>3, <2>2, <3>1, <3>3 DEF Link
    <3>5. CASE i < k - 1
      <4>1. t[i] = s[i] /\ s[i] # s[k - 1]
        BY <1>1, <3>2, <3>5
      <4>2. l.next[s[i]] = s[i + 1] /\ t[j] = s[i + 1]
        BY <1>1, <1>4, <3>1, <3>5
      <4> QED
        BY <3>4, <4>1, <4>2
    <3>6. CASE i = k - 1
      <4>1. k # 1 /\ t[i] = s[k - 1] /\ t[j] = s[k + 1] /\ k # n
        BY <1>1, <3>1, <3>2, <3>6
      <4> QED
        BY <1>5, <3>4, <4>1
    <3>7. CASE i > k - 1
      <4>1. t[i] = s[i + 1] /\ (k # 1 => s[i + 1] # s[k - 1])
        BY <1>1, <3>2, <3>7
      <4>2. i + 1 \in 1 .. n - 1 /\ l.next[s[i + 1]] = s[(i + 1) + 1] /\ t[j] = s[(i + 1) + 1]
        BY <1>1, <1>4, <3>1, <3>7
      <4> QED
        BY <3>4, <4>1, <4>2
    <3> QED
      BY <1>1, <3>5, <3>6, <3>7
  <2> QED
    BY <2>1, <2>2
<1>8. Link(r, t, (n - 1) + 1) = NIL
  <2>1. CASE n = 1
    BY <1>1, <1>3, <1>5, <2>1 DEF Link
  <2>2. CASE n # 1
    <3>1. (n - 1) + 1 = n /\ n - 1 \in 1 .. n - 1
      BY <1>1, <2>2
    <3>2. Link(r, t, (n - 1) + 1) = r.next[t[n - 1]] /\ t[n - 1] \in Nodes
      BY <1>6, <2>2, <3>1 DEF Link
    <3>3. CASE k = n
      <4>1. t[n - 1] = s[k - 1]
        BY <1>1, <2>2, <3>1, <3>3
      <4> QED
        BY <1>3, <1>5, <2>2, <3>2, <3>3, <4>1
    <3>4. CASE k # n
      <4>1. t[n - 1] = s[n] /\ (k # 1 => s[n] # s[k - 1])
        BY <1>1, <2>2, <3>1, <3>4
      <4> QED
        BY <1>3, <1>4, <3>2, <4>1
    <3> QED
      BY <3>3, <3>4
  <2> QED
    BY <2>1, <2>2
<1>9. n - 1 \in 0 .. MaxNodes
  BY <1>1
<1>10. Path(r, t, n - 1)
  BY <1>6, <1>7, <1>8, <1>9 DEF Path
<1>11. \A y \in Nodes : r.next[y] \in {x, l.next[y]}
  BY <1>3
<1> QED
  BY <1>2, <1>3, <1>10, <1>11 DEF x, Without

\* A list has no first node just when it is empty.
LEMMA EmptyPath ==
    ASSUME NEW l, NEW s, NEW n, Path(l, s, n)
    PROVE  (l.head = NIL <=> n = 0) /\ (n # 0 => l.head = s[1])
<1>1. n \in Nat /\ (n # 0 => s[1] \in Nodes)
  BY NodesAssumption DEF Path
<1>2. NIL \notin Nodes
  BY DEF Nodes, NIL
<1>3. n = 0 => l.head = NIL
  BY DEF Path, Link
<1>4. n # 0 => l.head = s[1]
  <2>1. n # 0 => 1 \in 1 .. n
    BY <1>1
  <2> QED
    BY <2>1 DEF Path, Link
<1> QED
  BY <1>1, <1>2, <1>3, <1>4

\* The list with one node more.
LEMMA Added ==
    ASSUME NEW l \in Lists, NEW s, NEW n, Path(l, s, n), NEW node \in Nodes \ l.allocated,
           \A k \in 1 .. n : s[k] \in l.allocated, NEW e \in Elements \cup {NoElement},
           NEW a, a = add_element(l, node, e)
    PROVE  /\ a \in Lists /\ a.allocated = l.allocated \cup {node}
           /\ a.iter_node = IF n = 0 THEN node ELSE l.iter_node
           /\ \A y \in Nodes : a.element[y] = IF y = node THEN e ELSE l.element[y]
           /\ \A y \in Nodes : a.next[y] \in {IF y = node THEN NIL ELSE l.next[y], node}
           /\ Path(a, [k \in 1 .. n + 1 |-> IF k <= n THEN s[k] ELSE node], n + 1)
<1> DEFINE t == [k \in 1 .. n + 1 |-> IF k <= n THEN s[k] ELSE node]
<1>1. /\ MaxNodes \in Nat /\ n \in Nat /\ n <= MaxNodes /\ s \in [1 .. n -> Nodes]
      /\ \A i, j \in 1 .. n : s[i] = s[j] => i = j
      /\ \A i \in 1 .. n : s[i] \in Nodes /\ s[i] # node
  BY NodesAssumption DEF Path
<1>2. PICK b : b = [l EXCEPT !.next[node] = NIL, !.element[node] = e, !.allocated = @ \cup {node}]
  OBVIOUS
<1>3. /\ b \in Lists /\ b.head = l.head /\ b.iter_node = l.iter_node
      /\ b.allocated = l.allocated \cup {node}
      /\ \A y \in Nodes : b.next[y] = IF y = node THEN NIL ELSE l.next[y]
      /\ \A y \in Nodes : b.element[y] = IF y = node THEN e ELSE l.element[y]
  BY <1>2 DEF Lists, MaybeNode
<1>4. \A k \in 1 .. n + 1 : Link(b, s, k) = Link(l, s, k)
  <2> SUFFICES ASSUME NEW k \in 1 .. n + 1 PROVE Link(b, s, k) = Link(l, s, k)
    OBVIOUS
  <2>1. k # 1 => k - 1 \in 1 .. n
    BY <1>1
  <2> QED
    BY <1>1, <1>3, <2>1 DEF Link
<1>5. Path(b, s, n)
  <2>1. n + 1 \in 1 .. n + 1 /\ \A k \in 1 .. n : k \in 1 .. n + 1
    BY <1>1
  <2> QED
    BY <1>4, <2>1 DEF Path
<1>6. PICK c : c = Relink(b, n + 1, node)
  OBVIOUS
<1>7. /\ c \in Lists /\ c.head = IF n + 1 = 1 THEN node ELSE b.head
      /\ \A y \in Nodes : c.next[y] = IF n + 1 # 1 /\ y = s[(n + 1) - 1] THEN node ELSE b.next[y]
      /\ c.element = b.element /\ c.allocated = b.allocated /\ c.iter_node = b.iter_node
  <2>1. n + 1 \in 1 .. n + 1 /\ node \in MaybeNode
    BY <1>1 DEF MaybeNode
  <2> QED
    BY <1>3, <1>5, <1>6, <2>1, Relinked
<1>8. Len(Chain(l)) = n
  BY ChainIs
<1>9. a = IF l.head = NIL THEN [c EXCEPT !.iter_node = node] ELSE c
  BY <1>2, <1>6, <1>8 DEF add_element
<1>10. l.head = NIL <=> n = 0
  BY EmptyPath
<1>11. /\ a \in Lists /\ a.allocated = l.allocated \cup {node} /\ a.head = c.head /\ a.next = c.next
       /\ a.element = c.element /\ a.iter_node = IF n = 0 THEN node ELSE l.iter_node
  BY <1>3, <1>7, <1>9, <1>10 DEF Lists, MaybeNode
<1>12. t \in [1 .. n + 1 -> Nodes] /\ \A i, j \in 1 .. n + 1 : t[i] = t[j] => i = j
  BY <1>1
<1>13. n + 1 \in 0 .. MaxNodes
  <2>1. n + 1 \in Nat
    BY <1>1
  <2>2. n + 1 <= MaxNodes
    BY <1>12, <2>1, PathFits
  <2> QED
    BY <1>1, <2>1, <2>2
<1>14. ASSUME NEW k \in 1 .. n + 1 PROVE Link(a, t, k) = t[k]
  <2>1. CASE k = 1
    <3>1. CASE n = 0
      BY <1>1, <1>7, <1>11, <2>1, <3>1 DEF Link
    <3>2. CASE n # 0
      <4>1. l.head = s[1] /\ t[1] = s[1] /\ n + 1 # 1
        BY <1>1, <3>2, EmptyPath
      <4> QED
        BY <1>3, <1>7, <1>11, <2>1, <4>1 DEF Link
    <3> QED
      BY <3>1, <3>2
  <2>2. CASE k # 1
    <3>1. PICK i \in 1 .. n : i = k - 1
      BY <1>1, <2>2
    <3>2. t[i] = s[i] /\ s[i] \in Nodes /\ s[i] # node /\ n + 1 # 1 /\ (n + 1) - 1 = n
      BY <1>1
    <3>3. Link(a, t, k) = IF s[i] = s[n] THEN node ELSE l.next[s[i]]
      BY <1>3, <1>7, <1>11, <2>2, <3>1, <3>2 DEF Link
    <3>4. CASE k = n + 1
      BY <1>1, <3>1, <3>3, <3>4
    <3>5. CASE k # n + 1
      <4>1. k \in 1 .. n /\ s[i] # s[n] /\ t[k] = s[k]
        BY <1>1, <3>1, <3>5
      <4>2. Link(l, s, k) = s[k] /\ Link(l, s, k) = l.next[s[i]]
        BY <2>2, <3>1, <4>1 DEF Path, Link
      <4> QED
        BY <3>3, <4>1, <4>2
    <3> QED
      BY <3>4, <3>5
  <2> QED
    BY <2>1, <2>2
<1>15. Link(a, t, (n + 1) + 1) = NIL
  <2>1. ((n + 1) + 1) - 1 = n + 1 /\ (n + 1) + 1 # 1 /\ t[n + 1] = node
    BY <1>1
  <2>2. n + 1 # 1 => s[(n + 1) - 1] # node
    BY <1>1
  <2>3. a.next[node] = NIL
    BY <1>3, <1>7, <1>11, <2>2
  <2>4. Link(a, t, (n + 1) + 1) = a.next[t[n + 1]]
    BY <2>1 DEF Link
  <2> QED
    BY <2>1, <2>3, <2>4
<1>16. Path(a, t, n + 1)
  BY <1>12, <1>13, <1>14, <1>15 DEF Path
<1>17. \A y \in Nodes : a.next[y] \in {IF y = node THEN NIL ELSE l.next[y], node}
  BY <1>3, <1>7, <1>11
<1> QED
  BY <1>3, <1>7, <1>11, <1>16, <1>17
-----------------------------------------------------------------------------
(* A user of a list. *)

\* The nodes hold the elements, and the iterator is in its place.
Holds(s, n) ==
    /\ model \in [1 .. n -> Elements]
    /\ \A k \in 1 .. n : list.element[s[k]] = model[k]
    /\ ~stale /\ list.iter_node # NIL => pos < n /\ list.iter_node = s[pos + 1]

\* What can be reached, from the iterator through removed nodes too, is
\* allocated.
Reach(l, s, n, nodes) ==
    /\ nodes \subseteq l.allocated
    /\ \A k \in 1 .. n : s[k] \in nodes
    /\ l.iter_node \in nodes \cup {NIL}
    /\ \A x \in nodes : l.next[x] \in nodes \cup {NIL}

ListInv ==
    /\ list \in Lists /\ pos \in Nat /\ stale \in BOOLEAN
    /\ \E s, n, nodes : Path(list, s, n) /\ Holds(s, n) /\ Reach(list, s, n, nodes)

\* A new list.
LEMMA ListInit == LInit => ListInv
<1> SUFFICES ASSUME LInit PROVE ListInv
  OBVIOUS
<1>1. /\ list = [head |-> NIL, iter_node |-> NIL, next |-> [n \in Nodes |-> NIL],
                 element |-> [n \in Nodes |-> NoElement], allocated |-> {}]
      /\ pos = 0 /\ stale = FALSE /\ model = <<>>
  BY DEF LInit, initialize_list, Unused
<1>2. list \in Lists
  BY <1>1 DEF Lists, MaybeNode
<1> DEFINE s == [k \in 1 .. 0 |-> k]
<1>3. s \in [1 .. 0 -> Nodes] /\ 0 \in 0 .. MaxNodes
  BY NodesAssumption
<1>4. Path(list, s, 0)
  BY <1>1, <1>3 DEF Path, Link
<1>5. model \in [1 .. 0 -> Elements]
  BY <1>1
<1>6. Holds(s, 0)
  BY <1>1, <1>5 DEF Holds
<1>7. Reach(list, s, 0, {})
  BY <1>1 DEF Reach
<1> HIDE DEF s
<1> QED
  BY <1>1, <1>2, <1>4, <1>6, <1>7 DEF ListInv

\* The user of the list: one lemma for each of its calls.
LEMMA Iterating == ASSUME ListInv, ListIterate PROVE ListInv'
<1>1. PICK s, n, nodes : Path(list, s, n) /\ Holds(s, n) /\ Reach(list, s, n, nodes)
  BY DEF ListInv
<1>2. /\ n \in Nat /\ s \in [1 .. n -> Nodes] /\ pos \in Nat /\ list \in Lists /\ stale \in BOOLEAN
  BY <1>1, NodesAssumption DEF ListInv, Path
<1>3. list' = [list EXCEPT !.iter_node = IF list.iter_node = NIL THEN list.head ELSE list.next[list.iter_node]]
  BY DEF ListIterate, iter_list
<1> DEFINE there == IF list.iter_node = NIL THEN list.head ELSE list.next[list.iter_node]
<1>4. there \in nodes \cup {NIL}
  <2>1. list.head \in nodes \cup {NIL}
    <3>1. list.head = NIL \/ (n # 0 /\ list.head = s[1])
      BY <1>1, EmptyPath
    <3>2. n # 0 => s[1] \in nodes
      BY <1>1, <1>2 DEF Reach
    <3> QED
      BY <3>1, <3>2
  <2> QED
    BY <1>1, <2>1 DEF Reach
<1>5. nodes \subseteq Nodes
  BY <1>1, <1>2 DEF Reach, Lists
<1>6. /\ list' \in Lists /\ list'.head = list.head /\ list'.next = list.next
      /\ list'.element = list.element /\ list'.allocated = list.allocated /\ list'.iter_node = there
  BY <1>2, <1>3, <1>4, <1>5 DEF Lists, MaybeNode
<1>7. Path(list', s, n)
  BY <1>1, <1>6 DEF Path, Link
<1>8. Reach(list', s, n, nodes)
  BY <1>1, <1>4, <1>6 DEF Reach
<1>9. pos' \in Nat /\ stale' \in BOOLEAN /\ model' = model
  <2>1. pos' \in Nat
    BY <1>2 DEF ListIterate
  <2>2. stale' \in BOOLEAN /\ model' = model
    BY <1>2, Zenon DEF ListIterate
  <2> QED
    BY <2>1, <2>2
<1>10. Holds(s, n)'
  <2>1. ASSUME ~stale', there # NIL PROVE pos' < n /\ there = s[pos' + 1]
    <3>1. CASE list.iter_node = NIL
      <4>1. pos' = 0 /\ there = list.head
        BY <3>1 DEF ListIterate
      <4>2. n # 0 /\ list.head = s[1]
        BY <1>1, <2>1, <4>1, EmptyPath
      <4> QED
        BY <1>2, <4>1, <4>2
    <3>2. CASE list.iter_node # NIL
      <4>1. pos' = pos + 1 /\ ~stale /\ there = list.next[list.iter_node]
        BY <2>1, <3>2 DEF ListIterate
      <4>2. pos < n /\ list.iter_node = s[pos + 1]
        BY <1>1, <3>2, <4>1 DEF Holds
      <4>3. PICK k \in 2 .. n + 1 : k = pos + 2
        BY <1>2, <4>2
      <4>4. Link(list, s, k) = there
        <5>1. k # 1 /\ k - 1 = pos + 1
          BY <1>2, <4>3
        <5> QED
          BY <4>1, <4>2, <5>1 DEF Link
      <4>5. k \in 1 .. n \/ k = n + 1
        BY <1>2, <4>3
      <4>6. k \in 1 .. n /\ there = s[k]
        BY <1>1, <2>1, <4>4, <4>5 DEF Path
      <4> QED
        BY <1>2, <4>1, <4>3, <4>6
    <3> QED
      BY <3>1, <3>2
  <2> HIDE DEF there
  <2> QED
    BY <1>1, <1>6, <1>9, <2>1 DEF Holds
<1> QED
  BY <1>6, <1>7, <1>8, <1>9, <1>10 DEF ListInv

LEMMA Adding == ASSUME ListInv, ListAdd PROVE ListInv'
<1>1. PICK s, n, nodes : Path(list, s, n) /\ Holds(s, n) /\ Reach(list, s, n, nodes)
  BY DEF ListInv
<1>2. /\ n \in Nat /\ s \in [1 .. n -> Nodes] /\ pos \in Nat /\ list \in Lists /\ stale \in BOOLEAN
      /\ \A k \in 1 .. n : s[k] \in list.allocated
  BY <1>1, NodesAssumption DEF ListInv, Path, Reach
<1>3. PICK e \in Elements, node \in Nodes \ list.allocated :
         /\ list' = add_element(list, node, e)
         /\ model' = Append(model, e)
         /\ pos' = IF is_empty(list) THEN 0 ELSE pos
         /\ stale' = (stale /\ ~is_empty(list))
  BY DEF ListAdd
<1> DEFINE t == [k \in 1 .. n + 1 |-> IF k <= n THEN s[k] ELSE node]
<1>4. PICK a : a = list'
  OBVIOUS
<1>5. /\ a \in Lists /\ a.allocated = list.allocated \cup {node}
      /\ a.iter_node = IF n = 0 THEN node ELSE list.iter_node
      /\ \A y \in Nodes : a.element[y] = IF y = node THEN e ELSE list.element[y]
      /\ \A y \in Nodes : a.next[y] \in {IF y = node THEN NIL ELSE list.next[y], node}
      /\ Path(a, t, n + 1)
  <2>1. a = add_element(list, node, e) /\ e \in Elements \cup {NoElement}
    BY <1>3, <1>4
  <2> QED
    BY <1>1, <1>2, <2>1, Added
<1>6. is_empty(list) <=> n = 0
  BY <1>1, EmptyPath DEF is_empty
<1>7. /\ n = 0 => pos' = 0 /\ ~stale'
      /\ n # 0 => pos' = pos /\ (stale' <=> stale)
  BY <1>2, <1>3, <1>6
<1>8. pos' \in Nat /\ stale' \in BOOLEAN
  BY <1>2, <1>3, <1>6
<1>9. /\ \A k \in 1 .. n : t[k] = s[k] /\ s[k] # node /\ s[k] \in Nodes
      /\ t[n + 1] = node
  BY <1>2
<1>10. Reach(a, t, n + 1, nodes \cup {node})
  <2>1. \A k \in 1 .. n + 1 : t[k] \in nodes \cup {node}
    BY <1>1, <1>2 DEF Reach
  <2>2. nodes \subseteq Nodes /\ node \in Nodes /\ node \notin nodes
    BY <1>1, <1>2 DEF Reach, Lists
  <2>3. \A x \in nodes \cup {node} : a.next[x] \in nodes \cup {node} \cup {NIL}
    BY <1>1, <1>5, <2>2 DEF Reach
  <2>4. nodes \cup {node} \subseteq a.allocated
    BY <1>1, <1>5 DEF Reach
  <2>5. a.iter_node \in nodes \cup {node} \cup {NIL}
    BY <1>1, <1>5 DEF Reach
  <2> HIDE DEF t
  <2> QED
    BY <2>1, <2>3, <2>4, <2>5 DEF Reach
<1>11. /\ model \in [1 .. n -> Elements]
       /\ \A k \in 1 .. n : list.element[s[k]] = model[k]
       /\ ~stale /\ list.iter_node # NIL => pos < n /\ list.iter_node = s[pos + 1]
  BY <1>1 DEF Holds
<1>12. /\ model' \in [1 .. n + 1 -> Elements]
       /\ \A k \in 1 .. n : model'[k] = model[k]
       /\ model'[n + 1] = e
  <2>1. model \in Seq(Elements) /\ Len(model) = n
    BY <1>2, <1>11
  <2>2. /\ Append(model, e) \in Seq(Elements) /\ Len(Append(model, e)) = n + 1
        /\ \A k \in 1 .. n : Append(model, e)[k] = model[k]
        /\ Append(model, e)[n + 1] = e
    BY <1>2, <2>1
  <2>3. PICK u : u = Append(model, e)
    OBVIOUS
  <2>4. u \in Seq(Elements) /\ Len(u) = n + 1
    BY <2>2, <2>3
  <2>5. u \in [1 .. n + 1 -> Elements]
    BY <1>2, <2>4
  <2> QED
    BY <1>3, <2>2, <2>3, <2>5
<1>13. \A k \in 1 .. n + 1 : a.element[t[k]] = model'[k]
  <2> SUFFICES ASSUME NEW k \in 1 .. n + 1 PROVE a.element[t[k]] = model'[k]
    OBVIOUS
  <2>1. k \in 1 .. n \/ k = n + 1
    BY <1>2
  <2> HIDE DEF t
  <2>2. CASE k \in 1 .. n
    BY <1>5, <1>9, <1>11, <1>12, <2>2
  <2>3. CASE k = n + 1
    BY <1>3, <1>5, <1>9, <1>12, <2>3
  <2> QED
    BY <2>1, <2>2, <2>3
<1>14. ASSUME ~stale', a.iter_node # NIL PROVE pos' < n + 1 /\ a.iter_node = t[pos' + 1]
  <2>1. CASE n = 0
    BY <1>5, <1>7, <1>9, <2>1
  <2>2. CASE n # 0
    <3>1. pos' = pos /\ pos < n /\ a.iter_node = s[pos + 1]
      BY <1>5, <1>7, <1>11, <1>14, <2>2
    <3>2. pos + 1 \in 1 .. n
      BY <1>2, <3>1
    <3>3. t[pos + 1] = s[pos + 1]
      BY <1>9, <3>2
    <3> QED
      BY <1>2, <3>1, <3>3
  <2> QED
    BY <2>1, <2>2
<1> HIDE DEF t
<1>15. Holds(t, n + 1)'
  BY <1>4, <1>12, <1>13, <1>14 DEF Holds
<1> QED
  BY <1>4, <1>5, <1>8, <1>10, <1>15 DEF ListInv

\* The elements without the k-th.
LEMMA Shorter ==
    ASSUME NEW n \in Nat, NEW m \in [1 .. n -> Elements], NEW k \in 1 .. n
    PROVE  RemoveAt(m, k) = Without(m, n, k)
<1> DEFINE a == SubSeq(m, 1, k - 1)
           b == SubSeq(m, k + 1, n)
           c == [j \in 1 .. n - 1 |-> IF j < k THEN m[j] ELSE m[j + 1]]
<1>1. m \in Seq(Elements) /\ Len(m) = n
  OBVIOUS
<1>2. RemoveAt(m, k) = a \o b
  BY <1>1 DEF RemoveAt
<1>3. a \in Seq(Elements) /\ Len(a) = k - 1 /\ \A j \in 1 .. k - 1 : a[j] = m[j]
  BY <1>1
<1>4. b \in Seq(Elements) /\ Len(b) = n - k /\ \A j \in 1 .. n - k : b[j] = m[k + j]
  BY <1>1
<1> HIDE DEF a, b
<1>5. c \in Seq(Elements) /\ Len(c) = n - 1
  <2>1. n - 1 \in Nat /\ \A j \in 1 .. n - 1 : j + 1 \in 1 .. n /\ j \in 1 .. n
    OBVIOUS
  <2>2. c \in [1 .. n - 1 -> Elements]
    BY <2>1
  <2> HIDE DEF c
  <2> QED
    BY <2>1, <2>2
<1>6. a \o b \in Seq(Elements) /\ Len(a \o b) = n - 1
  <2>1. a \o b \in Seq(Elements)
    BY <1>3, <1>4, ConcatProperties
  <2>2. Len(a \o b) = Len(a) + Len(b)
    BY <1>3, <1>4, ConcatProperties
  <2>3. (k - 1) + (n - k) = n - 1
    OBVIOUS
  <2> QED
    BY <1>3, <1>4, <2>1, <2>2, <2>3
<1>7. ASSUME NEW j \in 1 .. n - 1 PROVE (a \o b)[j] = c[j]
  <2>1. CASE j < k
    BY <1>3, <1>4, <2>1
  <2>2. CASE ~(j < k)
    <3>1. (a \o b)[j] = b[j - (k - 1)]
      BY <1>3, <1>4, <2>2
    <3>2. PICK i \in 1 .. n - k : i = j - (k - 1) /\ k + i = j + 1
      BY <2>2
    <3> QED
      BY <1>4, <2>2, <3>1, <3>2
  <2> QED
    BY <2>1, <2>2
<1> HIDE DEF c
<1>8. a \o b = c
  BY <1>5, <1>6, <1>7
<1> QED
  BY <1>2, <1>8 DEF c, Without

\* What the nodes hold once the k-th is unlinked.
LEMMA Shrunk ==
    ASSUME list \in Lists, NEW s, NEW n, Path(list, s, n), Holds(s, n), NEW k \in 1 .. n
    PROVE  /\ n \in Nat /\ Len(model) = n /\ n - 1 \in Nat
           /\ RemoveAt(model, k) \in [1 .. n - 1 -> Elements]
           /\ \A j \in 1 .. n - 1 : list.element[Without(s, n, k)[j]] = RemoveAt(model, k)[j]
<1>1. /\ n \in Nat /\ model \in [1 .. n -> Elements]
      /\ \A j \in 1 .. n : list.element[s[j]] = model[j]
  BY NodesAssumption DEF Path, Holds
<1>2. Len(model) = n /\ n - 1 \in Nat
  BY <1>1
<1>3. RemoveAt(model, k) = [j \in 1 .. n - 1 |-> IF j < k THEN model[j] ELSE model[j + 1]]
  BY <1>1, Shorter DEF Without
<1>4. \A j \in 1 .. n - 1 : j \in 1 .. n /\ j + 1 \in 1 .. n
  BY <1>1
<1>5. RemoveAt(model, k) \in [1 .. n - 1 -> Elements]
  BY <1>1, <1>3, <1>4
<1>6. \A j \in 1 .. n - 1 : list.element[Without(s, n, k)[j]] = RemoveAt(model, k)[j]
  BY <1>1, <1>3, <1>4 DEF Without
<1> QED
  BY <1>1, <1>2, <1>5, <1>6

\* From a node of the chain one comes to the next one.
LEMMA OnPath ==
    ASSUME NEW l, NEW s, NEW n, Path(l, s, n), NEW k \in 1 .. n
    PROVE  l.next[s[k]] = IF k = n THEN NIL ELSE s[k + 1]
<1>1. n \in Nat
  BY NodesAssumption DEF Path
<1>2. k + 1 # 1 /\ (k + 1) - 1 = k /\ (k # n => k + 1 \in 1 .. n)
  BY <1>1
<1>3. Link(l, s, k + 1) = l.next[s[k]]
  BY <1>2 DEF Link
<1> QED
  BY <1>2, <1>3 DEF Path

LEMMA Popping == ASSUME ListInv, ListPop PROVE ListInv'
<1>1. PICK s, n, nodes : Path(list, s, n) /\ Holds(s, n) /\ Reach(list, s, n, nodes)
  BY DEF ListInv
<1>2. /\ n \in Nat /\ s \in [1 .. n -> Nodes] /\ pos \in Nat /\ list \in Lists /\ stale \in BOOLEAN
      /\ \A k \in 1 .. n : s[k] \in list.allocated
      /\ \A i, j \in 1 .. n : s[i] = s[j] => i = j
  BY <1>1, NodesAssumption DEF ListInv, Path, Reach
<1>3. PICK index \in 0 .. MaxNodes :
         /\ list' = pop_element(list, index)
         /\ IF index >= Len(model) THEN UNCHANGED <<model, pos, stale>>
            ELSE model' = RemoveAt(model, index + 1) /\ pos' = 0 /\ stale' = FALSE
  BY DEF ListPop
<1>4. Chain(list) = s /\ Len(Chain(list)) = n
  BY <1>1, ChainIs
<1>5. Len(model) = n
  BY <1>1, <1>2 DEF Holds
<1>6. CASE index >= n
  <2>1. list' = list /\ model' = model /\ pos' = pos /\ stale' = stale
    BY <1>3, <1>4, <1>5, <1>6 DEF pop_element
  <2>2. Holds(s, n)'
    BY <1>1, <2>1 DEF Holds
  <2> QED
    BY <1>1, <1>2, <2>1, <2>2 DEF ListInv
<1>7. CASE ~(index >= n)
  <2>1. PICK k \in 1 .. n : k = index + 1
    BY <1>2, <1>7, NodesAssumption
  <2>2. PICK r : r = Relink(list, k, list.next[s[k]])
    OBVIOUS
  <2>3. list' = [r EXCEPT !.allocated = @ \ {s[k]}, !.iter_node = r.head]
    BY <1>3, <1>4, <1>7, <2>1, <2>2 DEF pop_element
  <2>4. PICK t : t = Without(s, n, k)
    OBVIOUS
  <2>5. r \in Lists /\ r.element = list.element /\ r.allocated = list.allocated /\ Path(r, t, n - 1)
    BY <1>1, <1>2, <2>2, <2>4, Unlinked
  <2>6. /\ n - 1 \in Nat /\ RemoveAt(model, k) \in [1 .. n - 1 -> Elements]
        /\ \A j \in 1 .. n - 1 : list.element[t[j]] = RemoveAt(model, k)[j]
    <3> list \in Lists /\ Path(list, s, n) /\ Holds(s, n)
      BY <1>1, <1>2
    <3>1. /\ RemoveAt(model, k) \in [1 .. n - 1 -> Elements]
          /\ \A j \in 1 .. n - 1 : list.element[Without(s, n, k)[j]] = RemoveAt(model, k)[j]
      BY Shrunk
    <3>2. n - 1 \in Nat
      BY <1>2
    <3> QED
      BY <2>4, <3>1, <3>2
  <2>7. model' = RemoveAt(model, k) /\ pos' = 0 /\ stale' = FALSE
    BY <1>3, <1>5, <1>7, <2>1
  <2>8. /\ list' \in Lists /\ list'.head = r.head /\ list'.next = r.next /\ list'.element = r.element
        /\ list'.allocated = list.allocated \ {s[k]} /\ list'.iter_node = r.head
    BY <2>3, <2>5 DEF Lists
  <2>9. Path(list', t, n - 1)
    BY <2>5, <2>8 DEF Path, Link
  <2>10. r.head = NIL \/ (n - 1 # 0 /\ r.head = t[1])
    BY <2>5, EmptyPath
  <2>11. \A j \in 1 .. n - 1 : t[j] \in list.allocated \ {s[k]}
    BY <1>2, <2>4 DEF Without
  <2> DEFINE new == {t[j] : j \in 1 .. n - 1}
  <2>12. Reach(list', t, n - 1, new)
    <3>1. new \subseteq list'.allocated
      BY <2>8, <2>11
    <3>2. list'.iter_node \in new \cup {NIL}
      <4>1. n - 1 # 0 => 1 \in 1 .. n - 1
        BY <1>2
      <4> QED
        BY <2>8, <2>10, <4>1
    <3>3. ASSUME NEW j \in 1 .. n - 1 PROVE list'.next[t[j]] \in new \cup {NIL}
      <4>1. list'.next[t[j]] = IF j = n - 1 THEN NIL ELSE t[j + 1]
        BY <2>9, OnPath
      <4>2. j # n - 1 => j + 1 \in 1 .. n - 1
        BY <2>6
      <4> QED
        BY <4>1, <4>2
    <3> QED
      BY <3>1, <3>2, <3>3 DEF Reach
  <2>13. Holds(t, n - 1)'
    <3>1. list'.iter_node # NIL => pos' < n - 1 /\ list'.iter_node = t[pos' + 1]
      <4>1. n - 1 # 0 => 0 < n - 1
        BY <1>2
      <4>2. 0 + 1 = 1
        OBVIOUS
      <4> QED
        BY <2>7, <2>8, <2>10, <4>1, <4>2
    <3> QED
      BY <2>5, <2>6, <2>7, <2>8, <3>1 DEF Holds
  <2> HIDE DEF new
  <2> QED
    BY <2>7, <2>8, <2>9, <2>12, <2>13 DEF ListInv
<1> QED
  BY <1>6, <1>7

LEMMA Removing == ASSUME ListInv, ListRemove PROVE ListInv'
<1>1. PICK s, n, nodes : Path(list, s, n) /\ Holds(s, n) /\ Reach(list, s, n, nodes)
  BY DEF ListInv
<1>2. /\ n \in Nat /\ s \in [1 .. n -> Nodes] /\ pos \in Nat /\ list \in Lists /\ stale \in BOOLEAN
  BY <1>1, NodesAssumption DEF ListInv, Path
<1>3. /\ model \in [1 .. n -> Elements]
      /\ \A k \in 1 .. n : list.element[s[k]] = model[k]
      /\ ~stale /\ list.iter_node # NIL => pos < n /\ list.iter_node = s[pos + 1]
  BY <1>1 DEF Holds
<1>4. Chain(list) = s /\ DOMAIN Chain(list) = 1 .. n
  BY <1>1, ChainIs
<1>5. Contents(list) = model
  BY <1>3, <1>4 DEF Contents
<1>6. PICK e \in Elements :
         LET found == SelectInSeq(model, LAMBDA x : x = e) IN
         /\ list' = remove_element(list, e)
         /\ model' = IF found = 0 THEN model ELSE RemoveAt(model, found)
         /\ pos' = IF found # 0 /\ found <= pos THEN pos - 1 ELSE pos
         /\ stale' = (stale \/ (found = pos + 1 /\ list.iter_node # NIL))
  BY DEF ListRemove
<1>7. PICK found : found = SelectInSeq(model, LAMBDA x : x = e)
  OBVIOUS
<1>8. /\ model' = IF found = 0 THEN model ELSE RemoveAt(model, found)
      /\ pos' = IF found # 0 /\ found <= pos THEN pos - 1 ELSE pos
      /\ stale' = (stale \/ (found = pos + 1 /\ list.iter_node # NIL))
  BY <1>6, <1>7
<1>9. found \in 0 .. n
  <2> DEFINE I == {i \in 1 .. Len(model) : model[i] = e}
  <2>1. found = IF I # {} THEN Min(I) ELSE 0
    BY <1>7 DEF SelectInSeq
  <2>2. I \subseteq 1 .. n
    BY <1>2, <1>3
  <2>3. I \in SUBSET Nat
    BY <2>2
  <2> HIDE DEF I
  <2>4. I # {} => Min(I) \in I
    BY <2>3, FirstIndex
  <2>5. 0 \in 0 .. n /\ 1 .. n \subseteq 0 .. n
    BY <1>2
  <2> QED
    BY <2>1, <2>2, <2>4, <2>5
<1>10. list' = IF found = 0 THEN list ELSE Relink(list, found, list.next[s[found]])
  BY <1>4, <1>5, <1>6, <1>7 DEF remove_element
<1>11. stale' \in BOOLEAN
  BY <1>8, Zenon
<1>12. pos' \in Nat
  BY <1>2, <1>9, <1>8
<1>13. CASE found = 0
  <2>1. list' = list /\ model' = model /\ pos' = pos /\ found # pos + 1
    BY <1>2, <1>10, <1>13, <1>8
  <2>2. stale' = stale
    BY <1>2, <1>8, <2>1, Zenon
  <2>3. Holds(s, n)'
    BY <1>1, <2>1, <2>2 DEF Holds
  <2> QED
    BY <1>1, <1>2, <2>1, <2>2, <2>3 DEF ListInv
<1>14. CASE found # 0
  <2>1. PICK k \in 1 .. n : k = found
    BY <1>2, <1>9, <1>14
  <2>2. PICK r : r = list'
    OBVIOUS
  <2>3. r = Relink(list, k, list.next[s[k]])
    BY <1>10, <1>14, <2>1, <2>2
  <2>4. PICK t : t = Without(s, n, k)
    OBVIOUS
  <2>5. /\ r \in Lists /\ r.element = list.element /\ r.allocated = list.allocated
        /\ r.iter_node = list.iter_node /\ Path(r, t, n - 1)
        /\ \A y \in Nodes : r.next[y] \in {list.next[s[k]], list.next[y]}
    BY <1>1, <1>2, <2>3, <2>4, Unlinked
  <2>6. /\ n - 1 \in Nat /\ RemoveAt(model, k) \in [1 .. n - 1 -> Elements]
        /\ \A j \in 1 .. n - 1 : list.element[t[j]] = RemoveAt(model, k)[j]
    <3>1. /\ RemoveAt(model, k) \in [1 .. n - 1 -> Elements]
          /\ \A j \in 1 .. n - 1 : list.element[Without(s, n, k)[j]] = RemoveAt(model, k)[j]
      BY <1>1, <1>2, Shrunk
    <3>2. n - 1 \in Nat
      BY <1>2
    <3> QED
      BY <2>4, <3>1, <3>2
  <2>7. /\ model' = RemoveAt(model, k)
        /\ pos' = IF k <= pos THEN pos - 1 ELSE pos
    BY <1>14, <1>8, <2>1
  <2>8. Reach(r, t, n - 1, nodes)
    <3>1. /\ nodes \subseteq list.allocated /\ list.iter_node \in nodes \cup {NIL}
          /\ \A j \in 1 .. n : s[j] \in nodes
          /\ \A x \in nodes : list.next[x] \in nodes \cup {NIL}
      BY <1>1 DEF Reach
    <3>2. nodes \subseteq Nodes
      BY <1>2, <3>1 DEF Lists
    <3>3. \A x \in nodes : r.next[x] \in nodes \cup {NIL}
      BY <2>5, <3>1, <3>2
    <3>4. \A j \in 1 .. n - 1 : t[j] \in nodes
      BY <1>2, <2>4, <3>1 DEF Without
    <3> QED
      BY <2>5, <3>1, <3>3, <3>4 DEF Reach
  <2>9. ASSUME ~stale', r.iter_node # NIL PROVE pos' < n - 1 /\ r.iter_node = t[pos' + 1]
    <3>1. ~stale /\ k # pos + 1
      BY <1>8, <2>1, <2>5, <2>9
    <3>2. pos < n /\ r.iter_node = s[pos + 1]
      BY <1>3, <2>5, <2>9, <3>1
    <3>3. CASE k <= pos
      <4>1. pos' = pos - 1 /\ pos \in 1 .. n - 1 /\ ~(pos < k) /\ (pos - 1) + 1 = pos
        BY <1>2, <2>7, <3>2, <3>3
      <4> QED
        BY <1>2, <2>4, <3>2, <4>1 DEF Without
    <3>4. CASE ~(k <= pos)
      <4>1. pos' = pos /\ pos + 1 < k /\ pos + 1 \in 1 .. n - 1
        BY <1>2, <2>7, <3>1, <3>4
      <4> QED
        BY <1>2, <2>4, <3>2, <4>1 DEF Without
    <3> QED
      BY <3>3, <3>4
  <2>10. Holds(t, n - 1)'
    BY <2>2, <2>5, <2>6, <2>7, <2>9 DEF Holds
  <2> QED
    BY <1>11, <1>12, <2>2, <2>5, <2>8, <2>10 DEF ListInv
<1> QED
  BY <1>13, <1>14

-----------------------------------------------------------------------------
(* What the steps change. *)

\* A step is one of the list's user, or leaves the list alone.
LEMMA ListOrFiles == ASSUME [Next]_vars PROVE UseList \/ UNCHANGED lvars
<1>1. CASE UseList
  BY <1>1
<1>2. CASE vfs_init
  BY <1>2 DEF vfs_init
<1>3. CASE vfs_mount
  BY <1>3 DEF vfs_mount
<1>4. CASE \E mode \in Modes : file_open(mode)
  BY <1>4 DEF file_open
<1>5. CASE \E h \in Handles, length \in Unsigned : file_read(h, length)
  BY <1>5 DEF file_read
<1>6. CASE \E h \in Handles : file_write(h)
  BY <1>6 DEF file_write
<1>7. CASE \E h \in Handles : file_close(h)
  BY <1>7 DEF file_close
<1>8. CASE \E h \in Handles, jmp \in Signed, seek_type \in {"SEEK_SET", "SEEK_CUR", "SEEK_END"} :
             file_seek(h, jmp, seek_type)
  BY <1>8 DEF file_seek
<1>9. CASE UNCHANGED vars
  BY <1>9 DEF vars
<1> QED
  BY <1>1, <1>2, <1>3, <1>4, <1>5, <1>6, <1>7, <1>8, <1>9 DEF Next

LEMMA ListSteps == ASSUME ListInv, [Next]_vars PROVE ListInv'
<1>1. CASE UNCHANGED lvars
  <2>1. list' = list /\ pos' = pos /\ stale' = stale /\ model' = model
    BY <1>1 DEF lvars
  <2> QED
    BY <2>1 DEF ListInv, Holds
<1>2. CASE UseList
  BY <1>2, Adding, Popping, Removing, Iterating DEF UseList, ListStep
<1> QED
  BY <1>1, <1>2, ListOrFiles

LEMMA ListAlways == Spec => []ListInv
<1>1. Init => ListInv
  BY ListInit DEF Init
<1>2. ListInv /\ [Next]_vars => ListInv'
  BY ListSteps
<1> QED
  BY <1>1, <1>2, PTL DEF Spec

\* The invariant gives what the runs check.
LEMMA ListRight == ListInv => ContentsRight /\ NoDanglingNode /\ IteratorInPlace
<1> SUFFICES ASSUME ListInv PROVE ContentsRight /\ NoDanglingNode /\ IteratorInPlace
  OBVIOUS
<1>1. PICK s, n, nodes : Path(list, s, n) /\ Holds(s, n) /\ Reach(list, s, n, nodes)
  BY DEF ListInv
<1>2. Chain(list) = s /\ Len(Chain(list)) = n /\ DOMAIN Chain(list) = 1 .. n
  BY <1>1, ChainIs
<1>3. Contents(list) = model
  <2>1. model \in [1 .. n -> Elements] /\ \A k \in 1 .. n : list.element[s[k]] = model[k]
    BY <1>1 DEF Holds
  <2> QED
    BY <1>2, <2>1 DEF Contents
<1>4. ToSet(Chain(list)) \subseteq list.allocated
  <2>1. nodes \subseteq list.allocated /\ \A k \in 1 .. n : s[k] \in nodes
    BY <1>1 DEF Reach
  <2>2. ToSet(Chain(list)) = {s[k] : k \in 1 .. n}
    BY <1>2 DEF ToSet
  <2> QED
    BY <2>1, <2>2
<1>5. list.iter_node \in {NIL} \cup list.allocated
  BY <1>1 DEF Reach
<1>6. IteratorInPlace
  BY <1>1, <1>2 DEF Holds, IteratorInPlace
<1> QED
  BY <1>3, <1>4, <1>5, <1>6 DEF ContentsRight, NoDanglingNode

\* Whatever is added, popped and removed, the links of the list lead through
\* the elements that should be there, in the order of the calls (list.c).
THEOREM ListHoldsWhatItShould == Spec => []ContentsRight
BY ListAlways, ListRight, PTL

\* Neither a link nor the iterator ever leads to a freed node: pop_element
\* rewinds the iterator, and remove_element frees nothing.
THEOREM ListNeverDangles == Spec => []NoDanglingNode
BY ListAlways, ListRight, PTL

\* The iterator stands behind the elements it has returned, until the element
\* it stands on is removed under it.
THEOREM IteratorKeepsPlace == Spec => []IteratorInPlace
BY ListAlways, ListRight, PTL

-----------------------------------------------------------------------------
(* The lists vfs_open makes. *)

\* The list of vfs_open before its node is added.
LEMMA NewList ==
    ASSUME NEW l, l = initialize_list(Unused)
    PROVE  l \in Lists /\ l.allocated = {} /\ \E s : Path(l, s, 0)
<1>1. l = [head |-> NIL, iter_node |-> NIL, next |-> [n \in Nodes |-> NIL],
           element |-> [n \in Nodes |-> NoElement], allocated |-> {}]
  BY DEF initialize_list, Unused
<1>2. l \in Lists
  BY <1>1 DEF Lists, MaybeNode
<1> DEFINE s == [k \in 1 .. 0 |-> k]
<1>3. s \in [1 .. 0 -> Nodes] /\ 0 \in 0 .. MaxNodes
  BY NodesAssumption
<1>4. Path(l, s, 0)
  BY <1>1, <1>3 DEF Path, Link
<1>5. l.allocated = {}
  BY <1>1
<1> HIDE DEF s
<1> QED
  BY <1>2, <1>4, <1>5

\* The search for the mount point gives its list back, and finds nothing
\* before vfs_init.
LEMMA NothingKept == Kept = {} /\ (mount = "none" <=> current = NoElement)
<1> DEFINE e == IF mount = "none" THEN NoElement ELSE "mount_points"
<1>1. e \in Elements \cup {NoElement}
  BY FilesAssumption
<1>2. PICK l : l = initialize_list(Unused)
  OBVIOUS
<1>3. PICK s : l \in Lists /\ l.allocated = {} /\ Path(l, s, 0)
  BY <1>2, NewList
<1>4. PICK a : a = tree_nodes
  OBVIOUS
<1>5. a = add_element(l, 1, e)
  BY <1>2, <1>4 DEF tree_nodes
<1>6. 1 \in Nodes \ l.allocated
  BY <1>3, NodesAssumption DEF Nodes
<1> HIDE DEF e
<1>7. PICK n \in Nat : n = 0
  OBVIOUS
<1>8. PICK t : t = [k \in 1 .. n + 1 |-> IF k <= n THEN s[k] ELSE 1]
  OBVIOUS
<1>9. /\ a \in Lists /\ a.allocated = l.allocated \cup {1}
      /\ \A y \in Nodes : a.element[y] = IF y = 1 THEN e ELSE l.element[y]
      /\ Path(a, t, n + 1)
  <2>1. Path(l, s, n) /\ \A k \in 1 .. n : s[k] \in l.allocated
    BY <1>3, <1>7
  <2> QED
    BY <1>1, <1>3, <1>5, <1>6, <1>8, <2>1, Added
<1>10. /\ a.allocated = {1} /\ a.element[1] = e /\ Path(a, t, 1) /\ t[1] = 1
  <2>1. n + 1 = 1 /\ t[1] = 1
    BY <1>7, <1>8
  <2> QED
    BY <1>3, <1>6, <1>9, <2>1
<1>11. Chain(a) = t /\ Len(Chain(a)) = 1 /\ DOMAIN Chain(a) = 1 .. 1
  BY <1>10, ChainIs
<1>12. current = e
  <2>1. current = Contents(a)[1]
    BY <1>4, <1>11 DEF current, Popped
  <2>2. Contents(a)[1] = a.element[t[1]]
    BY <1>11 DEF Contents
  <2> QED
    BY <1>10, <2>1, <2>2
<1>13. PICK r : r = Relink(a, 1, a.next[t[1]])
  OBVIOUS
<1>14. r \in Lists /\ r.allocated = {1}
  <2>1. r \in Lists /\ r.allocated = a.allocated
    BY <1>9, <1>10, <1>13, Unlinked
  <2> QED
    BY <1>10, <2>1
<1>15. PICK p : p = pop_element(a, 0)
  OBVIOUS
<1>16. p = [r EXCEPT !.allocated = @ \ {1}, !.iter_node = r.head]
  <2>1. ~(0 >= Len(Chain(a))) /\ Chain(a)[0 + 1] = 1
    BY <1>10, <1>11
  <2>2. pop_element(a, 0) = LET rest == Relink(a, 0 + 1, a.next[1])
                            IN  [rest EXCEPT !.allocated = @ \ {1}, !.iter_node = rest.head]
    BY <2>1 DEF pop_element
  <2>3. Relink(a, 0 + 1, a.next[1]) = r
    BY <1>10, <1>13
  <2> QED
    BY <1>15, <2>2, <2>3
<1>17. p.allocated = {} /\ p = [p EXCEPT !.allocated = p.allocated]
  BY <1>14, <1>16 DEF Lists
<1>18. free_list(p).allocated = p.allocated \ ToSet(Chain(p))
  BY <1>14, <1>16 DEF Lists, free_list
<1>19. Kept = {}
  BY <1>4, <1>15, <1>17, <1>18 DEF Kept
<1>20. "mount_points" # NoElement
  BY FilesAssumption, NodesAssumption
<1> QED
  BY <1>12, <1>19, <1>20 DEF e

-----------------------------------------------------------------------------
(* Files, modes and memory together. *)

\* What the latest read returned.
LastInv ==
    /\ last.offset <= last.size =>
          last.bytes = [k \in 1 .. Min({last.asked, last.size - last.offset}) |->
                           last.start + last.offset + k - 1]
    /\ ReadsInFile

\* The blocks kmalloc gave and did not get back.
MemoryInv == mount \in {"none", "root", "mounted"} /\ NoLeak

FSInv == FilesInv /\ TextInv /\ LastInv /\ MemoryInv

\* Without a read there is nothing to show.
LEMMA NothingRead == (last = NoRead => LastInv) /\ (last' = NoRead => LastInv')
<1>1. Min({0, 0 - 0}) = 0
  BY MinOfTwo
<1>2. <<>> = [k \in 1 .. 0 |-> 0 + 0 + k - 1]
  OBVIOUS
<1>3. ASSUME last = NoRead PROVE LastInv
  <2>1. /\ last.start = 0 /\ last.size = 0 /\ last.offset = 0 /\ last.asked = 0 /\ last.bytes = <<>>
    BY <1>3 DEF NoRead
  <2> QED
    BY <1>1, <1>2, <2>1 DEF LastInv, ReadsInFile
<1>4. ASSUME last' = NoRead PROVE LastInv'
  <2>1. /\ last'.start = 0 /\ last'.size = 0 /\ last'.offset = 0 /\ last'.asked = 0 /\ last'.bytes = <<>>
    BY <1>4 DEF NoRead
  <2> QED
    BY <1>1, <1>2, <2>1 DEF LastInv, ReadsInFile
<1> QED
  BY <1>3, <1>4

\* The open files can be counted.
LEMMA OpenCount == IsFiniteSet(Open) /\ Cardinality(Open) \in Nat
<1>1. Open \subseteq Handles
  BY DEF Open
<1>2. IsFiniteSet(Open)
  BY <1>1, FilesAssumption, FS_Subset
<1> QED
  BY <1>2, FS_CardinalityType

\* One file changes.
LEMMA OneFile ==
    ASSUME FilesInv, NEW h \in Handles, NEW f, FileOK(f), files' = [files EXCEPT ![h] = f]
    PROVE  /\ FilesInv'
           /\ f # Closed => Open' = Open \cup {h}
           /\ f = Closed => Open' = Open \ {h}
<1>1. files \in [Handles -> File] /\ \A g \in Handles : FileOK(files[g])
  BY DEF FilesInv
<1>2. f \in File
  BY DEF FileOK
<1>3. /\ files' \in [Handles -> File]
      /\ \A g \in Handles : files'[g] = IF g = h THEN f ELSE files[g]
  BY <1>1, <1>2
<1>4. \A g \in Handles : FileOK(files'[g])
  BY <1>1, <1>3
<1>5. Open' = {g \in Handles : files'[g] # Closed} /\ Open = {g \in Handles : files[g] # Closed}
  BY DEF Open, Closed
<1>6. FilesInv'
  BY <1>3, <1>4 DEF FilesInv, FileOK, File, Unsigned, Closed
<1> QED
  BY <1>3, <1>5, <1>6

LEMMA ClosedFile == FileOK(Closed)
<1>1. 0 \in Unsigned /\ 0 < WORD
  BY Words
<1>2. {"closed"} \in SUBSET Permission
  BY DEF Permission
<1>3. Closed \in File
  BY <1>1, <1>2 DEF Closed, File
<1> QED
  BY <1>1, <1>3 DEF FileOK, Closed

\* The file that is found in the ramdisk.
LEMMA Found ==
    ASSUME NEW path, initrd_search(path) # 0
    PROVE  initrd_search(path) \in DOMAIN Inodes
<1> DEFINE I == {i \in 1 .. Len(Inodes) : Inodes[i].name = path.name}
<1>1. initrd_search(path) = IF I # {} THEN Min(I) ELSE 0
  BY DEF initrd_search, SelectInSeq
<1>2. Inodes \in Seq([name : STRING, size : 0 .. (WORD \div 2 - 1)])
  BY FilesAssumption
<1>3. Len(Inodes) \in Nat /\ DOMAIN Inodes = 1 .. Len(Inodes)
  BY <1>2
<1>4. I \in SUBSET Nat /\ I \subseteq DOMAIN Inodes
  BY <1>3
<1> HIDE DEF I
<1>5. I # {} => Min(I) \in I
  BY <1>4, FirstIndex
<1> QED
  BY <1>1, <1>4, <1>5

\* The file an open makes.
LEMMA NewFile ==
    ASSUME NEW i \in DOMAIN Inodes, NEW k \in 1 .. 15
    PROVE  LET f == [start |-> offset_from_start(i), size |-> Inodes[i].size, offset |-> 0,
                     mode |-> modes_bits[k], past |-> FALSE]
           IN  FileOK(f) /\ f # Closed
<1>1. Inodes \in Seq([name : STRING, size : 0 .. (WORD \div 2 - 1)])
  BY FilesAssumption
<1>2. WORD \div 2 \in Int
  BY Words
<1>3. Inodes[i] \in [name : STRING, size : 0 .. (WORD \div 2 - 1)]
  <2> DEFINE S == [name : STRING, size : 0 .. (WORD \div 2 - 1)]
  <2>1. Inodes \in Seq(S)
    BY <1>1
  <2> HIDE DEF S
  <2>2. Inodes[i] \in S
    BY <2>1
  <2> QED
    BY <2>2 DEF S
<1>4. Inodes[i].size \in Nat
  BY <1>2, <1>3
<1>5. offset_from_start(i) \in Nat /\ offset_from_start(i) + Inodes[i].size < WORD
  BY ImageAssumption
<1>6. modes_bits[k] \in SUBSET Permission /\ modes_bits[k] # {"closed"}
  <2>1. /\ k \in 1 .. 2 \/ k \in 3 .. 4 \/ k \in {5, 6} \cup 13 .. 15 \/ k \in 7 .. 9
           \/ k \in 10 .. 12
    OBVIOUS
  <2> QED
    BY <2>1, Permissions DEF Permission
<1> DEFINE start == offset_from_start(i)
           size == Inodes[i].size
           mode == modes_bits[k]
           f == [start |-> start, size |-> size, offset |-> 0, mode |-> mode, past |-> FALSE]
<1> HIDE DEF start, size, mode
<1>7. start \in Nat /\ size \in Nat /\ start + size < WORD
  BY <1>4, <1>5 DEF start, size
<1>8. mode \in SUBSET Permission /\ mode # {"closed"}
  BY <1>6 DEF mode
<1>9. 0 \in Unsigned
  BY Words
<1>10. f \in File
  BY <1>7, <1>8, <1>9 DEF File
<1>11. FileOK(f) /\ f # Closed
  BY <1>7, <1>8, <1>10 DEF FileOK, Closed
<1> QED
  BY <1>11 DEF start, size, mode

\* What an open can do, at whatever request kmalloc refuses: nothing, end in a
\* write or a call through NULL, or give a new file two blocks.
LEMMA Opens ==
    ASSUME FSInv, NEW mode, file_open(mode)
    PROVE  \/ UNCHANGED <<files, blocks, crashed>>
           \/ files' = files /\ crashed' # "no"
           \/ \E h \in Handles \ Open, f \in File :
                 /\ FileOK(f) /\ f # Closed /\ files' = [files EXCEPT ![h] = f]
                 /\ blocks' = blocks + 2 /\ mount # "none" /\ crashed' = crashed
<1>1. PICK lookup : lookup = search(mode_text, mode)
  OBVIOUS
<1>2. lookup.found \in 0 .. 15
  <2>1. mode_text \in [1 .. 15 -> Strings]
    BY DEF FSInv, TextInv
  <2> QED
    BY <1>1, <2>1, Search
<1>3. CASE lookup.found = 0
  BY <1>1, <1>3 DEF file_open
<1>4. CASE lookup.found # 0
  <2>1. PICK k \in 1 .. 15 : k = lookup.found
    BY <1>2, <1>4
  <2>2. PICK path \in Paths, grants \in 0 .. 3 : open_file(path, modes_bits[k], grants)
    BY <1>1, <1>4, <2>1 DEF file_open
  <2>3. PICK inode : inode = initrd_search(path)
    OBVIOUS
  <2>4. /\ mount \in {"none", "root", "mounted"} /\ Kept = {}
        /\ mount = "none" <=> current = NoElement
    BY NothingKept DEF FSInv, MemoryInv
  <2>5. crashed = "no" /\ blocks \in Int
    <3>1. crashed = "no"
      BY DEF file_open, Running
    <3>2. blocks = (IF mount = "none" THEN 0 ELSE 1) + 2 * Cardinality(Open)
      BY <3>1 DEF FSInv, MemoryInv, NoLeak
    <3> QED
      BY <3>1, <3>2, OpenCount
  <2>6. blocks + Cardinality(Kept) = blocks /\ blocks + Cardinality(Kept) + 2 = blocks + 2
    <3>1. Cardinality(Kept) = 0
      BY <2>4, FS_EmptySet
    <3> QED
      BY <2>5, <3>1
  <2>7. CASE grants = 0
    BY <2>2, <2>7 DEF open_file
  <2>8. CASE grants # 0 /\ mount = "none"
    <3>1. ~(grants = 0) /\ grants > 0 /\ current = NoElement /\ mount # "root" /\ mount # "mounted"
      BY <2>4, <2>8
    <3>2. UNCHANGED <<files, crashed>> /\ blocks' = blocks + Cardinality(Kept)
      BY <2>2, <3>1 DEF open_file
    <3> QED
      BY <2>6, <3>2
  <2>9. CASE grants # 0 /\ mount = "root"
    <3>1. ~(grants = 0) /\ grants > 0 /\ current # NoElement /\ mount # "mounted"
      BY <2>4, <2>9
    <3>2. crashed' = "call" /\ UNCHANGED <<files, blocks>>
      BY <2>2, <2>9, <3>1 DEF open_file
    <3> QED
      BY <3>2
  <2>10. CASE grants # 0 /\ mount = "mounted"
    <3>1. ~(grants = 0) /\ grants > 0 /\ current # NoElement /\ mount # "root"
      BY <2>4, <2>10
    <3>2. CASE inode = 0 \/ grants = 1
      <4>1. UNCHANGED <<files, crashed>> /\ blocks' = blocks + Cardinality(Kept)
        BY <2>2, <2>3, <2>10, <3>1, <3>2 DEF open_file
      <4> QED
        BY <2>6, <4>1
    <3>3. CASE ~(inode = 0 \/ grants = 1) /\ grants = 2
      <4>1. crashed' = "write" /\ UNCHANGED <<files, blocks>>
        BY <2>2, <2>3, <2>10, <3>1, <3>3 DEF open_file
      <4> QED
        BY <4>1
    <3>4. CASE ~(inode = 0 \/ grants = 1) /\ grants # 2
      <4>1. PICK f : f = [start |-> offset_from_start(inode), size |-> Inodes[inode].size,
                          offset |-> 0, mode |-> modes_bits[k], past |-> FALSE]
        OBVIOUS
      <4>2. inode \in DOMAIN Inodes
        BY <2>3, <3>4, Found
      <4>3. FileOK(f) /\ f # Closed /\ f \in File
        <5>1. FileOK(f) /\ f # Closed
          BY <4>1, <4>2, NewFile
        <5> QED
          BY <5>1 DEF FileOK
      <4>4. \E h \in Handles \ Open :
              /\ files' = [files EXCEPT ![h] = f]
              /\ blocks' = blocks + Cardinality(Kept) + 2
              /\ crashed' = crashed
        BY <2>2, <2>3, <2>10, <3>1, <3>4, <4>1 DEF open_file
      <4> QED
        BY <2>6, <2>10, <4>3, <4>4
    <3> QED
      BY <3>2, <3>3, <3>4
  <2> QED
    BY <2>4, <2>7, <2>8, <2>9, <2>10
<1> QED
  BY <1>3, <1>4

\* The operations on files: each keeps the invariant.
LEMMA Opening == ASSUME FSInv, NEW mode, file_open(mode) PROVE FSInv'
<1>1. TextInv'
  <2>1. mode_text \in [1 .. 15 -> Strings] /\ \A i \in 1 .. 15 : cut(mode_text, i) = cut(possible_modes, i)
    BY DEF FSInv, TextInv
  <2>2. PICK lookup : lookup = search(mode_text, mode)
    OBVIOUS
  <2>3. mode_text' = lookup.text
    BY <2>2 DEF file_open
  <2>4. /\ lookup.text \in [1 .. 15 -> Strings]
        /\ \A i \in 1 .. 15 : cut(lookup.text, i) = cut(mode_text, i)
    BY <2>1, <2>2, Search
  <2>5. PICK text : text = mode_text'
    OBVIOUS
  <2>6. text \in [1 .. 15 -> Strings] /\ \A i \in 1 .. 15 : cut(text, i) = cut(possible_modes, i)
    BY <2>1, <2>3, <2>4, <2>5
  <2> QED
    BY <2>5, <2>6 DEF TextInv
<1>2. LastInv'
  BY NothingRead DEF file_open
<1>3. mount' = mount /\ crashed = "no" /\ mount \in {"none", "root", "mounted"}
  BY DEF file_open, Running, FSInv, MemoryInv
<1>4. blocks = (IF mount = "none" THEN 0 ELSE 1) + 2 * Cardinality(Open)
  BY <1>3 DEF FSInv, MemoryInv, NoLeak
<1>5. FilesInv
  BY DEF FSInv
<1>6. files' = files => FilesInv' /\ Open' = Open
  BY <1>5 DEF FilesInv, Open
<1>7. CASE UNCHANGED <<files, blocks, crashed>>
  BY <1>1, <1>2, <1>3, <1>4, <1>6, <1>7 DEF FSInv, MemoryInv, NoLeak
<1>8. CASE files' = files /\ crashed' # "no"
  BY <1>1, <1>2, <1>3, <1>6, <1>8 DEF FSInv, MemoryInv, NoLeak
<1>9. CASE \E h \in Handles \ Open, f \in File :
              /\ FileOK(f) /\ f # Closed /\ files' = [files EXCEPT ![h] = f]
              /\ blocks' = blocks + 2 /\ mount # "none" /\ crashed' = crashed
  <2>1. PICK h \in Handles \ Open, f \in File :
              /\ FileOK(f) /\ f # Closed /\ files' = [files EXCEPT ![h] = f]
              /\ blocks' = blocks + 2 /\ mount # "none" /\ crashed' = crashed
    BY <1>9
  <2>2. FilesInv' /\ Open' = Open \cup {h}
    BY <1>5, <2>1, OneFile
  <2>3. Cardinality(Open \cup {h}) = Cardinality(Open) + 1
    BY OpenCount, FS_AddElement
  <2>4. Cardinality(Open)' = Cardinality(Open) + 1
    BY <2>2, <2>3
  <2>5. blocks' = (IF mount' = "none" THEN 0 ELSE 1) + 2 * Cardinality(Open)'
    BY <1>3, <1>4, <2>1, <2>4, OpenCount
  <2> QED
    BY <1>1, <1>2, <1>3, <2>2, <2>5 DEF FSInv, MemoryInv, NoLeak
<1> QED
  BY <1>7, <1>8, <1>9, Opens

LEMMA Reading ==
    ASSUME FSInv, NEW h \in Handles, NEW length \in Unsigned, file_read(h, length)
    PROVE  FSInv'
<1>1. PICK f : f = files[h]
  OBVIOUS
<1>2. FilesInv /\ FileOK(f) /\ f # Closed /\ h \in Open
  BY <1>1 DEF FSInv, FilesInv, file_read, Open
<1>3. PICK b : b = initrd_read(f, clamped(f, length))
  OBVIOUS
<1>4. PICK g : g = [f EXCEPT !.offset = u32(f.offset + b)]
  OBVIOUS
<1>5. FileOK(g) /\ g # Closed
  BY <1>2, <1>3, <1>4, ReadFile
<1>6. files' = [files EXCEPT ![h] = g]
  BY <1>1, <1>3, <1>4 DEF file_read
<1>7. FilesInv' /\ Open' = Open
  BY <1>2, <1>5, <1>6, OneFile
<1>8. last' = [start |-> f.start, size |-> f.size, offset |-> f.offset, asked |-> length,
               bytes |-> [k \in 1 .. b |-> u32(f.start + f.offset + k - 1)]]
  BY <1>1, <1>3 DEF file_read
<1>9. LastInv'
  BY <1>2, <1>3, <1>8, ReadBytes DEF LastInv
<1>10. UNCHANGED <<mode_text, mount, blocks, crashed>>
  BY DEF file_read
<1>11. TextInv'
  BY <1>10 DEF FSInv, TextInv
<1>12. MemoryInv'
  BY <1>7, <1>10 DEF FSInv, MemoryInv, NoLeak
<1> QED
  BY <1>7, <1>9, <1>11, <1>12 DEF FSInv

LEMMA Closing == ASSUME FSInv, NEW h \in Handles, file_close(h) PROVE FSInv'
<1>1. /\ h \in Open /\ crashed = "no" /\ files' = [files EXCEPT ![h] = Closed] /\ blocks' = blocks - 2
      /\ last' = NoRead /\ UNCHANGED <<mode_text, mount, crashed>>
  BY DEF file_close, Running
<1>2. FilesInv' /\ Open' = Open \ {h}
  <2>1. FilesInv
    BY DEF FSInv
  <2>2. PICK f : f = Closed
    OBVIOUS
  <2>3. FileOK(f) /\ files' = [files EXCEPT ![h] = f]
    BY <1>1, <2>2, ClosedFile
  <2> QED
    BY <2>1, <2>2, <2>3, OneFile
<1>3. LastInv'
  BY <1>1, NothingRead
<1>4. TextInv'
  BY <1>1 DEF FSInv, TextInv
<1>5. Cardinality(Open)' = Cardinality(Open) - 1
  BY <1>1, <1>2, OpenCount, FS_RemoveElement
<1>6. mount \in {"none", "root", "mounted"}
      /\ blocks = (IF mount = "none" THEN 0 ELSE 1) + 2 * Cardinality(Open)
  BY <1>1 DEF FSInv, MemoryInv, NoLeak
<1>7. blocks' = (IF mount' = "none" THEN 0 ELSE 1) + 2 * Cardinality(Open)'
  BY <1>1, <1>5, <1>6, OpenCount
<1>8. MemoryInv'
  BY <1>1, <1>6, <1>7 DEF MemoryInv, NoLeak
<1> QED
  BY <1>2, <1>3, <1>4, <1>8 DEF FSInv

LEMMA Seeking ==
    ASSUME FSInv, NEW h \in Handles, NEW jmp \in Signed,
           NEW seek_type \in {"SEEK_SET", "SEEK_CUR", "SEEK_END"}, file_seek(h, jmp, seek_type)
    PROVE  FSInv'
<1>1. PICK f : f = files[h]
  OBVIOUS
<1>2. FilesInv /\ FileOK(f) /\ f # Closed /\ h \in Open
  BY <1>1 DEF FSInv, FilesInv, file_seek, Open
<1>3. PICK there : there = CASE seek_type = "SEEK_SET" -> jmp
                             [] seek_type = "SEEK_CUR" -> u32(f.offset + jmp)
                             [] seek_type = "SEEK_END" -> u32(f.offset - jmp)
  OBVIOUS
<1>4. last' = NoRead /\ UNCHANGED <<mode_text, mount, blocks, crashed>>
  BY DEF file_seek
<1>5. FilesInv' /\ Open' = Open
  <2>1. CASE seeks(f, jmp, seek_type)
    <3> DEFINE behind == (seek_type = "SEEK_END" /\ there > f.size)
    <3>1. there \in Unsigned /\ (there > f.size => behind)
      BY <1>2, <1>3, <2>1, SeekTarget
    <3>2. behind \in BOOLEAN
      OBVIOUS
    <3>3. files' = [files EXCEPT ![h].offset = there, ![h].past = behind]
      BY <1>1, <1>3, <2>1 DEF file_seek
    <3> HIDE DEF behind
    <3> DEFINE g == [f EXCEPT !.offset = there, !.past = behind]
    <3>4. FileOK(g) /\ g # Closed
      BY <1>2, <3>1, <3>2, SeekFile
    <3>5. files \in [Handles -> File]
      BY <1>2 DEF FilesInv
    <3>6. files' = [files EXCEPT ![h] = g]
      BY <1>1, <3>3, <3>5
    <3> HIDE DEF g
    <3> QED
      BY <1>2, <3>4, <3>6, OneFile
  <2>2. CASE ~seeks(f, jmp, seek_type)
    <3>1. files' = files
      BY <1>1, <2>2 DEF file_seek
    <3> QED
      BY <1>2, <3>1 DEF FilesInv, Open
  <2> QED
    BY <2>1, <2>2
<1>6. LastInv'
  BY <1>4, NothingRead
<1>7. TextInv'
  BY <1>4 DEF FSInv, TextInv
<1>8. MemoryInv'
  BY <1>4, <1>5 DEF FSInv, MemoryInv, NoLeak
<1> QED
  BY <1>5, <1>6, <1>7, <1>8 DEF FSInv

LEMMA FSInit == Init => FSInv
<1> SUFFICES ASSUME FInit PROVE FSInv
  BY DEF Init
<1>1. /\ mode_text = possible_modes /\ mount = "none" /\ files = [h \in Handles |-> Closed]
      /\ blocks = 0 /\ last = NoRead
  BY DEF FInit
<1>2. FilesInv
  BY <1>1, ClosedFile DEF FilesInv, FileOK
<1>3. TextInv
  BY <1>1, Lengths DEF TextInv
<1>4. LastInv
  BY <1>1, NothingRead
<1>5. MemoryInv
  <2>1. Open = {}
    BY <1>1 DEF Open
  <2>2. Cardinality(Open) = 0
    BY <2>1, FS_EmptySet
  <2> QED
    BY <1>1, <2>2 DEF MemoryInv, NoLeak
<1> QED
  BY <1>2, <1>3, <1>4, <1>5 DEF FSInv

LEMMA FSStep == ASSUME FSInv, [Next]_vars PROVE FSInv'
<1>1. ASSUME UNCHANGED <<mode_text, files, last>> PROVE FilesInv' /\ TextInv' /\ LastInv' /\ Open' = Open
  <2>1. mode_text' = mode_text /\ files' = files /\ last' = last
    BY <1>1
  <2> QED
    BY <2>1 DEF FSInv, FilesInv, TextInv, LastInv, ReadsInFile, Open
<1>2. ASSUME UNCHANGED fsvars PROVE FSInv'
  <2>1. UNCHANGED <<mode_text, files, last>> /\ UNCHANGED <<mount, blocks, crashed>>
    BY <1>2 DEF fsvars
  <2> QED
    BY <1>1, <2>1 DEF FSInv, MemoryInv, NoLeak
<1>3. CASE UseList
  BY <1>2, <1>3 DEF UseList
<1>4. CASE vfs_init
  <2>1. PICK granted \in BOOLEAN :
           /\ Running /\ mount = "none"
           /\ IF granted THEN mount' = "root" /\ blocks' = blocks + 1 /\ UNCHANGED crashed
              ELSE crashed' = "panic" /\ UNCHANGED <<mount, blocks>>
           /\ UNCHANGED <<lvars, mode_text, files, last>>
    BY <1>4 DEF vfs_init
  <2>2. FilesInv' /\ TextInv' /\ LastInv' /\ Open' = Open
    BY <1>1, <2>1
  <2>3. crashed = "no" /\ blocks = 2 * Cardinality(Open)
    BY <2>1, OpenCount DEF FSInv, MemoryInv, NoLeak, Running
  <2>4. CASE granted
    <3>1. blocks' = 1 + 2 * Cardinality(Open)' /\ mount' = "root"
      BY <2>1, <2>2, <2>3, <2>4, OpenCount
    <3> QED
      BY <2>2, <3>1 DEF FSInv, MemoryInv, NoLeak
  <2>5. CASE ~granted
    BY <2>1, <2>2, <2>5 DEF FSInv, MemoryInv, NoLeak
  <2> QED
    BY <2>4, <2>5
<1>5. CASE vfs_mount
  <2>1. /\ mount # "none" /\ mount' \in {mount, "mounted"}
        /\ UNCHANGED <<mode_text, files, last>> /\ UNCHANGED <<blocks, crashed>>
    BY <1>5 DEF vfs_mount
  <2>2. FilesInv' /\ TextInv' /\ LastInv' /\ Open' = Open
    BY <1>1, <2>1
  <2> QED
    BY <2>1, <2>2 DEF FSInv, MemoryInv, NoLeak
<1>6. CASE \E mode \in Modes : file_open(mode)
  BY <1>6, Opening
<1>7. CASE \E h \in Handles, length \in Unsigned : file_read(h, length)
  BY <1>7, Reading
<1>8. CASE \E h \in Handles : file_write(h)
  <2>1. /\ crashed' = "call" /\ mount' = mount /\ UNCHANGED <<mode_text, files, last>>
    BY <1>8 DEF file_write
  <2>2. FilesInv' /\ TextInv' /\ LastInv' /\ Open' = Open
    BY <1>1, <2>1
  <2> QED
    BY <2>1, <2>2 DEF FSInv, MemoryInv, NoLeak
<1>9. CASE \E h \in Handles : file_close(h)
  BY <1>9, Closing
<1>10. CASE \E h \in Handles, jmp \in Signed, seek_type \in {"SEEK_SET", "SEEK_CUR", "SEEK_END"} :
              file_seek(h, jmp, seek_type)
  BY <1>10, Seeking
<1>11. CASE UNCHANGED vars
  BY <1>2, <1>11 DEF vars
<1> QED
  BY <1>3, <1>4, <1>5, <1>6, <1>7, <1>8, <1>9, <1>10, <1>11 DEF Next

LEMMA FSAlways == Spec => []FSInv
<1>1. FSInv /\ [Next]_vars => FSInv'
  BY FSStep
<1> QED
  BY <1>1, FSInit, PTL DEF Spec

-----------------------------------------------------------------------------
(* What the runs check. *)

\* No sequence of opens spoils a mode: fopen finds each string of
\* possible_modes, with at least its permissions, however often strncmp has
\* cut the literals (file.c, string.c).
THEOREM ModesSurviveOpens == Spec => []ModesHonoured
<1>1. ASSUME FSInv PROVE ModesHonoured
  <2>1. /\ mode_text \in [1 .. 15 -> Strings]
        /\ \A i \in 1 .. 15 : cut(mode_text, i) = cut(possible_modes, i)
    BY <1>1 DEF FSInv, TextInv
  <2>2. SUFFICES ASSUME NEW i \in 1 .. 15
                 PROVE  LET found == search(mode_text, possible_modes[i]).found
                        IN  found # 0 /\ modes_bits[i] \subseteq modes_bits[found]
    BY Lengths DEF ModesHonoured
  <2>3. PICK lookup : lookup = search(mode_text, possible_modes[i])
    OBVIOUS
  <2>4. /\ lookup.found \in 0 .. 15
        /\ lookup.found # 0 => cut(mode_text, lookup.found) = Upto(possible_modes[i], 2)
        /\ lookup.found = 0 => \A f \in 1 .. 15 : cut(mode_text, f) # Upto(possible_modes[i], 2)
    BY <2>1, <2>3, Search
  <2>5. lookup.found # 0
    BY <2>1, <2>4, Honoured
  <2>6. lookup.found \in 1 .. 15
    BY <2>4, <2>5
  <2>7. modes_bits[i] \subseteq modes_bits[lookup.found]
    BY <2>1, <2>4, <2>5, <2>6, Honoured
  <2> QED
    BY <2>3, <2>5, <2>7
<1> QED
  BY <1>1, FSAlways, PTL

\* For every word size and every ramdisk: only SEEK_END takes an offset behind
\* the end, and a read from any other offset returns just what is there
\* (fread, fseek, initrd_read).
THEOREM ReadsAreExact == Spec => []ReadsExact
<1>1. ASSUME FSInv PROVE ReadsExact
  <2>1. \A h \in Open : files[h].offset > files[h].size => files[h].past
    BY <1>1 DEF FSInv, FilesInv, FileOK, Open
  <2> QED
    BY <1>1, <2>1 DEF FSInv, LastInv, ReadsExact
<1> QED
  BY <1>1, FSAlways, PTL

\* No read copies a byte of another file, unless offset and length wrap.
THEOREM ReadsStayInside == Spec => []ReadsInFile
<1>1. FSInv => ReadsInFile
  BY DEF FSInv, LastInv
<1> QED
  BY <1>1, FSAlways, PTL

\* Whatever kmalloc refuses, only the mount point and open files hold memory.
THEOREM NothingLeaks == Spec => []NoLeak
<1>1. FSInv => NoLeak
  BY DEF FSInv, MemoryInv
<1> QED
  BY <1>1, FSAlways, PTL
=============================================================================
