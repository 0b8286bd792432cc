---------------------------- MODULE InputsProofs ----------------------------
(***************************************************************************)
(* For files, documents, URLs and histories of every length: the block of    *)
(* the file of -x is closed and holds what was measured of it; the feed       *)
(* parser lists what its document says and leaves no block behind; restarts   *)
(* settle, and a kill in a save spoils one entry; the configuration is read    *)
(* within its buffers, and for what is written in it.                         *)
(***************************************************************************)
EXTENDS Inputs, DataLemmas

-----------------------------------------------------------------------------
(* file.c.                                                                 *)

\* The measure is that of the file as it was.
XmlInv == /\ Xml!TypeOK /\ Xml!ReadWhole
          /\ reader_pc \in {"measured", "read"} => fileLen = Len(measured)

\* The beginning of a file, as far as it goes.
LEMMA UptoIs ==
    ASSUME NEW S, NEW s \in Seq(S), NEW n \in Nat
    PROVE  LET got == Xml!Upto(s, n) IN
           /\ got \in Seq(S) /\ Len(got) = (IF n <= Len(s) THEN n ELSE Len(s))
           /\ \A i \in 1 .. Len(got) : got[i] = s[i]
<1> PICK m : m = (IF n <= Len(s) THEN n ELSE Len(s))
  OBVIOUS
<1>1. m \in {n, Len(s)} /\ m <= n /\ m <= Len(s) /\ m \in Nat
  OBVIOUS
<1>2. Xml!Min({n, Len(s)}) = m
  BY <1>1 DEF Xml!Min
<1>3. /\ SubSeq(s, 1, m) \in Seq(S) /\ Len(SubSeq(s, 1, m)) = m
      /\ \A i \in 1 .. m : SubSeq(s, 1, m)[i] = s[i]
  BY <1>1
<1> QED
  BY <1>2, <1>3 DEF Xml!Upto

LEMMA ContentsAreSequences == \A s \in Xml!Contents : s \in Seq(Bytes) /\ Len(s) \in 0 .. MaxLength
<1> USE XmlAssumption DEF Xml!FileAssumption
<1> SUFFICES ASSUME NEW s \in Xml!Contents PROVE s \in Seq(Bytes) /\ Len(s) \in 0 .. MaxLength
  OBVIOUS
<1>1. PICK m \in 0 .. MaxLength : s \in [1 .. m -> Bytes]
  BY Zenon DEF Xml!Contents, Xml!BoundedSeq, Xml!SeqOf
<1> QED
  BY <1>1

\* The block after fread(): what was got, bytes nobody wrote, the NUL.
LEMMA BlockIs ==
    ASSUME NEW s \in Seq(Bytes), NEW n \in Nat,
           NEW block, block = Xml!Block(Xml!Upto(s, n), n)
    PROVE  /\ block \in Seq(Bytes \cup {Unwritten}) /\ Len(block) = n + 1 /\ block[n + 1] = Zero
           /\ \A i \in 1 .. n : block[i] = IF i <= Len(s) THEN s[i] ELSE Unwritten
<1> USE XmlAssumption DEF Xml!FileAssumption
<1> PICK got : got = Xml!Upto(s, n)
  OBVIOUS
<1> PICK fill : fill = [i \in 1 .. n - Len(got) |-> Unwritten]
  OBVIOUS
<1>1. /\ got \in Seq(Bytes) /\ Len(got) = (IF n <= Len(s) THEN n ELSE Len(s))
      /\ \A i \in 1 .. Len(got) : got[i] = s[i]
  BY UptoIs
<1>2. Len(got) \in 0 .. n /\ (Len(got) < n => Len(got) = Len(s)) /\ Len(got) <= Len(s)
  BY <1>1
<1>3. got \in Seq(Bytes \cup {Unwritten})
  BY <1>1
<1>4. /\ fill \in Seq(Bytes \cup {Unwritten}) /\ Len(fill) = n - Len(got)
      /\ \A i \in 1 .. Len(fill) : fill[i] = Unwritten
  BY <1>2
<1> PICK both : both = got \o fill
  OBVIOUS
<1>5. /\ both \in Seq(Bytes \cup {Unwritten}) /\ Len(both) = n
      /\ \A i \in 1 .. Len(got) : both[i] = got[i]
      /\ \A i \in Len(got) + 1 .. n : both[i] = fill[i - Len(got)]
  BY <1>2, <1>3, <1>4
<1>6. ASSUME NEW i \in 1 .. n PROVE both[i] = IF i <= Len(s) THEN s[i] ELSE Unwritten
  <2>1. CASE i \in 1 .. Len(got)
    <3>1. both[i] = got[i] /\ got[i] = s[i]
      BY <1>1, <1>5, <2>1, Zenon
    <3>2. i <= Len(s)
      BY <1>2, <2>1
    <3> QED
      BY <3>1, <3>2
  <2>2. CASE i \notin 1 .. Len(got)
    <3>1. i \in Len(got) + 1 .. n /\ Len(got) < n /\ i - Len(got) \in 1 .. Len(fill) /\ ~(i <= Len(s))
      BY <1>2, <1>4, <2>2
    <3>2. both[i] = fill[i - Len(got)] /\ fill[i - Len(got)] = Unwritten
      BY <1>4, <1>5, <3>1
    <3> QED
      BY <3>1, <3>2
  <2> QED
    BY <2>1, <2>2
<1>7. block = Append(both, Zero) /\ Zero \in Bytes \cup {Unwritten}
  BY DEF Xml!Block
<1>8. /\ Append(both, Zero) \in Seq(Bytes \cup {Unwritten})
      /\ Len(Append(both, Zero)) = n + 1 /\ Append(both, Zero)[n + 1] = Zero
      /\ \A i \in 1 .. n : Append(both, Zero)[i] = both[i]
  <2> PICK B : B = Bytes \cup {Unwritten}
    OBVIOUS
  <2>1. both \in Seq(B) /\ Zero \in B
    BY <1>5, <1>7
  <2>2. /\ Append(both, Zero) \in Seq(B)
        /\ Len(Append(both, Zero)) = Len(both) + 1 /\ Append(both, Zero)[Len(both) + 1] = Zero
        /\ \A i \in 1 .. Len(both) : Append(both, Zero)[i] = both[i]
    BY ONLY <2>1, AppendProperties
  <2> QED
    BY <1>5, <2>2
<1> QED
  BY <1>6, <1>7, <1>8

\* The text of a block that ends with a NUL: up to its first one.
LEMMA TextIs ==
    ASSUME NEW S, NEW block \in Seq(S), NEW n \in Nat, Len(block) = n + 1, block[n + 1] = Zero
    PROVE  LET text_of == Xml!TextOf(block) IN
           /\ text_of \in Seq(S) /\ Len(text_of) <= n
           /\ \A i \in 1 .. Len(text_of) : text_of[i] = block[i] /\ block[i] # Zero
           /\ Len(text_of) < n => block[Len(text_of) + 1] = Zero
<1> DEFINE I == {i \in 1 .. Len(block) : block[i] = Zero}
<1>1. I \in SUBSET Nat /\ n + 1 \in I
  OBVIOUS
<1>2. PICK m \in I : \A i \in I : m <= i
  BY <1>1, LeastNumber
<1>3. Xml!Min(I) = m
  BY <1>1, <1>2 DEF Xml!Min
<1>4. Xml!SelectInSeq(block, LAMBDA b : b = Zero) = m
  BY <1>1, <1>3, Zenon DEF Xml!SelectInSeq
<1>5. m \in 1 .. n + 1 /\ block[m] = Zero /\ \A i \in 1 .. m - 1 : block[i] # Zero
  BY <1>2
<1>6. Xml!TextOf(block) = SubSeq(block, 1, m - 1)
  BY <1>4 DEF Xml!TextOf
<1>7. /\ SubSeq(block, 1, m - 1) \in Seq(S) /\ Len(SubSeq(block, 1, m - 1)) = m - 1
      /\ \A i \in 1 .. m - 1 : SubSeq(block, 1, m - 1)[i] = block[i]
  BY <1>5
<1> QED
  BY <1>5, <1>6, <1>7

\* One sequence begins another.
LEMMA PrefixIs ==
    ASSUME NEW S, NEW s \in Seq(S), NEW t \in Seq(S), Len(s) <= Len(t),
           \A i \in 1 .. Len(s) : s[i] = t[i]
    PROVE  Xml!IsPrefix(s, t)
<1>1. Len(SubSeq(s, 1, Len(s))) = Len(s) /\ Len(SubSeq(t, 1, Len(s))) = Len(s)
  OBVIOUS
<1>2. SubSeq(s, 1, Len(s)) \in Seq(S) /\ SubSeq(t, 1, Len(s)) \in Seq(S)
  OBVIOUS
<1>3. \A i \in 1 .. Len(s) : SubSeq(s, 1, Len(s))[i] = SubSeq(t, 1, Len(s))[i]
  OBVIOUS
<1> QED
  BY <1>1, <1>2, <1>3, SeqEqual DEF Xml!IsPrefix

LEMMA ReadStep == XmlInv /\ Xml!Read => XmlInv'
<1> SUFFICES ASSUME XmlInv, Xml!Read PROVE XmlInv'
  OBVIOUS
<1> USE XmlAssumption DEF Xml!FileAssumption
<1> PICK s : s = disk
  OBVIOUS
<1> PICK n : n = fileLen
  OBVIOUS
<1> PICK block : block = buffer'
  OBVIOUS
<1>1. /\ reader_pc' = "read" /\ disk' = s /\ fileLen' = n /\ measured' = measured
      /\ block = Xml!Block(Xml!Upto(s, n), n)
  BY DEF Xml!Read
<1>2. s \in Xml!Contents /\ s \in Seq(Bytes) /\ n \in 0 .. MaxLength /\ n \in Nat /\ Len(s) \in Nat
  BY ContentsAreSequences DEF XmlInv, Xml!TypeOK
<1>3. /\ block \in Seq(Bytes \cup {Unwritten}) /\ Len(block) = n + 1 /\ block[n + 1] = Zero
      /\ \A i \in 1 .. n : block[i] = IF i <= Len(s) THEN s[i] ELSE Unwritten
  <2>1. s \in Seq(Bytes) /\ n \in Nat /\ block = Xml!Block(Xml!Upto(s, n), n)
    BY <1>1, <1>2
  <2>2. \A b : b = Xml!Block(Xml!Upto(s, n), n) =>
            /\ b \in Seq(Bytes \cup {Unwritten}) /\ Len(b) = n + 1 /\ b[n + 1] = Zero
            /\ \A i \in 1 .. n : b[i] = IF i <= Len(s) THEN s[i] ELSE Unwritten
    BY ONLY <2>1, BlockIs
  <2> QED
    BY ONLY <2>1, <2>2
<1> PICK got : got = Xml!Upto(s, n)
  OBVIOUS
<1>4. /\ got \in Seq(Bytes \cup {Unwritten}) /\ Len(got) = (IF n <= Len(s) THEN n ELSE Len(s))
      /\ \A i \in 1 .. Len(got) : got[i] = s[i]
  <2> PICK B : B = Bytes \cup {Unwritten}
    OBVIOUS
  <2>1. s \in Seq(B)
    BY <1>2
  <2>2. LET upto == Xml!Upto(s, n) IN
        /\ upto \in Seq(B) /\ Len(upto) = (IF n <= Len(s) THEN n ELSE Len(s))
        /\ \A i \in 1 .. Len(upto) : upto[i] = s[i]
    BY ONLY <1>2, <2>1, UptoIs
  <2> QED
    BY <2>2
<1>5. Xml!IsPrefix(got, block)
  <2>1. Len(got) <= Len(block) /\ \A i \in 1 .. Len(got) : got[i] = block[i]
    BY <1>2, <1>3, <1>4
  <2> QED
    BY <1>3, <1>4, <2>1, PrefixIs
<1> PICK txt : txt = Xml!TextOf(block)
  OBVIOUS
<1>6. /\ txt \in Seq(Bytes \cup {Unwritten}) /\ Len(txt) <= n
      /\ \A i \in 1 .. Len(txt) : txt[i] = block[i] /\ block[i] # Zero
      /\ Len(txt) < n => block[Len(txt) + 1] = Zero
  BY <1>2, <1>3, TextIs
<1>7. ASSUME Unwritten \in Xml!ToSet(txt) PROVE Len(s) < n
  <2>1. PICK i \in 1 .. Len(txt) : txt[i] = Unwritten
    BY <1>6, <1>7 DEF Xml!ToSet
  <2>2. i \in 1 .. n /\ block[i] = Unwritten
    BY <1>2, <1>6, <2>1
  <2>3. ~(i <= Len(s))
    BY <1>2, <1>3, <2>2
  <2> QED
    BY <1>2, <2>2, <2>3
<1>8. ASSUME n = Len(s) PROVE Xml!IsPrefix(txt, s)
  <2>1. s \in Seq(Bytes \cup {Unwritten}) /\ Len(txt) <= Len(s)
    BY <1>2, <1>6, <1>8
  <2>2. \A i \in 1 .. Len(txt) : txt[i] = s[i]
    BY <1>2, <1>3, <1>6, <1>8
  <2> QED
    BY <1>6, <2>1, <2>2, PrefixIs
<1>9. ASSUME n = Len(s), Zero \notin Xml!ToSet(s) PROVE txt = s
  <2>1. s \in Seq(Bytes \cup {Unwritten}) /\ \A i \in 1 .. Len(s) : s[i] # Zero
    BY <1>2, <1>9 DEF Xml!ToSet
  <2>2. Len(txt) = n
    <3> SUFFICES ASSUME Len(txt) < n PROVE FALSE
      BY <1>6, <1>2
    <3>1. Len(txt) + 1 \in 1 .. n /\ block[Len(txt) + 1] = Zero
      BY <1>2, <1>6
    <3> QED
      BY <1>2, <1>3, <1>9, <2>1, <3>1
  <2>3. \A i \in 1 .. Len(txt) : txt[i] = s[i]
    BY <1>2, <1>3, <1>6, <1>9
  <2> QED
    BY <1>6, <1>9, <2>1, <2>2, <2>3, SeqEqual
<1>10. reader_pc' = "read" => buffer' = block /\ fileLen' = n /\ disk' = s
  BY <1>1
<1>11. s = measured => n = Len(s)
  BY DEF XmlInv, Xml!Read
<1>12. Xml!TypeOK'
  BY <1>1, <1>2, <1>3 DEF XmlInv, Xml!TypeOK, Xml!Contents
<1>13. (fileLen = Len(measured))'
  BY <1>1 DEF XmlInv, Xml!Read
<1>14. Xml!Last(block) = Zero
  BY <1>2, <1>3 DEF Xml!Last
<1>15. Xml!ReadWhole'
  BY <1>1, <1>3, <1>5, <1>7, <1>8, <1>9, <1>11, <1>14 DEF Xml!ReadWhole
<1> QED
  BY <1>12, <1>13, <1>15 DEF XmlInv

LEMMA XmlInit == Xml!Init \/ XmlRests => XmlInv
<1> SUFFICES ASSUME Xml!Init \/ XmlRests PROVE XmlInv
  OBVIOUS
<1>1. <<>> \in Xml!Contents
  <2>1. <<>> \in [1 .. 0 -> Bytes] /\ 0 \in 0 .. MaxLength
    BY XmlAssumption DEF Xml!FileAssumption
  <2> QED
    BY <2>1 DEF Xml!Contents, Xml!BoundedSeq, Xml!SeqOf
<1>2. /\ reader_pc = "idle" /\ disk \in Xml!Contents
      /\ fileLen = 0 /\ buffer = <<>> /\ measured = <<>>
  BY <1>1 DEF Xml!Init, XmlRests
<1>3. Xml!TypeOK
  BY <1>1, <1>2, XmlAssumption DEF Xml!FileAssumption, Xml!TypeOK
<1> QED
  BY <1>2, <1>3 DEF XmlInv, Xml!ReadWhole

LEMMA XmlStepKeeps == XmlInv /\ [Xml!Next]_xmlVars => XmlInv'
<1> SUFFICES ASSUME XmlInv, [Xml!Next]_xmlVars PROVE XmlInv'
  OBVIOUS
<1> USE DEF XmlInv, Xml!TypeOK
<1>1. CASE Xml!OpenToRead
  BY <1>1 DEF Xml!OpenToRead, Xml!ReadWhole
<1>2. CASE Xml!Measure
  <2>1. Len(disk) \in 0 .. MaxLength
    BY ContentsAreSequences
  <2> QED
    BY <1>2, <2>1 DEF Xml!Measure, Xml!ReadWhole
<1>3. CASE Xml!CannotRead \/ Xml!Processed
  <2>1. <<>> \in Xml!Contents /\ 0 \in 0 .. MaxLength
    <3>1. <<>> \in [1 .. 0 -> Bytes] /\ 0 \in 0 .. MaxLength
      BY XmlAssumption DEF Xml!FileAssumption
    <3> QED
      BY <3>1 DEF Xml!Contents, Xml!BoundedSeq, Xml!SeqOf
  <2>2. /\ reader_pc' = "idle" /\ disk' = disk
        /\ fileLen' = 0 /\ buffer' = <<>> /\ measured' = <<>>
    BY <1>3 DEF Xml!CannotRead, Xml!Processed, Xml!Returned
  <2>3. Xml!TypeOK'
    BY <2>1, <2>2
  <2> QED
    BY <2>2, <2>3 DEF Xml!ReadWhole
<1>4. CASE Xml!Read
  BY <1>4, ReadStep
<1>5. CASE Xml!Rewrite
  BY <1>5 DEF Xml!Rewrite, Xml!ReadWhole
<1>6. CASE UNCHANGED xmlVars
  <2>1. Xml!TypeOK' /\ (reader_pc \in {"measured", "read"} => fileLen = Len(measured))'
    BY <1>6 DEF xmlVars
  <2>2. Xml!ReadWhole'
    BY <1>6, Zenon DEF xmlVars, Xml!ReadWhole
  <2> QED
    BY <2>1, <2>2
<1> QED
  BY <1>1, <1>2, <1>3, <1>4, <1>5, <1>6 DEF Xml!Next

-----------------------------------------------------------------------------
(* xml_parser.c: what the fields of a node mean.                            *)

Text == FeedTexts \cup {None}
Filled == [name : Text, urls : Seq(FeedTexts)]
Listed == [name : FeedTexts, urls : Seq(FeedTexts) \ {<<>>}]

LEMMA SameFlatten == \A ss : Parser!FlattenSeq(ss) = FlattenSeq(ss)
BY DEF Parser!FlattenSeq, FlattenSeq

LEMMA SameReverse == \A s : Parser!Reverse(s) = Reverse(s)
BY DEF Parser!Reverse, Reverse

LEMMA TextOfNone == \A names : Parser!TextOf(<<>>, names) = None
BY DEF Parser!TextOf

\* The last field that has one of the names counts.
LEMMA TextOfNamed ==
    ASSUME NEW S, NEW f \in Seq(S), NEW names,
           NEW j \in 1 .. Len(f), f[j].name \in names,
           \A i \in 1 .. Len(f) : f[i].name \in names => i <= j
    PROVE  Parser!TextOf(f, names) = f[j].text
<1> DEFINE I == {i \in DOMAIN f : f[i].name \in names}
<1>1. j \in I /\ I \in SUBSET Nat /\ \A i \in I : j >= i
  OBVIOUS
<1>2. Parser!Max(I) = j
  BY <1>1 DEF Parser!Max
<1> QED
  BY <1>1, <1>2 DEF Parser!TextOf

LEMMA TextOfUnnamed ==
    ASSUME NEW S, NEW f \in Seq(S), NEW names,
           \A i \in 1 .. Len(f) : f[i].name \notin names
    PROVE  Parser!TextOf(f, names) = None
BY DEF Parser!TextOf

LEMMA LastNamed ==
    ASSUME NEW S, NEW f \in Seq(S), NEW names, NEW k \in 1 .. Len(f), f[k].name \in names
    PROVE  \E j \in 1 .. Len(f) : /\ f[j].name \in names
                                 /\ \A i \in 1 .. Len(f) : f[i].name \in names => i <= j
<1> DEFINE I == {i \in 1 .. Len(f) : f[i].name \in names}
<1>1. Len(f) \in Nat /\ I \in SUBSET (0 .. Len(f)) /\ I # {}
  OBVIOUS
<1>2. PICK j \in I : \A i \in I : j >= i
  BY <1>1, GreatestNumber
<1> QED
  BY <1>2

LEMMA TextOfTyped ==
    ASSUME NEW S, \A a \in S : a.text \in Text, NEW f \in Seq(S), NEW names
    PROVE  /\ Parser!TextOf(f, names) \in Text
           /\ Parser!TextOf(f, names) # None =>
                \E i \in 1 .. Len(f) : f[i].name \in names /\ f[i].text # None
<1>1. CASE \A i \in 1 .. Len(f) : f[i].name \notin names
  BY <1>1, TextOfUnnamed DEF Text
<1>2. CASE \E i \in 1 .. Len(f) : f[i].name \in names
  <2>1. PICK j \in 1 .. Len(f) : /\ f[j].name \in names
                                 /\ \A i \in 1 .. Len(f) : f[i].name \in names => i <= j
    BY <1>2, LastNamed
  <2>2. Parser!TextOf(f, names) = f[j].text /\ f[j] \in S
    BY <2>1, TextOfNamed
  <2> QED
    BY <2>1, <2>2
<1> QED
  BY <1>1, <1>2

LEMMA TextOfAppend ==
    ASSUME NEW S, NEW f \in Seq(S), NEW a \in S, NEW names
    PROVE  Parser!TextOf(Append(f, a), names)
             = IF a.name \in names THEN a.text ELSE Parser!TextOf(f, names)
<1> PICK g : g = Append(f, a)
  OBVIOUS
<1>1. /\ g \in Seq(S) /\ Len(g) = Len(f) + 1 /\ g[Len(f) + 1] = a /\ Len(f) \in Nat
      /\ \A i \in 1 .. Len(f) : g[i] = f[i]
  BY ONLY f \in Seq(S), a \in S, g = Append(f, a), AppendProperties
<1>2. CASE a.name \in names
  <2>1. Len(g) \in 1 .. Len(g) /\ g[Len(g)] = a /\ \A i \in 1 .. Len(g) : i <= Len(g)
    BY <1>1
  <2>2. Parser!TextOf(g, names) = g[Len(g)].text
    BY ONLY <1>1, <1>2, <2>1, TextOfNamed
  <2> QED
    BY <1>2, <2>1, <2>2
<1>3. CASE a.name \notin names
  <2>0. ASSUME NEW i \in 1 .. Len(g), g[i].name \in names PROVE i \in 1 .. Len(f) /\ f[i].name \in names
    <3>1. i # Len(f) + 1
      BY <1>1, <1>3, <2>0
    <3>2. i \in 1 .. Len(f)
      BY <1>1, <3>1
    <3> QED
      BY <1>1, <2>0, <3>2
  <2>1. CASE \A i \in 1 .. Len(f) : f[i].name \notin names
    <3>1. \A i \in 1 .. Len(g) : g[i].name \notin names
      BY <2>0, <2>1
    <3>2. Parser!TextOf(g, names) = None /\ Parser!TextOf(f, names) = None
      BY ONLY <1>1, <2>1, <3>1, f \in Seq(S), TextOfUnnamed
    <3> QED
      BY <1>3, <3>2
  <2>2. CASE \E i \in 1 .. Len(f) : f[i].name \in names
    <3>1. PICK j \in 1 .. Len(f) : /\ f[j].name \in names
                                   /\ \A i \in 1 .. Len(f) : f[i].name \in names => i <= j
      BY <2>2, LastNamed
    <3>2. Parser!TextOf(f, names) = f[j].text
      BY ONLY <3>1, f \in Seq(S), TextOfNamed
    <3>3. j \in 1 .. Len(g) /\ g[j] = f[j] /\ \A i \in 1 .. Len(g) : g[i].name \in names => i <= j
      BY <1>1, <2>0, <3>1
    <3>4. Parser!TextOf(g, names) = g[j].text
      BY ONLY <1>1, <3>1, <3>3, TextOfNamed
    <3> QED
      BY <1>3, <3>2, <3>3, <3>4
  <2> QED
    BY <2>1, <2>2
<1> QED
  BY <1>2, <1>3

LEMMA ChildTyped ==
    ASSUME NEW c \in Parser!Child
    PROVE  /\ c.text \in Text /\ c.attributes \in Seq(Parser!Attribute)
           /\ \A a \in Parser!Attribute : a.text \in Text
           /\ Parser!UrlOf(c) \in Text
<1>1. /\ c.text \in Text /\ c.attributes \in Seq(Parser!Attribute)
      /\ \A a \in Parser!Attribute : a.text \in Text
  BY DEF Parser!Child, Parser!Attribute, Text
<1>2. Parser!TextOf(c.attributes, {"url"}) \in Text
  BY ONLY <1>1, TextOfTyped
<1> QED
  BY <1>1, <1>2 DEF Parser!UrlOf, Text

UrlOrNone == [d \in Parser!Child |-> IF Parser!UrlOf(d) = None THEN <<>> ELSE <<Parser!UrlOf(d)>>]

LEMMA UrlsOfIs ==
    ASSUME NEW n \in Seq(Parser!Child)
    PROVE  /\ UrlOrNone \in [Parser!Child -> Seq(FeedTexts)]
           /\ Parser!UrlsOf(n) = FlattenSeq(Mapped(n, UrlOrNone))
           /\ Parser!UrlsOf(n) \in Seq(FeedTexts)
<1> PICK V : V = Seq(FeedTexts)
  OBVIOUS
<1>1. UrlOrNone \in [Parser!Child -> V]
  BY ChildTyped DEF Text, UrlOrNone
<1>2. Mapped(n, UrlOrNone) =
        [i \in DOMAIN n |-> IF Parser!UrlOf(n[i]) = None THEN <<>> ELSE <<Parser!UrlOf(n[i])>>]
  BY DEF Mapped, UrlOrNone
<1>3. Parser!UrlsOf(n) = FlattenSeq(Mapped(n, UrlOrNone))
  BY <1>2, SameFlatten, Zenon DEF Parser!UrlsOf
<1>4. Mapped(n, UrlOrNone) \in Seq(V)
  BY ONLY <1>1, n \in Seq(Parser!Child) DEF Mapped
<1>5. FlattenSeq(Mapped(n, UrlOrNone)) \in Seq(FeedTexts)
  BY <1>4, FlattenTyped
<1> QED
  BY <1>1, <1>3, <1>5

\* A child more.
LEMMA UrlsOfAppend ==
    ASSUME NEW node \in Seq(Parser!Child), NEW c \in Parser!Child
    PROVE  /\ Parser!UrlsOf(node) \in Seq(FeedTexts)
           /\ Parser!UrlsOf(Append(node, c)) =
                IF Parser!UrlOf(c) = None THEN Parser!UrlsOf(node)
                                          ELSE Append(Parser!UrlsOf(node), Parser!UrlOf(c))
<1> PICK F : F = UrlOrNone
  OBVIOUS
<1>1. F \in [Parser!Child -> Seq(FeedTexts)]
  BY UrlsOfIs
<1>2. ASSUME NEW n \in Seq(Parser!Child) PROVE Parser!UrlsOf(n) = FlattenSeq(Mapped(n, F))
  BY UrlsOfIs
<1>3. F[c] = IF Parser!UrlOf(c) = None THEN <<>> ELSE <<Parser!UrlOf(c)>>
  BY DEF UrlOrNone
<1>4. Append(node, c) \in Seq(Parser!Child)
  OBVIOUS
<1>5. /\ FlattenSeq(Mapped(node, F)) \in Seq(FeedTexts)
      /\ FlattenSeq(Mapped(Append(node, c), F)) = FlattenSeq(Mapped(node, F)) \o F[c]
  <2>1. Spreads(F, Parser!Child, FeedTexts)
    BY <1>1 DEF Spreads
  <2> QED
    BY ONLY node \in Seq(Parser!Child), c \in Parser!Child, <2>1, FlattenMapped
<1>6. /\ Parser!UrlsOf(node) \in Seq(FeedTexts)
      /\ Parser!UrlsOf(Append(node, c)) = Parser!UrlsOf(node) \o F[c]
  BY <1>2, <1>4, <1>5
<1> PICK s, u : s = Parser!UrlsOf(node) /\ u = Parser!UrlOf(c)
  OBVIOUS
<1>7. u \in Text /\ s \in Seq(FeedTexts)
  BY <1>6, ChildTyped
<1>8. s \o F[c] = IF u = None THEN s ELSE Append(s, u)
  BY <1>3, <1>7 DEF Text
<1> QED
  BY <1>6, <1>8

LEMMA MeaningTyped ==
    ASSUME NEW node \in Seq(Parser!Child)
    PROVE  Parser!Meaning(node) \in Filled
<1>1. \A d \in Parser!Child : d.text \in Text
  BY ChildTyped
<1>2. Parser!TextOf(node, {"title"}) \in Text
  BY ONLY <1>1, node \in Seq(Parser!Child), TextOfTyped
<1>3. Parser!UrlsOf(node) \in Seq(FeedTexts)
  BY UrlsOfIs
<1>4. Reverse(Parser!UrlsOf(node)) \in Seq(FeedTexts)
  BY <1>3, ReverseTyped
<1> QED
  BY <1>2, <1>4, SameReverse DEF Parser!Meaning, Filled

LEMMA MeaningAppend ==
    ASSUME NEW node \in Seq(Parser!Child), NEW c \in Parser!Child
    PROVE  Parser!Meaning(Append(node, c)) =
                [name |-> IF c.name = "title" THEN c.text ELSE Parser!Meaning(node).name,
                 urls |-> IF Parser!UrlOf(c) = None THEN Parser!Meaning(node).urls
                          ELSE <<Parser!UrlOf(c)>> \o Parser!Meaning(node).urls]
<1>1. \A d \in Parser!Child : d.text \in Text
  BY ChildTyped
<1>2. Parser!TextOf(node, {"title"}) \in Text
  BY ONLY <1>1, node \in Seq(Parser!Child), TextOfTyped
<1>3. Parser!TextOf(Append(node, c), {"title"})
        = IF c.name = "title" THEN c.text ELSE Parser!TextOf(node, {"title"})
  <2>1. c.name \in {"title"} <=> c.name = "title"
    OBVIOUS
  <2> QED
    BY <2>1, TextOfAppend
<1> PICK s, t, u : s = Parser!UrlsOf(node) /\ t = Parser!UrlsOf(Append(node, c)) /\ u = Parser!UrlOf(c)
  OBVIOUS
<1>4. s \in Seq(FeedTexts) /\ t = (IF u = None THEN s ELSE Append(s, u)) /\ u \in Text
  BY UrlsOfAppend, ChildTyped
<1>5. Reverse(s) \in Seq(FeedTexts)
  BY <1>4, ReverseTyped
<1>6. Reverse(t) = IF u = None THEN Reverse(s) ELSE <<u>> \o Reverse(s)
  <2>1. CASE u = None
    BY <1>4, <2>1
  <2>2. CASE u # None
    <3>1. u \in FeedTexts /\ t = Append(s, u)
      BY <1>4, <2>2 DEF Text
    <3> QED
      BY <1>4, <2>2, <3>1, ReverseAppend
  <2> QED
    BY <2>1, <2>2
<1> QED
  BY <1>2, <1>3, <1>5, <1>6, SameReverse DEF Parser!Meaning, Filled

LEMMA MeaningNone == Parser!Meaning(<<>>) = Parser!newFeedItem
<1>1. Parser!UrlsOf(<<>>) = <<>>
  BY DEF Parser!UrlsOf, Parser!FlattenSeq
<1> QED
  BY <1>1, TextOfNone DEF Parser!Meaning, Parser!newFeedItem, Parser!Reverse

\* A node more.
LEMMA ItemsOfAppend ==
    ASSUME NEW d \in Seq(Seq(Parser!Child)), NEW node \in Seq(Parser!Child)
    PROVE  /\ Reverse(Parser!ItemsOf(d)) \in Seq(Listed)
           /\ Reverse(Parser!ItemsOf(Append(d, node))) =
                IF Parser!Wanted(Parser!Meaning(node))
                THEN <<Parser!Meaning(node)>> \o Reverse(Parser!ItemsOf(d))
                ELSE Reverse(Parser!ItemsOf(d))
<1> PICK Nd : Nd = Seq(Parser!Child)
  OBVIOUS
<1> DEFINE F == [n \in Nd |-> IF Parser!Wanted(Parser!Meaning(n)) THEN <<Parser!Meaning(n)>> ELSE <<>>]
<1>0. ASSUME NEW n \in Nd, Parser!Wanted(Parser!Meaning(n)) PROVE Parser!Meaning(n) \in Listed
  <2>1. Parser!Meaning(n) \in Filled
    BY MeaningTyped
  <2> QED
    BY <1>0, <2>1 DEF Parser!Wanted, Filled, Listed, Text
<1>1. F \in [Nd -> Seq(Listed)]
  BY <1>0
<1>2. ASSUME NEW e \in Seq(Nd) PROVE Parser!ItemsOf(e) = FlattenSeq(Mapped(e, F))
  <2>1. Mapped(e, F) = [i \in DOMAIN e |-> IF Parser!Wanted(Parser!Meaning(e[i]))
                                             THEN <<Parser!Meaning(e[i])>> ELSE <<>>]
    BY DEF Mapped
  <2> HIDE DEF F
  <2> QED
    BY <2>1, SameFlatten, Zenon DEF Parser!ItemsOf
<1>3. F[node] = IF Parser!Wanted(Parser!Meaning(node)) THEN <<Parser!Meaning(node)>> ELSE <<>>
  OBVIOUS
<1> HIDE DEF F
<1>4. d \in Seq(Nd) /\ node \in Nd /\ Append(d, node) \in Seq(Nd)
  OBVIOUS
<1>5. /\ FlattenSeq(Mapped(d, F)) \in Seq(Listed)
      /\ FlattenSeq(Mapped(Append(d, node), F)) = FlattenSeq(Mapped(d, F)) \o F[node]
  <2>1. Spreads(F, Nd, Listed)
    BY <1>1 DEF Spreads
  <2> QED
    BY ONLY <1>4, <2>1, FlattenMapped
<1> PICK s, t, m : s = Parser!ItemsOf(d) /\ t = Parser!ItemsOf(Append(d, node)) /\ m = Parser!Meaning(node)
  OBVIOUS
<1>6. s \in Seq(Listed) /\ t = s \o F[node]
  BY <1>2, <1>4, <1>5
<1>7. Reverse(s) \in Seq(Listed)
  BY <1>6, ReverseTyped
<1>8. CASE Parser!Wanted(m)
  <2>1. m \in Listed /\ t = Append(s, m)
    BY <1>0, <1>3, <1>4, <1>6, <1>8
  <2>2. Reverse(t) = <<m>> \o Reverse(s)
    BY <1>6, <2>1, ReverseAppend
  <2> QED
    BY <1>7, <1>8, <2>2
<1>9. CASE ~Parser!Wanted(m)
  BY <1>3, <1>6, <1>7, <1>9
<1> QED
  BY <1>8, <1>9

-----------------------------------------------------------------------------
(* feed_item.c: the blocks of a list of items.                              *)

LEMMA BlocksTyped ==
    ASSUME NEW i \in Filled
    PROVE  Parser!ItemBlocks(i) \in Nat /\ \A t : Parser!Block(t) \in {0, 1}
BY DEF Filled, Parser!ItemBlocks, Parser!Block

\* What each item costs, the oldest one first.
Costs(list) == [n \in 1 .. Len(list) |-> 1 + Parser!ItemBlocks(list[Len(list) - n + 1])]

LEMMA ListBlocksIs ==
    ASSUME NEW list \in Seq(Filled), NEW f, Sums(f, Costs(list), Len(list))
    PROVE  Parser!ListBlocks(list) = f[Len(list)]
<1> DEFINE N == Len(list)
           owned == CHOOSE owned : owned = [n \in 0 .. N |->
                      IF n = 0 THEN 0 ELSE owned[n - 1] + 1 + Parser!ItemBlocks(list[N - n + 1])]
<1>1. N \in Nat
  OBVIOUS
<1>2. ASSUME NEW n \in 1 .. N
      PROVE  /\ f[n] = f[n - 1] + 1 + Parser!ItemBlocks(list[N - n + 1])
             /\ f[n - 1] \in Nat /\ f[n] \in Nat /\ Parser!ItemBlocks(list[N - n + 1]) \in Nat
  <2>1. N - n + 1 \in 1 .. N /\ n - 1 \in 0 .. N /\ n \in 0 .. N
    BY <1>1
  <2>2. list[N - n + 1] \in Filled
    BY <2>1
  <2>3. Parser!ItemBlocks(list[N - n + 1]) \in Nat
    BY <2>2, BlocksTyped
  <2>4. f[n - 1] \in Nat /\ f[n] \in Nat /\ f[n] = f[n - 1] + Costs(list)[n]
    BY <2>1 DEF Sums
  <2>5. Costs(list)[n] = 1 + Parser!ItemBlocks(list[N - n + 1])
    BY DEF Costs
  <2>6. \A a, b \in Nat : a + (1 + b) = a + 1 + b
    OBVIOUS
  <2> QED
    BY ONLY <2>3, <2>4, <2>5, <2>6
<1>3. f = [n \in 0 .. N |-> IF n = 0 THEN 0 ELSE f[n - 1] + 1 + Parser!ItemBlocks(list[N - n + 1])]
  <2> SUFFICES ASSUME NEW n \in 0 .. N
               PROVE  f[n] = IF n = 0 THEN 0 ELSE f[n - 1] + 1 + Parser!ItemBlocks(list[N - n + 1])
    BY DEF Sums
  <2>1. CASE n = 0
    BY <2>1 DEF Sums
  <2>2. CASE n # 0
    <3>1. n \in 1 .. N
      BY <1>1, <2>2
    <3> QED
      BY <1>2, <2>2, <3>1
  <2> QED
    BY <2>1, <2>2
<1>4. owned = [n \in 0 .. N |-> IF n = 0 THEN 0 ELSE owned[n - 1] + 1 + Parser!ItemBlocks(list[N - n + 1])]
  BY <1>3
<1>5. Parser!ListBlocks(list) = owned[N]
  BY DEF Parser!ListBlocks
<1> HIDE DEF owned, N
<1>6. owned[0] = 0 /\ f[0] = 0
  BY <1>1, <1>4 DEF Sums
<1>7. \A n \in 1 .. N : owned[n] = owned[n - 1] + 1 + Parser!ItemBlocks(list[N - n + 1])
  BY <1>1, <1>4
<1> DEFINE T == {n \in Nat : n <= N => owned[n] = f[n]}
<1>8. 0 \in T
  BY <1>6
<1>9. ASSUME NEW n \in Nat, n \in T PROVE n + 1 \in T
  <2> SUFFICES ASSUME n + 1 <= N PROVE owned[n + 1] = f[n + 1]
    OBVIOUS
  <2>1. n + 1 \in 1 .. N /\ n + 1 - 1 = n /\ n <= N
    BY <1>1
  <2>2. owned[n] = f[n]
    BY <1>9, <2>1
  <2> QED
    BY <1>2, <1>7, <2>1, <2>2
<1> HIDE DEF T
<1>10. N \in T
  BY <1>1, <1>8, <1>9, Induction
<1> QED
  BY <1>1, <1>5, <1>10 DEF T, N

LEMMA ListBlocksMore ==
    ASSUME NEW list \in Seq(Filled), NEW i \in Filled
    PROVE  /\ Parser!ListBlocks(list) \in Nat
           /\ Parser!ListBlocks(<<i>> \o list) = Parser!ListBlocks(list) + 1 + Parser!ItemBlocks(i)
<1> PICK n : n = Len(list)
  OBVIOUS
<1>1. ASSUME NEW l \in Seq(Filled)
      PROVE  /\ Costs(l) \in [1 .. Len(l) -> Nat] /\ Len(l) \in Nat
             /\ \A k \in 1 .. Len(l) : Costs(l)[k] = 1 + Parser!ItemBlocks(l[Len(l) - k + 1])
  <2> SUFFICES ASSUME NEW k \in 1 .. Len(l) PROVE 1 + Parser!ItemBlocks(l[Len(l) - k + 1]) \in Nat
    BY DEF Costs
  <2>1. Len(l) - k + 1 \in 1 .. Len(l)
    OBVIOUS
  <2>2. l[Len(l) - k + 1] \in Filled
    BY <2>1
  <2> QED
    BY <2>2, BlocksTyped
<1>2. PICK f : Sums(f, Costs(list), n)
  BY <1>1, SumExists
<1>3. Parser!ListBlocks(list) = f[n] /\ f[n] \in Nat
  <2>1. f[n] \in Nat
    BY <1>2 DEF Sums
  <2> QED
    BY <1>2, <2>1, ListBlocksIs
<1> PICK l : l = <<i>> \o list
  OBVIOUS
<1>4. /\ l \in Seq(Filled) /\ Len(l) = n + 1 /\ l[1] = i /\ \A k \in 1 .. n : l[k + 1] = list[k]
      /\ n \in Nat
  OBVIOUS
<1>5. Costs(l)[n + 1] = 1 + Parser!ItemBlocks(i) /\ Costs(l)[n + 1] \in Nat
  <2>1. n + 1 \in 1 .. Len(l) /\ Len(l) - (n + 1) + 1 = 1
    BY <1>4
  <2> QED
    BY ONLY <1>1, <1>4, <2>1
<1>6. ASSUME NEW k \in 1 .. n PROVE Costs(l)[k] = Costs(list)[k]
  <2>1. k \in 1 .. Len(l) /\ Len(l) - k + 1 = (n - k + 1) + 1 /\ n - k + 1 \in 1 .. n
    BY <1>4
  <2>2. l[Len(l) - k + 1] = list[n - k + 1]
    BY <1>4, <2>1
  <2>3. Costs(l)[k] = 1 + Parser!ItemBlocks(l[Len(l) - k + 1])
    BY <1>1, <1>4, <2>1
  <2>4. Costs(list)[k] = 1 + Parser!ItemBlocks(list[n - k + 1])
    BY <1>1
  <2> QED
    BY ONLY <2>2, <2>3, <2>4
<1>7. PICK e : Sums(e, Costs(l), n + 1) /\ e[n + 1] = f[n] + Costs(l)[n + 1]
  <2> PICK g, h : g = Costs(list) /\ h = Costs(l)
    OBVIOUS
  <2>1. Sums(f, g, n) /\ n \in Nat /\ h[n + 1] \in Nat /\ \A k \in 1 .. n : h[k] = g[k]
    BY <1>2, <1>4, <1>5, <1>6
  <2>2. \E e : Sums(e, h, n + 1) /\ e[n + 1] = f[n] + h[n + 1]
    BY ONLY <2>1, SumMore
  <2> QED
    BY <2>2
<1>8. Parser!ListBlocks(l) = e[n + 1]
  BY <1>4, <1>7, ListBlocksIs
<1>9. Parser!ItemBlocks(i) \in Nat
  BY BlocksTyped
<1>10. f[n] + (1 + Parser!ItemBlocks(i)) = f[n] + 1 + Parser!ItemBlocks(i)
  <2>1. \A a, b \in Nat : a + (1 + b) = a + 1 + b
    OBVIOUS
  <2> QED
    BY ONLY <1>3, <1>9, <2>1
<1> QED
  BY <1>3, <1>5, <1>7, <1>8, <1>10

LEMMA ListBlocksTyped == \A list \in Seq(Listed) : list \in Seq(Filled) /\ Parser!ListBlocks(list) \in Nat
<1> SUFFICES ASSUME NEW list \in Seq(Listed)
             PROVE  list \in Seq(Filled) /\ Parser!ListBlocks(list) \in Nat
  OBVIOUS
<1>1. Listed \subseteq Filled
  BY DEF Listed, Filled, Text
<1>2. list \in Seq(Filled)
  BY <1>1
<1>3. [name |-> None, urls |-> <<>>] \in Filled
  BY DEF Filled, Text
<1> QED
  BY <1>2, <1>3, ListBlocksMore

\* A url more in an item.
LEMMA ItemBlocksMore ==
    ASSUME NEW i \in Filled, NEW u \in Text
    PROVE  /\ Parser!ItemBlocks(i) \in Nat
           /\ Parser!ItemBlocks([name |-> i.name, urls |-> IF u = None THEN i.urls ELSE <<u>> \o i.urls])
                = Parser!ItemBlocks(i) + IF u = None THEN 0 ELSE 2
<1> PICK n, l : n = Parser!Block(i.name) /\ l = i.urls
  OBVIOUS
<1>1. n \in Nat /\ l \in Seq(FeedTexts) /\ Len(l) \in Nat /\ Parser!ItemBlocks(i) = 1 + n + 2 * Len(l)
  BY DEF Filled, Parser!Block, Parser!ItemBlocks
<1>2. CASE u = None
  BY <1>1, <1>2 DEF Parser!ItemBlocks
<1>3. CASE u # None
  <2>1. u \in FeedTexts
    BY <1>3 DEF Text
  <2>2. Len(<<u>> \o l) = Len(l) + 1
    BY <1>1, <2>1
  <2>3. Parser!ItemBlocks([name |-> i.name, urls |-> <<u>> \o l]) = 1 + n + 2 * (Len(l) + 1)
    BY <2>2 DEF Parser!ItemBlocks
  <2> QED
    BY <1>1, <1>3, <2>3
<1> QED
  BY <1>2, <1>3

LEMMA ListBlocksNone == Parser!ListBlocks(<<>>) = 0
<1>1. <<>> \in Seq(Filled) /\ Len(<<>>) = 0
  OBVIOUS
<1>2. Sums([n \in 0 .. 0 |-> 0], Costs(<<>>), 0)
  BY DEF Sums
<1> QED
  BY <1>1, <1>2, ListBlocksIs

-----------------------------------------------------------------------------
(* extract_feed_items(): what has been read, what is made of it, and the    *)
(* blocks it costs.                                                        *)

Filling == {"children", "attributes"}

\* Where the parser is in its document.
FeedPlace ==
    /\ parser_pc \in {"data", "items", "children", "attributes", "done", "aborted"}
    /\ ndebug \in BOOLEAN /\ name_set \in BOOLEAN
    /\ doc = None => parser_pc \in {"data", "done"} /\ todo = <<>> /\ item_count = 0
    /\ doc # None => /\ parser_pc # "data" /\ doc \in Documents /\ item_count = Len(doc)
                     /\ todo \in Seq(Seq(Parser!Child)) /\ Rest(todo, doc)
    /\ parser_pc = "done" => todo = <<>>
    /\ parser_pc \in Filling \cup {"aborted"} =>
         todo # <<>> /\ child \in Seq(Parser!Child) /\ Rest(child, Head(todo))
    /\ parser_pc \in {"data", "items", "done"} => child = <<>>
    /\ parser_pc = "attributes" =>
         /\ child # <<>> /\ Head(child).name = "enclosure"
         /\ attr \in Seq(Parser!Attribute) /\ Rest(attr, Head(child).attributes)

\* The texts an enclosure's attributes have given so far.
NodeRead == [url |-> Parser!TextOf(Done(attr, Head(child).attributes), {"url"}),
             type |-> Parser!TextOf(Done(attr, Head(child).attributes), {"content", "type"})]

\* What the parser has made of what it has read.
FeedRead ==
    /\ rss_items \in Seq(Listed)
    /\ rss_items = IF doc = None THEN <<>> ELSE Reverse(Parser!ItemsOf(Done(todo, doc)))
    /\ parser_pc \in Filling => /\ item = Parser!Meaning(Done(child, Head(todo)))
                                /\ name_set = (item.name # None)
    /\ parser_pc \in {"data", "items", "done"} => item = None
    /\ parser_pc = "aborted" => /\ item \in Filled
                                /\ enclosure \in [url : Text, type : Text] \cup {None}
    /\ parser_pc = "attributes" => enclosure = NodeRead
    /\ parser_pc \in {"data", "items", "children", "done"} => enclosure = None

Clean == \A node \in Parser!ToSet(doc) : ~Parser!SetTwice(node)

\* Nothing that is owned is freed, and nothing else is left unless a field is set twice.
Accounts(owned) == blocks >= owned /\ (doc # None /\ Clean => blocks = owned)

FeedBlocks ==
    /\ blocks \in Nat
    /\ doc = None => blocks = 0
    /\ parser_pc \in {"items", "done"} => Accounts(Parser!ListBlocks(rss_items))
    /\ parser_pc = "children" => Accounts(Parser!ListBlocks(rss_items) + Parser!ItemBlocks(item))
    /\ parser_pc = "attributes" =>
         Accounts(Parser!ListBlocks(rss_items) + Parser!ItemBlocks(item) + Parser!NodeBlocks)

FeedInv == FeedPlace /\ FeedRead /\ FeedBlocks

\* The node in hand is one of the document's.
LEMMA NodeInHand ==
    ASSUME FeedPlace, doc # None, todo # <<>>
    PROVE  /\ doc \in Seq(Seq(Parser!Child)) /\ Head(todo) \in Seq(Parser!Child)
           /\ Head(todo) \in Parser!ToSet(doc)
           /\ Tail(todo) \in Seq(Seq(Parser!Child)) /\ Rest(Tail(todo), doc)
           /\ Done(todo, doc) \in Seq(Seq(Parser!Child))
           /\ Done(Tail(todo), doc) = Append(Done(todo, doc), Head(todo))
<1> PICK d, t, Nd : d = doc /\ t = todo /\ Nd = Seq(Parser!Child)
  OBVIOUS
<1>1. d \in Seq(Nd) /\ t \in Seq(Nd) /\ Rest(t, d) /\ t # <<>>
  BY ParserAssumption DEF FeedPlace, Parser!DocumentsAssumption
<1>2. /\ Tail(t) \in Seq(Nd) /\ Rest(Tail(t), d) /\ Head(t) \in Nd
      /\ Done(t, d) \in Seq(Nd) /\ Done(Tail(t), d) = Append(Done(t, d), Head(t))
  BY ONLY <1>1, RestStep
<1>3. Head(t) = d[Len(d) - Len(t) + 1] /\ Len(d) - Len(t) + 1 \in DOMAIN d
  <2>1. Len(t) \in Nat \ {0} /\ Len(d) \in Nat /\ Head(t) = t[1] /\ DOMAIN d = 1 .. Len(d)
    BY ONLY <1>1
  <2>2. Len(t) <= Len(d) /\ t[1] = d[Len(d) - Len(t) + 1]
    BY <1>1, <2>1 DEF Rest
  <2> QED
    BY <2>1, <2>2
<1> QED
  BY <1>1, <1>2, <1>3 DEF Parser!ToSet

\* A field is set again while it has a text: what the assertion rules out.
LEMMA TwiceIf ==
    ASSUME NEW S, \A a \in S : a.text \in Text, NEW t \in Seq(S), NEW s \in Seq(S),
           Rest(s, t), s # <<>>, NEW names, Head(s).name \in names,
           Parser!TextOf(Done(s, t), names) # None
    PROVE  Parser!Twice(t, names)
<1> PICK d, n : d = Done(s, t) /\ n = Len(t) - Len(s)
  OBVIOUS
<1>1. n \in 0 .. Len(t) - 1 /\ n + 1 \in 1 .. Len(t) /\ Head(s) = t[n + 1] /\ n \in 0 .. Len(t)
  BY DEF Rest
<1>2. d \in Seq(S) /\ Len(d) = n /\ \A i \in 1 .. n : d[i] = t[i]
  <2>1. d = SubSeq(t, 1, n)
    BY DEF Done
  <2> QED
    BY ONLY t \in Seq(S), <1>1, <2>1, BeginningIs
<1>3. PICK i \in 1 .. Len(d) : d[i].name \in names /\ d[i].text # None
  BY ONLY \A a \in S : a.text \in Text, <1>2, d = Done(s, t), Parser!TextOf(Done(s, t), names) # None, TextOfTyped
<1>4. i \in DOMAIN t /\ n + 1 \in DOMAIN t /\ i < n + 1 /\ t[i] = d[i]
  BY <1>1, <1>2
<1>5. {t[i].name, t[n + 1].name} \subseteq names /\ t[i].text # None
  BY <1>1, <1>3, <1>4
<1> QED
  BY <1>4, <1>5 DEF Parser!Twice

LEMMA NodeReadTyped ==
    ASSUME FeedPlace, parser_pc = "attributes"
    PROVE  /\ NodeRead \in [url : Text, type : Text]
           /\ Head(child) \in Parser!Child /\ Head(child).attributes \in Seq(Parser!Attribute)
<1> PICK c, a : c = Head(child) /\ a = attr
  OBVIOUS
<1>1. c \in Parser!Child /\ a \in Seq(Parser!Attribute) /\ Rest(a, c.attributes)
  BY DEF FeedPlace, Filling
<1>2. c.attributes \in Seq(Parser!Attribute) /\ \A x \in Parser!Attribute : x.text \in Text
  BY ONLY <1>1, ChildTyped
<1>3. Done(a, c.attributes) \in Seq(Parser!Attribute)
  BY ONLY <1>1, <1>2, DoneTyped
<1>4. \A names : Parser!TextOf(Done(a, c.attributes), names) \in Text
  BY ONLY <1>2, <1>3, TextOfTyped
<1> QED
  BY <1>1, <1>2, <1>4 DEF NodeRead

LEMMA FeedInit == Parser!Init \/ FeedRests => FeedInv
<1> SUFFICES ASSUME Parser!Init \/ FeedRests PROVE FeedInv
  OBVIOUS
<1>1. /\ parser_pc \in {"data", "done"} /\ ndebug \in BOOLEAN /\ doc = None /\ todo = <<>>
      /\ child = <<>> /\ item = None /\ name_set = FALSE /\ enclosure = None
      /\ rss_items = <<>> /\ item_count = 0 /\ blocks = 0
  BY DEF Parser!Init, FeedRests
<1>2. Parser!ListBlocks(rss_items) = 0
  BY <1>1, ListBlocksNone
<1>3. FeedPlace
  BY <1>1 DEF FeedPlace, Filling
<1>4. FeedRead
  BY <1>1 DEF FeedRead, Filling
<1> QED
  BY <1>1, <1>2, <1>3, <1>4 DEF FeedInv, FeedBlocks, Accounts

\* The parser stops: assert() failed.
LEMMA AbortStep ==
    ASSUME FeedInv, parser_pc \in Filling, Parser!Abort
    PROVE  FeedInv'
<1>1. /\ parser_pc' = "aborted"
      /\ UNCHANGED <<ndebug, doc, todo, child, attr, item, name_set, enclosure, rss_items,
                     item_count, blocks>>
  BY DEF Parser!Abort, Parser!input, Parser!output
<1>2. doc # None /\ item \in Filled /\ enclosure \in [url : Text, type : Text] \cup {None}
  <2>1. doc # None /\ todo # <<>> /\ child \in Seq(Parser!Child) /\ Rest(child, Head(todo))
    BY DEF FeedInv, FeedPlace, Filling
  <2>2. Head(todo) \in Seq(Parser!Child)
    BY <2>1, NodeInHand DEF FeedInv
  <2>3. item \in Filled
    <3>1. Done(child, Head(todo)) \in Seq(Parser!Child)
      BY <2>1, <2>2, DoneTyped
    <3>2. Parser!Meaning(Done(child, Head(todo))) \in Filled
      BY <3>1, MeaningTyped
    <3> QED
      BY <3>2 DEF FeedInv, FeedRead
  <2>4. CASE parser_pc = "attributes"
    <3>1. NodeRead \in [url : Text, type : Text]
      BY <2>4, NodeReadTyped DEF FeedInv
    <3> QED
      BY <2>1, <2>3, <2>4, <3>1 DEF FeedInv, FeedRead
  <2>5. CASE parser_pc = "children"
    BY <2>1, <2>3, <2>5 DEF FeedInv, FeedRead
  <2> QED
    BY <2>4, <2>5 DEF Filling
<1>3. FeedPlace'
  BY <1>1, <1>2 DEF FeedInv, FeedPlace, Filling
<1>4. FeedRead'
  BY <1>1, <1>2 DEF FeedInv, FeedRead, Filling
<1>5. FeedBlocks'
  BY <1>1, <1>2 DEF FeedInv, FeedBlocks
<1> QED
  BY <1>3, <1>4, <1>5 DEF FeedInv

\* The child in hand, and what the node means once it is read.
LEMMA ChildInHand ==
    ASSUME FeedInv, parser_pc \in Filling, child # <<>>
    PROVE  /\ doc # None /\ Head(child) \in Parser!Child /\ item \in Filled
           /\ Tail(child) \in Seq(Parser!Child) /\ Rest(Tail(child), Head(todo))
           /\ Parser!Meaning(Done(Tail(child), Head(todo))) =
                [name |-> IF Head(child).name = "title" THEN Head(child).text ELSE item.name,
                 urls |-> IF Parser!UrlOf(Head(child)) = None THEN item.urls
                          ELSE <<Parser!UrlOf(Head(child))>> \o item.urls]
<1>1. doc # None /\ todo # <<>> /\ child \in Seq(Parser!Child) /\ Rest(child, Head(todo))
  BY DEF FeedInv, FeedPlace, Filling
<1>2. Head(todo) \in Seq(Parser!Child)
  BY <1>1, NodeInHand DEF FeedInv
<1> PICK n, s, d, c : n = Head(todo) /\ s = child /\ d = Done(child, Head(todo)) /\ c = Head(child)
  OBVIOUS
<1>3. /\ Tail(s) \in Seq(Parser!Child) /\ Rest(Tail(s), n) /\ c \in Parser!Child
      /\ d \in Seq(Parser!Child) /\ Done(Tail(s), n) = Append(d, c)
  BY <1>1, <1>2, RestStep
<1>4. Parser!Meaning(d) \in Filled /\ item = Parser!Meaning(d)
  BY <1>3, MeaningTyped DEF FeedInv, FeedRead
<1>5. Parser!Meaning(Append(d, c)) =
                [name |-> IF c.name = "title" THEN c.text ELSE Parser!Meaning(d).name,
                 urls |-> IF Parser!UrlOf(c) = None THEN Parser!Meaning(d).urls
                          ELSE <<Parser!UrlOf(c)>> \o Parser!Meaning(d).urls]
  BY <1>3, MeaningAppend
<1> QED
  BY <1>1, <1>3, <1>4, <1>5

\* A child has been read, and the item is what it should be.
LEMMA ChildRead ==
    ASSUME FeedInv, parser_pc \in Filling, child # <<>>, parser_pc' = "children",
           UNCHANGED <<ndebug, doc, todo, rss_items, item_count>>,
           child' = Tail(child), enclosure' = None,
           item' = [name |-> IF Head(child).name = "title" THEN Head(child).text ELSE item.name,
                    urls |-> IF Parser!UrlOf(Head(child)) = None THEN item.urls
                             ELSE <<Parser!UrlOf(Head(child))>> \o item.urls],
           name_set' = (item'.name # None)
    PROVE  FeedPlace' /\ FeedRead'
<1>1. /\ doc # None /\ Head(child) \in Parser!Child /\ item \in Filled
      /\ Tail(child) \in Seq(Parser!Child) /\ Rest(Tail(child), Head(todo))
      /\ item' = Parser!Meaning(Done(Tail(child), Head(todo)))
  BY ChildInHand
<1>2. FeedPlace'
  BY <1>1 DEF FeedInv, FeedPlace, Filling
<1>3. FeedRead'
  BY <1>1 DEF FeedInv, FeedRead, Filling
<1> QED
  BY <1>2, <1>3

LEMMA ReadTitleStep == FeedInv /\ Parser!ReadTitle => FeedInv'
<1> SUFFICES ASSUME FeedInv, Parser!ReadTitle PROVE FeedInv'
  OBVIOUS
<1> PICK c : c = Head(child)
  OBVIOUS
<1>1. parser_pc = "children" /\ child # <<>> /\ c.name = "title"
  BY DEF Parser!ReadTitle, Parser!AtChild
<1>2. CASE Parser!Refuses(item.name)
  <2>1. Parser!Abort
    BY <1>2 DEF Parser!ReadTitle
  <2> QED
    BY <1>1, <2>1, AbortStep DEF Filling
<1>3. CASE ~Parser!Refuses(item.name)
  <2>1. /\ item' = [item EXCEPT !.name = c.text] /\ name_set' = (c.text # None)
        /\ blocks' = blocks + Parser!Block(c.text) /\ child' = Tail(child)
        /\ UNCHANGED <<parser_pc, ndebug, doc, todo, attr, enclosure, rss_items, item_count>>
    BY <1>3 DEF Parser!ReadTitle, Parser!input, Parser!output
  <2>2. doc # None /\ c \in Parser!Child /\ item \in Filled /\ c.text \in Text
    BY <1>1, ChildInHand, ChildTyped DEF Filling
  <2>3. Parser!UrlOf(c) = None
    BY <1>1 DEF Parser!UrlOf
  <2>4. item' = [name |-> c.text, urls |-> item.urls]
    BY <2>1, <2>2 DEF Filled
  <2>5. enclosure = None
    BY <1>1 DEF FeedInv, FeedRead
  <2>6. FeedPlace' /\ FeedRead'
    BY <1>1, <2>1, <2>3, <2>4, <2>5, ChildRead DEF Filling
  <2>7. Clean => item.name = None
    <3> SUFFICES ASSUME item.name # None PROVE ~Clean
      OBVIOUS
    <3>1. todo # <<>> /\ child \in Seq(Parser!Child) /\ Rest(child, Head(todo))
      BY <1>1 DEF FeedInv, FeedPlace, Filling
    <3>2. Head(todo) \in Seq(Parser!Child) /\ Head(todo) \in Parser!ToSet(doc)
      BY <2>2, <3>1, NodeInHand DEF FeedInv
    <3>3. Parser!TextOf(Done(child, Head(todo)), {"title"}) # None
      BY <1>1 DEF FeedInv, FeedRead, Filling, Parser!Meaning
    <3>4. \A a \in Parser!Child : a.text \in Text
      BY ChildTyped
    <3>5. Head(child).name \in {"title"}
      BY <1>1
    <3>6. Parser!Twice(Head(todo), {"title"})
      BY ONLY <1>1, <3>1, <3>2, <3>3, <3>4, <3>5, TwiceIf
    <3> QED
      BY <3>2, <3>6 DEF Clean, Parser!SetTwice
  <2>8. FeedBlocks'
    <3> PICK l, b, e, x, y : /\ l = Parser!ListBlocks(rss_items) /\ b = blocks /\ e = 2 * Len(item.urls)
                             /\ x = Parser!Block(item.name) /\ y = Parser!Block(c.text)
      OBVIOUS
    <3>1. l \in Nat
      BY ListBlocksTyped DEF FeedInv, FeedRead
    <3>2. x \in Nat /\ y \in Nat /\ e \in Nat /\ b \in Nat
      BY <2>2 DEF Filled, Parser!Block, FeedInv, FeedBlocks
    <3>3. Parser!ItemBlocks(item) = 1 + x + e /\ Parser!ItemBlocks(item') = 1 + y + e
      BY <2>4 DEF Parser!ItemBlocks
    <3>4. Clean => x = 0
      BY <2>7 DEF Parser!Block
    <3>5. b >= l + (1 + x + e) /\ (Clean => b = l + (1 + x + e))
      BY <1>1, <2>2, <3>3 DEF FeedInv, FeedBlocks, Accounts
    <3>6. b + y >= l + (1 + y + e) /\ (Clean => b + y = l + (1 + y + e)) /\ b + y \in Nat
      BY ONLY <3>1, <3>2, <3>4, <3>5
    <3>7. Clean' = Clean /\ Parser!ListBlocks(rss_items)' = l /\ blocks' = b + y
      BY <2>1 DEF Clean
    <3> QED
      BY <1>1, <2>1, <2>2, <3>3, <3>6, <3>7 DEF FeedBlocks, Accounts
  <2> QED
    BY <2>6, <2>8 DEF FeedInv
<1> QED
  BY <1>2, <1>3

LEMMA ReadLinkStep == FeedInv /\ (Parser!ReadLink \/ Parser!SkipChild) => FeedInv'
<1> SUFFICES ASSUME FeedInv, Parser!ReadLink \/ Parser!SkipChild PROVE FeedInv'
  OBVIOUS
<1> PICK c, u : c = Head(child) /\ u = Parser!UrlOf(c)
  OBVIOUS
<1>1. /\ parser_pc = "children" /\ child # <<>> /\ child' = Tail(child)
      /\ UNCHANGED <<parser_pc, ndebug, doc, todo, attr, enclosure, name_set, rss_items, item_count>>
  BY DEF Parser!ReadLink, Parser!SkipChild, Parser!AtChild, Parser!input, Parser!output
<1>2. /\ c.name # "title"
      /\ IF u = None THEN UNCHANGED <<item, blocks>>
                     ELSE item' = [item EXCEPT !.urls = <<u>> \o @] /\ blocks' = blocks + 2
  BY DEF Parser!ReadLink, Parser!SkipChild, Parser!AtChild, Parser!UrlOf, Parser!WithUrl
<1>3. doc # None /\ c \in Parser!Child /\ item \in Filled /\ u \in Text
  BY <1>1, ChildInHand, ChildTyped DEF Filling
<1>4. item' = [name |-> item.name, urls |-> IF u = None THEN item.urls ELSE <<u>> \o item.urls]
  BY <1>2, <1>3 DEF Filled
<1>5. FeedPlace' /\ FeedRead'
  <2>1. enclosure = None /\ name_set = (item.name # None)
    BY <1>1 DEF FeedInv, FeedRead, Filling
  <2> QED
    BY <1>1, <1>2, <1>4, <2>1, ChildRead DEF Filling
<1>6. FeedBlocks'
  <2> PICK l, b, n, k : /\ l = Parser!ListBlocks(rss_items) /\ b = blocks
                        /\ n = Parser!ItemBlocks(item) /\ k = IF u = None THEN 0 ELSE 2
    OBVIOUS
  <2>1. l \in Nat /\ b \in Nat
    BY ListBlocksTyped DEF FeedInv, FeedRead, FeedBlocks
  <2>2. Parser!ItemBlocks(item') = n + k /\ n \in Nat /\ k \in Nat
    BY <1>3, <1>4, ItemBlocksMore
  <2>3. b >= l + n /\ (Clean => b = l + n)
    BY <1>1, <1>3 DEF FeedInv, FeedBlocks, Accounts
  <2>4. b + k >= l + (n + k) /\ (Clean => b + k = l + (n + k)) /\ b + k \in Nat
    BY ONLY <2>1, <2>2, <2>3
  <2>5. Clean' = Clean /\ Parser!ListBlocks(rss_items)' = l /\ blocks' = b + k
    BY <1>1, <1>2, <2>1 DEF Clean
  <2> QED
    BY <1>1, <1>3, <2>2, <2>4, <2>5 DEF FeedBlocks, Accounts
<1> QED
  BY <1>5, <1>6 DEF FeedInv

LEMMA OpenEnclosureStep == FeedInv /\ Parser!OpenEnclosure => FeedInv'
<1> SUFFICES ASSUME FeedInv, Parser!OpenEnclosure PROVE FeedInv'
  OBVIOUS
<1>1. /\ parser_pc = "children" /\ child # <<>> /\ Head(child).name = "enclosure"
      /\ parser_pc' = "attributes" /\ attr' = Head(child).attributes
      /\ enclosure' = Parser!newNode /\ blocks' = blocks + 1
      /\ UNCHANGED <<ndebug, doc, todo, child, item, name_set, rss_items, item_count>>
  BY DEF Parser!OpenEnclosure, Parser!AtChild, Parser!input, Parser!output
<1>2. doc # None /\ Head(child) \in Parser!Child /\ item \in Filled
  BY <1>1, ChildInHand DEF Filling
<1>3. Head(child).attributes \in Seq(Parser!Attribute)
  BY <1>2, ChildTyped
<1>4. /\ Rest(Head(child).attributes, Head(child).attributes)
      /\ Done(Head(child).attributes, Head(child).attributes) = <<>>
  BY <1>3, RestAll
<1>5. FeedPlace'
  BY <1>1, <1>2, <1>3, <1>4 DEF FeedInv, FeedPlace, Filling
<1>6. enclosure' = NodeRead'
  BY <1>1, <1>4, TextOfNone DEF NodeRead, Parser!newNode
<1>7. FeedRead'
  BY <1>1, <1>2, <1>6 DEF FeedInv, FeedRead, Filling
<1>8. FeedBlocks'
  <2> PICK l, b, n : l = Parser!ListBlocks(rss_items) /\ b = blocks /\ n = Parser!ItemBlocks(item)
    OBVIOUS
  <2>1. l \in Nat /\ b \in Nat /\ n \in Nat
    BY <1>2, ListBlocksTyped, BlocksTyped DEF FeedInv, FeedRead, FeedBlocks
  <2>2. b >= l + n /\ (Clean => b = l + n)
    BY <1>1, <1>2 DEF FeedInv, FeedBlocks, Accounts
  <2>3. b + 1 >= l + n + 1 /\ (Clean => b + 1 = l + n + 1) /\ b + 1 \in Nat
    BY ONLY <2>1, <2>2
  <2>4. /\ Clean' = Clean /\ Parser!ListBlocks(rss_items)' = l /\ Parser!ItemBlocks(item)' = n
        /\ blocks' = b + 1
    BY <1>1 DEF Clean
  <2>5. Parser!NodeBlocks' = 1
    BY <1>1 DEF Parser!NodeBlocks, Parser!newNode, Parser!Block
  <2> QED
    BY <1>1, <1>2, <2>3, <2>4, <2>5 DEF FeedBlocks, Accounts
<1> QED
  BY <1>5, <1>7, <1>8 DEF FeedInv

LEMMA ReadAttributeStep == FeedInv /\ Parser!ReadAttribute => FeedInv'
<1> SUFFICES ASSUME FeedInv, Parser!ReadAttribute PROVE FeedInv'
  OBVIOUS
<1> PICK c, a, t, field : /\ c = Head(child) /\ a = Head(attr) /\ t = a.text
                          /\ field = Parser!FieldOf(a.name)
  OBVIOUS
<1>1. parser_pc = "attributes" /\ attr # <<>> /\ child # <<>>
  BY DEF Parser!ReadAttribute, FeedInv, FeedPlace
<1>2. CASE \E f \in field : Parser!Refuses(enclosure[f])
  <2>1. Parser!Abort
    BY <1>2 DEF Parser!ReadAttribute
  <2> QED
    BY <1>1, <2>1, AbortStep DEF Filling
<1>3. CASE ~\E f \in field : Parser!Refuses(enclosure[f])
  <2>1. /\ enclosure' = [f \in DOMAIN enclosure |-> IF f \in field THEN t ELSE enclosure[f]]
        /\ blocks' = (IF field = {} THEN blocks ELSE blocks + Parser!Block(t))
        /\ attr' = Tail(attr)
        /\ UNCHANGED <<parser_pc, ndebug, doc, todo, child, item, name_set, rss_items, item_count>>
    BY <1>3 DEF Parser!ReadAttribute, Parser!input, Parser!output
  <2>2. /\ doc # None /\ c \in Parser!Child /\ item \in Filled
        /\ c.attributes \in Seq(Parser!Attribute) /\ \A x \in Parser!Attribute : x.text \in Text
    BY <1>1, ChildInHand, ChildTyped DEF Filling
  <2>3. attr \in Seq(Parser!Attribute) /\ Rest(attr, c.attributes)
    BY <1>1 DEF FeedInv, FeedPlace
  <2> PICK d, l, r : d = Done(attr, c.attributes) /\ l = c.attributes /\ r = attr
    OBVIOUS
  <2>4. /\ Tail(r) \in Seq(Parser!Attribute) /\ Rest(Tail(r), l) /\ a \in Parser!Attribute
        /\ d \in Seq(Parser!Attribute) /\ Done(Tail(r), l) = Append(d, a)
    BY <1>1, <2>2, <2>3, RestStep
  <2>5. /\ enclosure.url = Parser!TextOf(d, {"url"})
        /\ enclosure.type = Parser!TextOf(d, {"content", "type"})
        /\ enclosure = [url |-> enclosure.url, type |-> enclosure.type]
        /\ {enclosure.url, enclosure.type} \subseteq Text /\ t \in Text
    BY <1>1, <2>2, <2>4, NodeReadTyped DEF FeedInv, FeedRead, NodeRead
  <2> PICK u, y : u = enclosure.url /\ y = enclosure.type
    OBVIOUS
  <2>6. /\ Parser!TextOf(Append(d, a), {"url"}) = IF a.name = "url" THEN t ELSE u
        /\ Parser!TextOf(Append(d, a), {"content", "type"})
             = IF a.name \in {"content", "type"} THEN t ELSE y
    <3>1. a.name \in {"url"} <=> a.name = "url"
      OBVIOUS
    <3> QED
      BY <2>4, <2>5, <3>1, TextOfAppend
  <2>7. /\ ("url" \in field <=> a.name = "url") /\ ("type" \in field <=> a.name \in {"content", "type"})
        /\ (field = {} <=> a.name \notin {"url", "content", "type"})
    BY DEF Parser!FieldOf
  <2>8. enclosure' = [url |-> IF a.name = "url" THEN t ELSE u,
                      type |-> IF a.name \in {"content", "type"} THEN t ELSE y]
    <3>1. DOMAIN enclosure = {"url", "type"} /\ enclosure["url"] = u /\ enclosure["type"] = y
      BY <2>5
    <3> QED
      BY <2>1, <2>7, <3>1
  <2>9. FeedPlace'
    BY <1>1, <2>1, <2>2, <2>4 DEF FeedInv, FeedPlace, Filling
  <2>10. enclosure' = NodeRead'
    BY <2>1, <2>4, <2>6, <2>8 DEF NodeRead
  <2>11. FeedRead'
    BY <1>1, <2>1, <2>2, <2>10 DEF FeedInv, FeedRead, Filling
  <2>12. Clean => (a.name = "url" => u = None) /\ (a.name \in {"content", "type"} => y = None)
    <3>1. todo # <<>> /\ child \in Seq(Parser!Child) /\ Rest(child, Head(todo))
      BY <1>1 DEF FeedInv, FeedPlace, Filling
    <3>2. Head(todo) \in Seq(Parser!Child) /\ Head(todo) \in Parser!ToSet(doc)
      BY <2>2, <3>1, NodeInHand DEF FeedInv
    <3>3. c \in Parser!ToSet(Head(todo))
      <4> PICK n, s : n = Head(todo) /\ s = child
        OBVIOUS
      <4>1. Len(s) \in Nat \ {0} /\ Len(n) \in Nat /\ Head(s) = s[1] /\ DOMAIN n = 1 .. Len(n)
        BY ONLY <1>1, <3>1, <3>2, n = Head(todo), s = child
      <4>2. Len(s) <= Len(n) /\ s[1] = n[Len(n) - Len(s) + 1]
        BY <3>1, <4>1 DEF Rest
      <4> QED
        BY <4>1, <4>2 DEF Parser!ToSet
    <3>4. ASSUME NEW names, a.name \in names, Parser!TextOf(d, names) # None
          PROVE  Parser!Twice(l, names)
      <4>1. Head(r).name \in names /\ Parser!TextOf(Done(r, l), names) # None
        BY <2>3, <3>4
      <4>2. l \in Seq(Parser!Attribute) /\ r \in Seq(Parser!Attribute) /\ Rest(r, l) /\ r # <<>>
        BY <1>1, <2>2, <2>3
      <4> QED
        BY ONLY <2>2, <4>1, <4>2, TwiceIf
    <3> QED
      BY <2>5, <3>2, <3>3, <3>4 DEF Clean, Parser!SetTwice
  <2>13. FeedBlocks'
    <3> PICK m, b, n, x, z, w : /\ m = Parser!ListBlocks(rss_items) /\ b = blocks
                                /\ n = Parser!ItemBlocks(item)
                                /\ x = Parser!Block(u) /\ z = Parser!Block(y) /\ w = Parser!Block(t)
      OBVIOUS
    <3>1. m \in Nat /\ b \in Nat /\ n \in Nat
      BY <2>2, ListBlocksTyped, BlocksTyped DEF FeedInv, FeedRead, FeedBlocks
    <3>2. {x, z, w} \subseteq Nat
      BY DEF Parser!Block
    <3>3. b >= m + n + (1 + x + z) /\ (Clean => b = m + n + (1 + x + z))
      BY <1>1, <2>2 DEF FeedInv, FeedBlocks, Accounts, Parser!NodeBlocks
    <3>4. Clean => (a.name = "url" => x = 0) /\ (a.name \in {"content", "type"} => z = 0)
      BY <2>12 DEF Parser!Block
    <3>5. Parser!NodeBlocks' = 1 + (IF a.name = "url" THEN w ELSE x)
                                 + (IF a.name \in {"content", "type"} THEN w ELSE z)
      BY <2>8 DEF Parser!NodeBlocks
    <3>6. /\ Clean' = Clean /\ Parser!ListBlocks(rss_items)' = m /\ Parser!ItemBlocks(item)' = n
          /\ blocks' = b + (IF a.name \in {"url", "content", "type"} THEN w ELSE 0)
      BY <2>1, <2>7, <3>1 DEF Clean
    <3> PICK e : e = Parser!NodeBlocks'
      OBVIOUS
    <3>7. CASE a.name = "url"
      <4>1. /\ b + w >= m + n + (1 + w + z) /\ (Clean => b + w = m + n + (1 + w + z))
            /\ b + w \in Nat
        BY ONLY <3>1, <3>2, <3>3, <3>4, <3>7
      <4>2. e = 1 + w + z /\ blocks' = b + w
        BY <3>5, <3>6, <3>7
      <4> QED
        BY <1>1, <2>1, <2>2, <3>6, <4>1, <4>2 DEF FeedBlocks, Accounts
    <3>8. CASE a.name \in {"content", "type"}
      <4>1. /\ b + w >= m + n + (1 + x + w) /\ (Clean => b + w = m + n + (1 + x + w))
            /\ b + w \in Nat
        BY ONLY <3>1, <3>2, <3>3, <3>4, <3>8
      <4>2. e = 1 + x + w /\ blocks' = b + w
        BY <3>5, <3>6, <3>8
      <4> QED
        BY <1>1, <2>1, <2>2, <3>6, <4>1, <4>2 DEF FeedBlocks, Accounts
    <3>9. CASE a.name \notin {"url", "content", "type"}
      <4>1. e = 1 + x + z /\ blocks' = b
        BY <3>1, <3>5, <3>6, <3>9
      <4> QED
        BY <1>1, <2>1, <2>2, <3>1, <3>3, <3>6, <4>1 DEF FeedBlocks, Accounts
    <3> QED
      BY <3>7, <3>8, <3>9
  <2> QED
    BY <2>9, <2>11, <2>13 DEF FeedInv
<1> QED
  BY <1>2, <1>3

LEMMA CloseEnclosureStep == FeedInv /\ Parser!CloseEnclosure => FeedInv'
<1> SUFFICES ASSUME FeedInv, Parser!CloseEnclosure PROVE FeedInv'
  OBVIOUS
<1> PICK c, u : c = Head(child) /\ u = Parser!UrlOf(c)
  OBVIOUS
<1>1. /\ parser_pc = "attributes" /\ attr = <<>> /\ child # <<>> /\ c.name = "enclosure"
      /\ item' = (IF Parser!IsVideo THEN [item EXCEPT !.urls = <<enclosure.url>> \o @] ELSE item)
      /\ blocks' = blocks - Parser!NodeBlocks + (IF Parser!IsVideo THEN 2 ELSE 0)
      /\ enclosure' = None /\ child' = Tail(child) /\ parser_pc' = "children"
      /\ UNCHANGED <<ndebug, doc, todo, attr, name_set, rss_items, item_count>>
  BY DEF Parser!CloseEnclosure, FeedInv, FeedPlace, Parser!input, Parser!output, Parser!WithUrl
<1>2. /\ doc # None /\ c \in Parser!Child /\ item \in Filled /\ u \in Text
      /\ c.attributes \in Seq(Parser!Attribute)
  BY <1>1, ChildInHand, ChildTyped DEF Filling
<1>3. Done(attr, c.attributes) = c.attributes
  BY <1>1, <1>2, RestNone
<1>4. u = IF Parser!IsVideo THEN enclosure.url ELSE None
  <2>1. enclosure = [url |-> Parser!TextOf(c.attributes, {"url"}),
                     type |-> Parser!TextOf(c.attributes, {"content", "type"})]
    BY <1>1, <1>3 DEF FeedInv, FeedRead, NodeRead
  <2> QED
    BY <1>1, <2>1 DEF Parser!UrlOf, Parser!IsVideo
<1>5. Parser!IsVideo <=> u # None
  BY <1>4 DEF Parser!IsVideo
<1>6. item' = [name |-> item.name, urls |-> IF u = None THEN item.urls ELSE <<u>> \o item.urls]
  BY <1>1, <1>2, <1>4, <1>5 DEF Filled
<1>7. FeedPlace' /\ FeedRead'
  <2>1. name_set = (item.name # None) /\ c.name # "title"
    BY <1>1 DEF FeedInv, FeedRead, Filling
  <2> QED
    BY <1>1, <1>6, <2>1, ChildRead DEF Filling
<1>8. FeedBlocks'
  <2> PICK l, b, n, e, k : /\ l = Parser!ListBlocks(rss_items) /\ b = blocks
                           /\ n = Parser!ItemBlocks(item) /\ e = Parser!NodeBlocks
                           /\ k = IF u = None THEN 0 ELSE 2
    OBVIOUS
  <2>1. l \in Nat /\ b \in Nat
    BY ListBlocksTyped DEF FeedInv, FeedRead, FeedBlocks
  <2>2. Parser!ItemBlocks(item') = n + k /\ n \in Nat /\ k \in Nat
    BY <1>2, <1>6, ItemBlocksMore
  <2>3. e \in Nat
    BY DEF Parser!NodeBlocks, Parser!Block
  <2>4. b >= l + n + e /\ (Clean => b = l + n + e)
    BY <1>1, <1>2 DEF FeedInv, FeedBlocks, Accounts
  <2>5. b - e + k >= l + (n + k) /\ (Clean => b - e + k = l + (n + k)) /\ b - e + k \in Nat
    BY ONLY <2>1, <2>2, <2>3, <2>4
  <2>6. Clean' = Clean /\ Parser!ListBlocks(rss_items)' = l /\ blocks' = b - e + k
    BY <1>1, <1>5 DEF Clean
  <2> QED
    BY <1>1, <1>2, <2>2, <2>5, <2>6 DEF FeedBlocks, Accounts
<1> QED
  BY <1>7, <1>8 DEF FeedInv

LEMMA CloseItemStep == FeedInv /\ Parser!CloseItem => FeedInv'
<1> SUFFICES ASSUME FeedInv, Parser!CloseItem PROVE FeedInv'
  OBVIOUS
<1> PICK n : n = Head(todo)
  OBVIOUS
<1>1. /\ parser_pc = "children" /\ child = <<>> /\ doc # None /\ todo # <<>>
      /\ (Parser!Kept => rss_items' = <<item>> \o rss_items /\ blocks' = blocks + 1)
      /\ (~Parser!Kept => blocks' = blocks - Parser!ItemBlocks(item) /\ rss_items' = rss_items)
      /\ item' = None /\ todo' = Tail(todo) /\ parser_pc' = "items"
      /\ UNCHANGED <<ndebug, doc, child, attr, name_set, enclosure, item_count>>
  BY DEF Parser!CloseItem, FeedInv, FeedPlace, Filling, Parser!input
<1>2. /\ doc \in Seq(Seq(Parser!Child)) /\ n \in Seq(Parser!Child)
      /\ Tail(todo) \in Seq(Seq(Parser!Child)) /\ Rest(Tail(todo), doc)
      /\ Done(todo, doc) \in Seq(Seq(Parser!Child))
      /\ Done(Tail(todo), doc) = Append(Done(todo, doc), n)
  BY <1>1, NodeInHand DEF FeedInv
<1>3. Done(child, n) = n
  BY <1>1, <1>2, RestNone
<1>4. item = Parser!Meaning(n) /\ name_set = (item.name # None) /\ item \in Filled
  BY <1>1, <1>2, <1>3, MeaningTyped DEF FeedInv, FeedRead, Filling
<1>5. Parser!Kept <=> Parser!Wanted(item)
  BY <1>4 DEF Parser!Kept, Parser!Wanted
<1>6. /\ rss_items \in Seq(Listed) /\ (Parser!Wanted(item) => item \in Listed)
      /\ rss_items = Reverse(Parser!ItemsOf(Done(todo, doc)))
  BY <1>1, <1>4 DEF FeedInv, FeedRead, Parser!Wanted, Filled, Listed, Text
<1>7. FeedPlace'
  BY <1>1, <1>2 DEF FeedInv, FeedPlace, Filling
<1>8. rss_items' \in Seq(Listed) /\ rss_items' = Reverse(Parser!ItemsOf(Done(Tail(todo), doc)))
  <2>1. Reverse(Parser!ItemsOf(Append(Done(todo, doc), n))) =
          IF Parser!Wanted(Parser!Meaning(n))
          THEN <<Parser!Meaning(n)>> \o Reverse(Parser!ItemsOf(Done(todo, doc)))
          ELSE Reverse(Parser!ItemsOf(Done(todo, doc)))
    BY <1>2, ItemsOfAppend
  <2>2. CASE Parser!Kept
    <3>1. item \in Listed /\ rss_items' = <<item>> \o rss_items
      BY <1>1, <1>5, <1>6, <2>2
    <3>2. <<item>> \o rss_items \in Seq(Listed)
      BY ONLY <1>6, <3>1
    <3> QED
      BY <1>4, <1>5, <1>6, <2>1, <2>2, <3>1, <3>2, <1>2
  <2>3. CASE ~Parser!Kept
    BY <1>1, <1>2, <1>4, <1>5, <1>6, <2>1, <2>3
  <2> QED
    BY <2>2, <2>3
<1>9. FeedRead'
  BY <1>1, <1>8 DEF FeedInv, FeedRead, Filling
<1>10. FeedBlocks'
  <2> PICK l, b, k, j : /\ l = Parser!ListBlocks(rss_items) /\ b = blocks
                        /\ k = Parser!ItemBlocks(item) /\ j = Parser!ListBlocks(rss_items')
    OBVIOUS
  <2>1. l \in Nat /\ b \in Nat /\ k \in Nat /\ rss_items \in Seq(Filled)
    BY <1>4, <1>6, ListBlocksTyped, BlocksTyped DEF FeedInv, FeedBlocks
  <2>2. b >= l + k /\ (Clean => b = l + k)
    BY <1>1 DEF FeedInv, FeedBlocks, Accounts
  <2>3. Clean' = Clean
    BY <1>1 DEF Clean
  <2>4. CASE Parser!Kept
    <3>1. j = l + 1 + k /\ blocks' = b + 1
      BY <1>1, <1>4, <2>1, <2>4, ListBlocksMore
    <3>2. b + 1 >= l + 1 + k /\ (Clean => b + 1 = l + 1 + k) /\ b + 1 \in Nat
      BY ONLY <2>1, <2>2
    <3> QED
      BY <1>1, <2>3, <3>1, <3>2 DEF FeedBlocks, Accounts
  <2>5. CASE ~Parser!Kept
    <3>1. j = l /\ blocks' = b - k
      BY <1>1, <2>5
    <3>2. b - k >= l /\ (Clean => b - k = l) /\ b - k \in Nat
      BY ONLY <2>1, <2>2
    <3> QED
      BY <1>1, <2>3, <3>1, <3>2 DEF FeedBlocks, Accounts
  <2> QED
    BY <2>4, <2>5
<1> QED
  BY <1>7, <1>9, <1>10 DEF FeedInv

LEMMA OpenItemStep == FeedInv /\ Parser!OpenItem => FeedInv'
<1> SUFFICES ASSUME FeedInv, Parser!OpenItem PROVE FeedInv'
  OBVIOUS
<1>1. /\ parser_pc = "items" /\ todo # <<>> /\ doc # None /\ parser_pc' = "children"
      /\ child' = Head(todo) /\ item' = Parser!newFeedItem /\ name_set' = FALSE
      /\ blocks' = blocks + 1
      /\ UNCHANGED <<ndebug, doc, todo, attr, enclosure, rss_items, item_count>>
  BY DEF Parser!OpenItem, FeedInv, FeedPlace, Parser!input, Parser!output
<1>2. Head(todo) \in Seq(Parser!Child)
  BY <1>1, NodeInHand DEF FeedInv
<1>3. Rest(Head(todo), Head(todo)) /\ Done(Head(todo), Head(todo)) = <<>>
  BY <1>2, RestAll
<1>4. FeedPlace'
  BY <1>1, <1>2, <1>3 DEF FeedInv, FeedPlace, Filling
<1>5. FeedRead'
  BY <1>1, <1>3, MeaningNone DEF FeedInv, FeedRead, Filling, Parser!newFeedItem
<1>6. FeedBlocks'
  <2> PICK l, b : l = Parser!ListBlocks(rss_items) /\ b = blocks
    OBVIOUS
  <2>1. l \in Nat /\ b \in Nat /\ b >= l /\ (Clean => b = l)
    BY <1>1, ListBlocksTyped DEF FeedInv, FeedRead, FeedBlocks, Accounts
  <2>2. Parser!ItemBlocks(item') = 1
    BY <1>1 DEF Parser!ItemBlocks, Parser!newFeedItem, Parser!Block
  <2>3. Clean' = Clean /\ Parser!ListBlocks(rss_items)' = l /\ blocks' = b + 1
    BY <1>1 DEF Clean
  <2> QED
    BY <1>1, <2>1, <2>2, <2>3 DEF FeedBlocks, Accounts
<1> QED
  BY <1>4, <1>5, <1>6 DEF FeedInv

LEMMA SkipEmptyNodeStep == FeedInv /\ Parser!SkipEmptyNode => FeedInv'
<1> SUFFICES ASSUME FeedInv, Parser!SkipEmptyNode PROVE FeedInv'
  OBVIOUS
<1>1. /\ parser_pc = "items" /\ todo # <<>> /\ doc # None /\ Head(todo) = <<>>
      /\ todo' = Tail(todo)
      /\ UNCHANGED <<parser_pc, ndebug, doc, child, attr, item, name_set, enclosure, rss_items,
                     item_count, blocks>>
  BY DEF Parser!SkipEmptyNode, FeedInv, FeedPlace, Parser!input, Parser!output
<1>2. /\ Head(todo) \in Seq(Parser!Child)
      /\ Tail(todo) \in Seq(Seq(Parser!Child)) /\ Rest(Tail(todo), doc)
      /\ Done(todo, doc) \in Seq(Seq(Parser!Child))
      /\ Done(Tail(todo), doc) = Append(Done(todo, doc), Head(todo))
  BY <1>1, NodeInHand DEF FeedInv
<1>3. ~Parser!Wanted(Parser!Meaning(Head(todo)))
  BY <1>1, MeaningNone DEF Parser!Wanted, Parser!newFeedItem
<1>4. Reverse(Parser!ItemsOf(Done(Tail(todo), doc))) = Reverse(Parser!ItemsOf(Done(todo, doc)))
  BY <1>2, <1>3, ItemsOfAppend
<1>5. FeedPlace'
  BY <1>1, <1>2 DEF FeedInv, FeedPlace, Filling
<1>6. FeedRead'
  BY <1>1, <1>4 DEF FeedInv, FeedRead, Filling
<1>7. Clean' = Clean /\ Parser!ListBlocks(rss_items)' = Parser!ListBlocks(rss_items)
  BY <1>1 DEF Clean
<1>8. FeedBlocks'
  BY <1>1, <1>7 DEF FeedInv, FeedBlocks, Accounts
<1> QED
  BY <1>5, <1>6, <1>8 DEF FeedInv

\* parse_xmldata() before and after the items, and the steps of others.
LEMMA ParsedStep ==
    FeedInv /\ (Parser!Unparsable \/ Parser!Parsed \/ Parser!Extracted \/ UNCHANGED feedVars) => FeedInv'
<1> SUFFICES ASSUME FeedInv,
                    Parser!Unparsable \/ Parser!Parsed \/ Parser!Extracted \/ UNCHANGED feedVars
             PROVE  FeedInv'
  OBVIOUS
<1>1. CASE Parser!Parsed
  <2>1. /\ parser_pc = "data" /\ doc = None /\ parser_pc' = "items" /\ doc' \in Documents /\ todo' = doc'
        /\ item_count' = Len(doc') /\ rss_items = <<>> /\ blocks = 0
        /\ UNCHANGED <<ndebug, child, attr, item, name_set, enclosure, rss_items, blocks>>
    BY <1>1 DEF Parser!Parsed, FeedInv, FeedPlace, FeedRead, FeedBlocks
  <2>2. doc' \in Seq(Seq(Parser!Child)) /\ doc' # None
    BY <2>1, ParserAssumption DEF Parser!DocumentsAssumption
  <2>3. Rest(doc', doc') /\ Done(doc', doc') = <<>>
    BY <2>2, RestAll
  <2>4. Reverse(Parser!ItemsOf(<<>>)) = <<>>
    BY DEF Parser!ItemsOf, Parser!FlattenSeq, Reverse
  <2>5. FeedPlace'
    BY <2>1, <2>2, <2>3 DEF FeedInv, FeedPlace, Filling
  <2>6. FeedRead'
    BY <2>1, <2>2, <2>3, <2>4 DEF FeedInv, FeedRead, Filling
  <2>7. Parser!ListBlocks(rss_items)' = 0
    BY <2>1, ListBlocksNone
  <2>8. FeedBlocks'
    BY <2>1, <2>2, <2>7 DEF FeedInv, FeedBlocks, Accounts
  <2> QED
    BY <2>5, <2>6, <2>8 DEF FeedInv
<1>2. CASE Parser!Unparsable \/ Parser!Extracted
  <2>1. /\ parser_pc \in {"data", "items"} /\ parser_pc' = "done" /\ todo = <<>>
        /\ UNCHANGED <<ndebug, doc, todo, child, attr, item, name_set, enclosure, rss_items,
                       item_count, blocks>>
    BY <1>2 DEF Parser!Unparsable, Parser!Extracted, Parser!input, Parser!output, FeedInv, FeedPlace
  <2>2. FeedPlace'
    BY <2>1 DEF FeedInv, FeedPlace, Filling
  <2>3. FeedRead'
    BY <2>1 DEF FeedInv, FeedRead, Filling
  <2>4. Clean' = Clean /\ Parser!ListBlocks(rss_items)' = Parser!ListBlocks(rss_items)
    BY <2>1 DEF Clean
  <2>5. parser_pc = "data" => doc = None /\ rss_items = <<>>
    BY DEF FeedInv, FeedPlace, FeedRead
  <2>6. FeedBlocks'
    BY <2>1, <2>4, <2>5, ListBlocksNone DEF FeedInv, FeedBlocks, Accounts
  <2> QED
    BY <2>2, <2>3, <2>6 DEF FeedInv
<1>3. CASE UNCHANGED feedVars
  <2>1. UNCHANGED <<parser_pc, ndebug, doc, todo, child, attr, item, name_set, enclosure, rss_items,
                    item_count, blocks>>
    BY <1>3 DEF feedVars
  <2>2. FeedPlace'
    BY <2>1 DEF FeedInv, FeedPlace
  <2>3. FeedRead'
    BY <2>1 DEF FeedInv, FeedRead, NodeRead
  <2>4. /\ Clean' = Clean /\ Parser!ListBlocks(rss_items)' = Parser!ListBlocks(rss_items)
        /\ Parser!ItemBlocks(item)' = Parser!ItemBlocks(item) /\ Parser!NodeBlocks' = Parser!NodeBlocks
    BY <2>1 DEF Clean, Parser!NodeBlocks
  <2>5. FeedBlocks'
    BY <2>1, <2>4 DEF FeedInv, FeedBlocks, Accounts
  <2> QED
    BY <2>2, <2>3, <2>5 DEF FeedInv
<1> QED
  BY <1>1, <1>2, <1>3

LEMMA FeedStepKeeps == FeedInv /\ [Parser!Next]_feedVars => FeedInv'
BY ParsedStep, SkipEmptyNodeStep, OpenItemStep, CloseItemStep, ReadTitleStep, ReadLinkStep,
   OpenEnclosureStep, ReadAttributeStep, CloseEnclosureStep DEF Parser!Next

\* The rest of a sequence is its end.
LEMMA RestEnds ==
    ASSUME NEW S, NEW s \in Seq(S), NEW t \in Seq(S), Rest(s, t)
    PROVE  Parser!IsSuffix(s, t)
<1> PICK a, b : a = Reverse(s) /\ b = Reverse(t)
  OBVIOUS
<1>1. /\ a \in Seq(S) /\ Len(a) = Len(s) /\ \A i \in 1 .. Len(s) : a[i] = s[Len(s) - i + 1]
      /\ b \in Seq(S) /\ Len(b) = Len(t) /\ \A i \in 1 .. Len(t) : b[i] = t[Len(t) - i + 1]
  BY ReverseTyped
<1>2. Len(a) \in Nat /\ Len(b) \in Nat /\ Len(a) <= Len(b)
  BY <1>1 DEF Rest
<1>3. \A i \in 1 .. Len(a) : a[i] = b[i]
  <2> SUFFICES ASSUME NEW i \in 1 .. Len(a) PROVE a[i] = b[i]
    OBVIOUS
  <2>1. Len(s) - i + 1 \in 1 .. Len(s) /\ i \in 1 .. Len(t)
        /\ Len(t) - Len(s) + (Len(s) - i + 1) = Len(t) - i + 1
    BY <1>1, <1>2
  <2>2. s[Len(s) - i + 1] = t[Len(t) - i + 1]
    BY <2>1 DEF Rest
  <2> QED
    BY <1>1, <2>1, <2>2
<1>4. SubSeq(a, 1, Len(a)) = SubSeq(b, 1, Len(a))
  BY <1>1, <1>2, <1>3
<1>5. Parser!IsPrefix(a, b)
  BY <1>1, <1>2, <1>3, <1>4 DEF Parser!IsPrefix
<1> QED
  BY <1>5, SameReverse DEF Parser!IsSuffix

LEMMA FeedTyped == FeedInv => Parser!TypeOK
<1> SUFFICES ASSUME FeedInv PROVE Parser!TypeOK
  OBVIOUS
<1>1. /\ parser_pc \in {"data", "items", "children", "attributes", "done", "aborted"}
      /\ ndebug \in BOOLEAN /\ name_set \in BOOLEAN
  BY Zenon DEF FeedInv, FeedPlace
<1>2. doc # None => item_count = Len(doc) /\ Parser!IsSuffix(todo, doc)
  <2> SUFFICES ASSUME doc # None PROVE item_count = Len(doc) /\ Parser!IsSuffix(todo, doc)
    OBVIOUS
  <2>1. doc \in Seq(Seq(Parser!Child)) /\ todo \in Seq(Seq(Parser!Child)) /\ Rest(todo, doc)
        /\ item_count = Len(doc)
    BY ParserAssumption DEF FeedInv, FeedPlace, Parser!DocumentsAssumption
  <2> QED
    BY <2>1, RestEnds
<1>3. todo # <<>> => Parser!IsSuffix(child, Head(todo))
  <2> SUFFICES ASSUME todo # <<>> PROVE Parser!IsSuffix(child, Head(todo))
    OBVIOUS
  <2>1. doc # None
    BY DEF FeedInv, FeedPlace
  <2>2. Head(todo) \in Seq(Parser!Child)
    BY <2>1, NodeInHand DEF FeedInv
  <2>3. child \in Seq(Parser!Child) /\ Rest(child, Head(todo))
    <3>1. CASE parser_pc \in Filling \cup {"aborted"}
      BY <3>1 DEF FeedInv, FeedPlace
    <3>2. CASE parser_pc \notin Filling \cup {"aborted"}
      <4>1. child = <<>>
        BY <3>2 DEF FeedInv, FeedPlace, Filling
      <4> QED
        BY <2>2, <4>1, RestNone
    <3> QED
      BY <3>1, <3>2
  <2> QED
    BY <2>2, <2>3, RestEnds
<1>4. item # None => item.name \in FeedTexts \cup {None} /\ item.urls \in Seq(FeedTexts)
  <2> SUFFICES ASSUME item # None PROVE item \in Filled
    BY DEF Filled, Text
  <2>1. CASE parser_pc \in Filling
    <3>1. doc # None /\ todo # <<>> /\ child \in Seq(Parser!Child) /\ Rest(child, Head(todo))
      BY <2>1 DEF FeedInv, FeedPlace, Filling
    <3>2. Head(todo) \in Seq(Parser!Child)
      BY <3>1, NodeInHand DEF FeedInv
    <3>3. Done(child, Head(todo)) \in Seq(Parser!Child)
      BY <3>1, <3>2, DoneTyped
    <3> QED
      BY <2>1, <3>3, MeaningTyped DEF FeedInv, FeedRead
  <2>2. CASE parser_pc = "aborted"
    BY <2>2 DEF FeedInv, FeedRead
  <2> QED
    BY <1>1, <2>1, <2>2 DEF FeedInv, FeedRead, Filling
<1>5. enclosure # None => {enclosure.url, enclosure.type} \subseteq FeedTexts \cup {None}
  <2> SUFFICES ASSUME enclosure # None PROVE enclosure \in [url : Text, type : Text]
    BY DEF Text
  <2>1. CASE parser_pc = "attributes"
    BY <2>1, NodeReadTyped DEF FeedInv, FeedRead
  <2>2. CASE parser_pc = "aborted"
    BY <2>2 DEF FeedInv, FeedRead
  <2> QED
    BY <1>1, <2>1, <2>2 DEF FeedInv, FeedRead
<1>6. \A i \in DOMAIN rss_items : /\ rss_items[i].name \in FeedTexts
                                  /\ rss_items[i].urls \in Seq(FeedTexts) \ {<<>>}
  <2>1. rss_items \in Seq(Listed)
    BY DEF FeedInv, FeedRead
  <2>2. \A i \in DOMAIN rss_items : rss_items[i] \in Listed
    BY <2>1
  <2> QED
    BY ONLY <2>2 DEF Listed
<1>7. item_count \in Nat /\ blocks \in Nat
  <2>1. CASE doc = None
    BY <2>1 DEF FeedInv, FeedPlace, FeedBlocks
  <2>2. CASE doc # None
    BY <2>2, ParserAssumption DEF FeedInv, FeedPlace, FeedBlocks, Parser!DocumentsAssumption
  <2> QED
    BY <2>1, <2>2
<1> QED
  BY <1>1, <1>2, <1>3, <1>4, <1>5, <1>6, <1>7 DEF Parser!TypeOK

-----------------------------------------------------------------------------
(* state.c.                                                                *)

\* What lines and entries are: stretches of a URL.
Entry == {t \in History!Text : t.from + t.len <= Length[t.url]}
EntryLine == [text : Entry, newline : BOOLEAN]

\* The entries the code can read back whole.
Entire == {t \in Entry : History!Fits(t)}

\* save_state() and load_state(), line by line.
PrintOf == [t \in Entry |-> <<History!Line(t, TRUE)>>]
KeptOf == [l \in EntryLine |-> History!Kept(l)]
BackOf == [t \in Entry |-> History!Kept(History!Line(t, TRUE))]

FittingOf == [t \in Entry |-> IF History!FitsWhole(t) THEN <<t>> ELSE <<>>]
SpoiltOf == [t \in Entry |-> IF History!Spoilt(t) THEN <<t>> ELSE <<>>]

\* A line that comes back spoilt although its URL fits.
Torn(l) == LET whole == History!Whole(l.text.url)
           IN  History!Fits(whole) /\ (l.text # whole \/ ~l.newline)
TornOf == [l \in EntryLine |-> IF Torn(l) THEN <<l.text>> ELSE <<>>]

HistoryInv ==
    /\ kills \in Nat
    /\ downloads \in Seq(Entry) /\ statefile \in Seq(EntryLine)
    /\ Len(Spread(downloads, SpoiltOf)) <= kills
    /\ Len(Spread(statefile, TornOf)) <= kills

LEMMA HistorySame == /\ \A ss : History!FlattenSeq(ss) = FlattenSeq(ss)
                     /\ \A S : History!Cardinality(S) = Cardinality(S)
BY DEF History!FlattenSeq, FlattenSeq, History!Cardinality, Cardinality

\* The room of fgets().
LEMMA RoomIs == /\ History!Room \in Nat /\ History!Room >= 2 /\ MAX_LINE_LEN = History!Room + 1
                /\ Threshold \in Nat /\ Length \in [Urls -> 1 .. History!Room]
BY HistoryAssumption DEF History!StateFileAssumption, History!Room

LEMMA LineTyped ==
    ASSUME NEW l \in EntryLine
    PROVE  /\ l.text \in Entry /\ l.newline \in BOOLEAN
           /\ l.text = [url |-> l.text.url, from |-> l.text.from, len |-> l.text.len]
           /\ l.text.url \in Urls /\ l.text.from \in Nat /\ l.text.len \in Nat
           /\ l.text.from + l.text.len <= Length[l.text.url]
           /\ Length[l.text.url] \in 1 .. History!Room
           /\ History!Size(l) = l.text.len + (IF l.newline THEN 1 ELSE 0)
           /\ History!Size(l) \in Nat /\ History!Pieces(l) \in Nat
<1>1. l.text \in Entry /\ l.newline \in BOOLEAN
  BY DEF EntryLine
<1>2. /\ l.text = [url |-> l.text.url, from |-> l.text.from, len |-> l.text.len]
      /\ l.text.url \in Urls /\ l.text.from \in Nat /\ l.text.len \in Nat
      /\ l.text.from + l.text.len <= Length[l.text.url]
  BY <1>1 DEF Entry, History!Text
<1>3. Length[l.text.url] \in 1 .. History!Room
  BY <1>2, RoomIs
<1>4. History!Size(l) = l.text.len + (IF l.newline THEN 1 ELSE 0) /\ History!Size(l) \in Nat
  BY <1>1, <1>2 DEF History!Size
<1>5. History!Pieces(l) \in Nat
  BY <1>4, RoomIs DEF History!Pieces
<1> QED
  BY <1>1, <1>2, <1>3, <1>4, <1>5

LEMMA PieceIs ==
    ASSUME NEW l \in EntryLine, NEW k \in Nat, k >= 1
    PROVE  LET m == (k - 1) * History!Room IN
           /\ m \in Nat
           /\ History!PieceSize(l, k) = (IF History!Room <= History!Size(l) - m
                                         THEN History!Room ELSE History!Size(l) - m)
           /\ History!PieceSize(l, k) \in Int
           /\ History!PieceSize(l, k) <= History!Room
           /\ m + History!PieceSize(l, k) <= History!Size(l)
           /\ History!Stripped(l, k) =
                [url |-> l.text.url, from |-> l.text.from + m, len |-> History!PieceSize(l, k) - 1]
<1> PICK R, S, m, p : /\ R = History!Room /\ S = History!Size(l) /\ m = (k - 1) * R
                      /\ p = (IF R <= S - m THEN R ELSE S - m)
  OBVIOUS
<1>1. R \in Nat /\ S \in Nat
  BY RoomIs, LineTyped
<1>2. k - 1 \in Nat
  OBVIOUS
<1>3. m \in Nat
  BY ONLY <1>1, <1>2, m = (k - 1) * R
<1>4. p \in {R, S - m} /\ p <= R /\ p <= S - m /\ p \in Int
  BY <1>1, <1>3
<1>5. History!Min({R, S - m}) = p
  BY <1>1, <1>3, <1>4 DEF History!Min
<1>6. History!PieceSize(l, k) = p
  BY <1>5 DEF History!PieceSize
<1>7. History!Stripped(l, k) = [url |-> l.text.url, from |-> l.text.from + m, len |-> p - 1]
  <2> PICK t, u, f, n : t = l.text /\ u = l.text.url /\ f = l.text.from /\ n = l.text.len
    OBVIOUS
  <2>1. t = [url |-> u, from |-> f, len |-> n]
    BY LineTyped
  <2>2. History!Stripped(l, k) = [t EXCEPT !.from = f + m, !.len = p - 1]
    BY <1>6, <2>1 DEF History!Stripped
  <2>3. [t EXCEPT !.from = f + m, !.len = p - 1] = [url |-> u, from |-> f + m, len |-> p - 1]
    <3> PICK a, b, s : a = f + m /\ b = p - 1 /\ s = [t EXCEPT !.from = a]
      OBVIOUS
    <3>1. s = [url |-> u, from |-> a, len |-> n]
      BY ONLY <2>1, s = [t EXCEPT !.from = a]
    <3>2. [s EXCEPT !.len = b] = [url |-> u, from |-> a, len |-> b]
      BY ONLY <3>1
    <3>3. [t EXCEPT !.from = a, !.len = b] = [s EXCEPT !.len = b]
      BY ONLY s = [t EXCEPT !.from = a], Zenon
    <3> QED
      BY <3>2, <3>3
  <2> QED
    BY <2>2, <2>3
<1>8. m + p <= S
  BY <1>1, <1>3, <1>4
<1> QED
  BY <1>1, <1>3, <1>4, <1>6, <1>7, <1>8

\* What a line gives: stretches of its URL, of lengths that are read back.
LEMMA PieceTyped ==
    ASSUME NEW l \in EntryLine, NEW k \in Nat, k >= 1, History!PieceSize(l, k) > Threshold
    PROVE  /\ History!Stripped(l, k) \in Entire
           /\ History!Stripped(l, k).url = l.text.url
<1> PICK m, p, f, n, S, L, R : /\ m = (k - 1) * History!Room /\ p = History!PieceSize(l, k)
                         /\ f = l.text.from /\ n = l.text.len /\ S = History!Size(l)
                         /\ L = Length[l.text.url] /\ R = History!Room
  OBVIOUS
<1>1. /\ m \in Nat /\ p \in Int /\ p <= R /\ m + p <= S
      /\ History!Stripped(l, k) = [url |-> l.text.url, from |-> f + m, len |-> p - 1]
  BY PieceIs
<1>2. /\ l.text.url \in Urls /\ f \in Nat /\ n \in Nat /\ L \in Nat /\ f + n <= L /\ S <= n + 1
  <2>1. S = n + (IF l.newline THEN 1 ELSE 0)
    BY LineTyped
  <2>2. n \in Nat /\ L \in 1 .. R /\ R \in Nat
    BY LineTyped, RoomIs
  <2>3. S <= n + 1 /\ L \in Nat
    BY ONLY <2>1, <2>2
  <2> QED
    BY <2>3, LineTyped
<1>3. R \in Nat /\ Threshold \in Nat /\ MAX_LINE_LEN = R + 1
  BY RoomIs
<1>4. p > Threshold
  OBVIOUS
<1>5. /\ f + m \in Nat /\ p - 1 \in Nat /\ (f + m) + (p - 1) <= L
      /\ p - 1 \in Threshold .. MAX_LINE_LEN - 2
  <2>1. m \in Nat /\ p \in Int /\ p <= R /\ m + p <= S
    BY <1>1
  <2>2. f \in Nat /\ n \in Nat /\ L \in Nat /\ f + n <= L /\ S <= n + 1 /\ S \in Nat
    BY <1>2, LineTyped
  <2>3. p - 1 \in Nat /\ p - 1 >= Threshold /\ p - 1 <= MAX_LINE_LEN - 2 /\ MAX_LINE_LEN - 2 \in Int
    BY ONLY <2>1, <1>3, <1>4
  <2>4. f + m \in Nat /\ (f + m) + (p - 1) <= L
    BY ONLY <2>1, <2>2, <2>3
  <2> QED
    BY <1>3, <2>3, <2>4
<1> QED
  BY <1>1, <1>2, <1>5 DEF Entire, Entry, History!Text, History!Fits

LEMMA KeptTyped ==
    ASSUME NEW l \in EntryLine
    PROVE  History!Kept(l) \in Seq({t \in Entire : t.url = l.text.url})
<1> PICK V : V = {t \in Entire : t.url = l.text.url}
  OBVIOUS
<1> PICK ss : ss = [k \in 1 .. History!Pieces(l) |->
                  IF History!PieceSize(l, k) > Threshold THEN <<History!Stripped(l, k)>> ELSE <<>>]
  OBVIOUS
<1>1. ASSUME NEW k \in 1 .. History!Pieces(l) PROVE ss[k] \in Seq(V)
  <2>1. k \in Nat /\ k >= 1
    BY LineTyped
  <2>2. CASE History!PieceSize(l, k) > Threshold
    <3>1. ss[k] = <<History!Stripped(l, k)>>
      BY <2>2
    <3>2. History!Stripped(l, k) \in V
      BY <2>1, <2>2, PieceTyped
    <3> QED
      BY ONLY <3>1, <3>2
  <2>3. CASE ~(History!PieceSize(l, k) > Threshold)
    BY <2>3
  <2> QED
    BY <2>2, <2>3
<1>2. ss \in Seq(Seq(V))
  <2> PICK P, W : P = History!Pieces(l) /\ W = Seq(V)
    OBVIOUS
  <2>1. P \in Nat /\ \A k \in 1 .. P : ss[k] \in W
    BY <1>1, LineTyped
  <2>2. DOMAIN ss = 1 .. P /\ ss = [k \in 1 .. P |-> ss[k]]
    OBVIOUS
  <2>3. ss \in Seq(W)
    BY ONLY <2>1, <2>2
  <2> QED
    BY <2>3
<1>3. FlattenSeq(ss) \in Seq(V)
  BY <1>2, FlattenTyped
<1>4. History!Kept(l) = FlattenSeq(ss)
  BY HistorySame, Zenon DEF History!Kept
<1> QED
  BY <1>3, <1>4

\* A line that the buffer holds is one piece.
LEMMA KeptOne ==
    ASSUME NEW l \in EntryLine, History!Size(l) <= History!Room
    PROVE  History!Kept(l) =
             IF History!Size(l) > Threshold
             THEN <<[url |-> l.text.url, from |-> l.text.from, len |-> History!Size(l) - 1]>>
             ELSE <<>>
<1> PICK ss, P, S, R : /\ P = History!Pieces(l) /\ S = History!Size(l) /\ R = History!Room
                 /\ ss = [k \in 1 .. P |->
                  IF History!PieceSize(l, k) > Threshold THEN <<History!Stripped(l, k)>> ELSE <<>>]
  OBVIOUS
<1>1. History!Kept(l) = FlattenSeq(ss)
  BY HistorySame, Zenon DEF History!Kept
<1>2. S \in Nat /\ R \in Nat /\ R >= 2 /\ S <= R /\ Threshold \in Nat
  BY LineTyped, RoomIs
<1>3. P = (S + R - 1) \div R
  BY DEF History!Pieces
<1>4. CASE S = 0
  <2>1. P = 0
    BY ONLY <1>2, <1>3, <1>4
  <2>2. ss = <<>>
    BY <2>1
  <2>3. ~(S > Threshold)
    BY ONLY <1>2, <1>4
  <2> QED
    BY <1>1, <2>2, <2>3, FlattenEmpty
<1>5. CASE S # 0
  <2>1. P = 1
    BY ONLY <1>2, <1>3, <1>5
  <2>2. (1 - 1) * R = 0
    BY ONLY <1>2
  <2>3. History!PieceSize(l, 1) = S
    <3>1. History!PieceSize(l, 1) = (IF R <= S - 0 THEN R ELSE S - 0)
      BY <2>2, PieceIs
    <3> QED
      BY ONLY <1>2, <3>1
  <2>4. History!Stripped(l, 1) = [url |-> l.text.url, from |-> l.text.from, len |-> S - 1]
    <3>1. History!Stripped(l, 1) =
            [url |-> l.text.url, from |-> l.text.from + 0, len |-> History!PieceSize(l, 1) - 1]
      BY <2>2, PieceIs
    <3> PICK f : f = l.text.from
      OBVIOUS
    <3>2. f \in Nat
      BY LineTyped
    <3>3. f + 0 = f
      BY ONLY <3>2
    <3> QED
      BY <2>3, <3>1, <3>3
  <2> PICK e : e = [url |-> l.text.url, from |-> l.text.from, len |-> S - 1]
    OBVIOUS
  <2>5. ss = <<IF S > Threshold THEN <<e>> ELSE <<>> >>
    BY <2>1, <2>3, <2>4
  <2> PICK x : x = IF S > Threshold THEN <<e>> ELSE <<>>
    OBVIOUS
  <2>6. x \in Seq({e})
    <3>1. CASE S > Threshold
      BY <3>1
    <3>2. CASE ~(S > Threshold)
      BY <3>2
    <3> QED
      BY <3>1, <3>2
  <2> PICK W, z : W = Seq({e}) /\ z = <<>>
    OBVIOUS
  <2>7. FlattenSeq(ss) = FlattenSeq(z) \o x
    <3>1. z \in Seq(W) /\ Append(z, x) = <<x>>
      BY <2>6
    <3>2. z \in Seq(Seq({e}))
      BY <3>1
    <3>3. FlattenSeq(Append(z, x)) = FlattenSeq(z) \o x
      BY ONLY <2>6, <3>2, FlattenAppend
    <3>4. ss = Append(z, x)
      BY ONLY <2>5, <3>1, x = IF S > Threshold THEN <<e>> ELSE <<>>
    <3> QED
      BY <3>3, <3>4
  <2>8. FlattenSeq(ss) = x
    <3>1. FlattenSeq(z) = <<>> /\ <<>> \o x = x
      BY <2>6, FlattenEmpty
    <3> QED
      BY <2>7, <3>1
  <2> QED
    BY <1>1, <2>8
<1> QED
  BY <1>4, <1>5

\* An entry of a length that is read back comes back as it was written.
LEMMA EntireIsBack ==
    ASSUME NEW t \in Entire
    PROVE  History!Kept(History!Line(t, TRUE)) = <<t>>
<1> PICK l, n, R : l = History!Line(t, TRUE) /\ n = t.len /\ R = History!Room
  OBVIOUS
<1>1. /\ l \in EntryLine /\ l.text = t /\ l.newline = TRUE
      /\ t = [url |-> t.url, from |-> t.from, len |-> n]
  BY DEF Entire, Entry, EntryLine, History!Line, History!Text
<1>2. n \in Threshold .. MAX_LINE_LEN - 2
  BY DEF Entire, History!Fits
<1>3. History!Size(l) = n + 1
  BY <1>1, LineTyped
<1>4. R \in Nat /\ Threshold \in Nat /\ MAX_LINE_LEN = R + 1
  BY RoomIs
<1>5. n \in Nat /\ n + 1 <= R /\ n + 1 > Threshold /\ (n + 1) - 1 = n
  BY ONLY <1>2, <1>4
<1>6. History!Kept(l) = <<[url |-> t.url, from |-> t.from, len |-> (n + 1) - 1]>>
  BY <1>1, <1>3, <1>5, KeptOne
<1> QED
  BY <1>1, <1>5, <1>6

\* What an entry becomes has its URL; where that fits, it is one entry or none.
LEMMA EntryIsBack ==
    ASSUME NEW l \in EntryLine, History!Fits(History!Whole(l.text.url))
    PROVE  /\ History!Size(l) <= History!Room
           /\ \/ History!Kept(l) = <<>> /\ History!Size(l) <= Threshold
              \/ \E t \in Entire : /\ History!Kept(l) = <<t>>
                                   /\ t = [url |-> l.text.url, from |-> l.text.from,
                                           len |-> History!Size(l) - 1]
<1> PICK n, L, R, S, f : /\ n = l.text.len /\ L = Length[l.text.url] /\ R = History!Room
                   /\ S = History!Size(l) /\ f = l.text.from
  OBVIOUS
<1>1. L \in Threshold .. MAX_LINE_LEN - 2
  BY DEF History!Fits, History!Whole
<1>2. /\ n \in Nat /\ f \in Nat /\ f + n <= L /\ S = n + (IF l.newline THEN 1 ELSE 0)
      /\ S \in Nat
  BY LineTyped
<1>3. R \in Nat /\ Threshold \in Nat /\ MAX_LINE_LEN = R + 1
  BY RoomIs
<1>4. S <= R /\ S <= n + 1
  BY ONLY <1>1, <1>2, <1>3
<1> PICK t : t = [url |-> l.text.url, from |-> l.text.from, len |-> S - 1]
  OBVIOUS
<1>5. CASE S > Threshold
  <2>1. History!Kept(l) = <<t>>
    BY <1>4, <1>5, KeptOne
  <2>2. History!Kept(l) \in Seq({e \in Entire : e.url = l.text.url})
    BY KeptTyped
  <2>3. t \in Entire
    <3> PICK V, k : V = {e \in Entire : e.url = l.text.url} /\ k = <<t>>
      OBVIOUS
    <3>1. k \in Seq(V) /\ k[1] = t /\ Len(k) = 1
      BY <2>1, <2>2
    <3>2. t \in V
      BY ONLY <3>1
    <3> QED
      BY <3>2
  <2> QED
    BY <1>4, <2>1, <2>3
<1>6. CASE ~(S > Threshold)
  <2>1. History!Kept(l) = <<>>
    BY <1>4, <1>6, KeptOne
  <2>2. S <= Threshold
    BY ONLY <1>2, <1>3, <1>6
  <2> QED
    BY <1>4, <2>1, <2>2
<1> QED
  BY <1>5, <1>6

LEMMA SpreadsTyped ==
    /\ Spreads(PrintOf, Entry, EntryLine) /\ Spreads(KeptOf, EntryLine, Entry)
    /\ Spreads(BackOf, Entry, Entry) /\ Spreads(FittingOf, Entry, Entry)
    /\ Spreads(SpoiltOf, Entry, Entry) /\ Spreads(TornOf, EntryLine, Entry)
<1>1. ASSUME NEW t \in Entry PROVE History!Line(t, TRUE) \in EntryLine
  BY DEF EntryLine, History!Line
<1>2. ASSUME NEW l \in EntryLine PROVE History!Kept(l) \in Seq(Entry)
  <2>1. History!Kept(l) \in Seq({t \in Entire : t.url = l.text.url})
    BY KeptTyped
  <2>2. {t \in Entire : t.url = l.text.url} \subseteq Entry
    BY DEF Entire
  <2> PICK V : V = {t \in Entire : t.url = l.text.url}
    OBVIOUS
  <2>3. History!Kept(l) \in Seq(V) /\ V \subseteq Entry
    BY <2>1, <2>2
  <2> QED
    BY ONLY <2>3
<1>3. Spreads(PrintOf, Entry, EntryLine)
  <2>1. ASSUME NEW t \in Entry PROVE <<History!Line(t, TRUE)>> \in Seq(EntryLine)
    <3> PICK l : l = History!Line(t, TRUE)
      OBVIOUS
    <3>1. l \in EntryLine
      BY <1>1
    <3> QED
      BY <3>1, SequenceOfOne
  <2> QED
    BY <2>1 DEF Spreads, PrintOf
<1>4. Spreads(KeptOf, EntryLine, Entry)
  BY <1>2 DEF Spreads, KeptOf
<1>5. Spreads(BackOf, Entry, Entry)
  BY <1>1, <1>2 DEF Spreads, BackOf
<1>6. Spreads(FittingOf, Entry, Entry) /\ Spreads(SpoiltOf, Entry, Entry)
  BY DEF Spreads, FittingOf, SpoiltOf
<1>7. Spreads(TornOf, EntryLine, Entry)
  BY DEF Spreads, TornOf, EntryLine
<1> QED
  BY <1>3, <1>4, <1>5, <1>6, <1>7

\* save_state() and load_state() of all lines.
LEMMA LoadedIs ==
    ASSUME NEW lines \in Seq(EntryLine)
    PROVE  History!Loaded(lines) = Spread(lines, KeptOf) /\ History!Loaded(lines) \in Seq(Entire)
<1>1. History!Loaded(lines) = FlattenSeq([i \in DOMAIN lines |-> History!Kept(lines[i])])
  BY HistorySame, Zenon DEF History!Loaded
<1> PICK ss : ss = [i \in DOMAIN lines |-> History!Kept(lines[i])]
  OBVIOUS
<1>2. \A i \in DOMAIN lines : lines[i] \in EntryLine
  OBVIOUS
<1>3. ss = Mapped(lines, KeptOf)
  BY <1>2 DEF Mapped, KeptOf
<1>4. ss \in Seq(Seq(Entire))
  <2>1. ASSUME NEW l \in EntryLine PROVE History!Kept(l) \in Seq(Entire)
    <3> PICK V : V = {t \in Entire : t.url = l.text.url}
      OBVIOUS
    <3>1. History!Kept(l) \in Seq(V) /\ V \subseteq Entire
      BY KeptTyped
    <3> QED
      BY ONLY <3>1
  <2> PICK W, n : W = Seq(Entire) /\ n = Len(lines)
    OBVIOUS
  <2>2. n \in Nat /\ DOMAIN ss = 1 .. n /\ ss = [i \in 1 .. n |-> ss[i]] /\ \A i \in 1 .. n : ss[i] \in W
    BY <1>2, <2>1
  <2>3. ss \in Seq(W)
    BY ONLY <2>2
  <2> QED
    BY <2>3
<1> QED
  BY <1>1, <1>3, <1>4, FlattenTyped DEF Spread

LEMMA PrintedIs ==
    ASSUME NEW list \in Seq(Entry)
    PROVE  History!Printed(list) = Spread(list, PrintOf) /\ History!Printed(list) \in Seq(EntryLine)
<1> PICK P : P = [t \in Entry |-> History!Line(t, TRUE)]
  OBVIOUS
<1>1. P \in [Entry -> EntryLine]
  BY DEF EntryLine, History!Line
<1>2. \A t \in Entry : PrintOf[t] = <<P[t]>>
  BY DEF PrintOf
<1>3. History!Printed(list) = Mapped(list, P)
  <2>1. \A i \in DOMAIN list : list[i] \in Entry
    OBVIOUS
  <2>2. \A i \in DOMAIN list : P[list[i]] = History!Line(list[i], TRUE)
    BY <2>1
  <2> QED
    BY <2>2, Zenon DEF History!Printed, Mapped
<1>4. Spread(list, PrintOf) = Mapped(list, P)
  BY ONLY <1>1, <1>2, list \in Seq(Entry), SpreadsTyped, SpreadMapped
<1>5. Mapped(list, P) \in Seq(EntryLine)
  BY <1>1, MappedTyped
<1> QED
  BY <1>3, <1>4, <1>5

LEMMA BackIs ==
    ASSUME NEW list \in Seq(Entry)
    PROVE  History!Loaded(History!Printed(list)) = Spread(list, BackOf)
<1>1. \A t \in Entry : Spread(PrintOf[t], KeptOf) = BackOf[t]
  <2> SUFFICES ASSUME NEW t \in Entry PROVE Spread(PrintOf[t], KeptOf) = BackOf[t]
    OBVIOUS
  <2> PICK l : l = History!Line(t, TRUE)
    OBVIOUS
  <2>1. l \in EntryLine /\ PrintOf[t] = <<l>> /\ BackOf[t] = KeptOf[l]
    BY DEF EntryLine, History!Line, PrintOf, KeptOf, BackOf
  <2>2. Spread(<<l>>, KeptOf) = KeptOf[l]
    BY ONLY <2>1, SpreadsTyped, SpreadOne
  <2> QED
    BY <2>1, <2>2
<1>2. Spread(Spread(list, PrintOf), KeptOf) = Spread(list, BackOf)
  BY ONLY <1>1, list \in Seq(Entry), SpreadsTyped, SpreadTwice
<1> QED
  BY <1>2, PrintedIs, LoadedIs

LEMMA FittingIs ==
    ASSUME NEW list \in Seq(Entry)
    PROVE  History!Fitting(list) = Spread(list, FittingOf)
<1>1. \A i \in DOMAIN list : list[i] \in Entry
  OBVIOUS
<1>2. [i \in DOMAIN list |-> IF History!FitsWhole(list[i]) THEN <<list[i]>> ELSE <<>>]
        = Mapped(list, FittingOf)
  BY <1>1 DEF Mapped, FittingOf
<1> QED
  BY <1>2, HistorySame, Zenon DEF History!Fitting, Spread

-----------------------------------------------------------------------------
(* What the runs check of the state file.                                  *)

\* The entries of a URL that does not fit are no matter of what is asked here.
LEMMA FittingBack == \A t \in Entry : Spread(BackOf[t], FittingOf) = FittingOf[t]
<1> SUFFICES ASSUME NEW t \in Entry PROVE Spread(BackOf[t], FittingOf) = FittingOf[t]
  OBVIOUS
<1> PICK l, b : l = History!Line(t, TRUE) /\ b = BackOf[t]
  OBVIOUS
<1>1. l \in EntryLine /\ l.text = t /\ l.newline = TRUE /\ b = History!Kept(l)
  BY DEF EntryLine, History!Line, BackOf
<1>2. CASE ~History!Fits(History!Whole(t.url))
  <2> PICK V : V = {e \in Entire : e.url = t.url}
    OBVIOUS
  <2>1. V \subseteq Entry /\ \A e \in V : FittingOf[e] = <<>>
    BY <1>2 DEF Entire, FittingOf, History!FitsWhole
  <2>2. b \in Seq(V)
    BY <1>1, KeptTyped
  <2>3. Spread(b, FittingOf) = <<>>
    BY ONLY <2>1, <2>2, SpreadsTyped, SpreadNone
  <2> QED
    BY <1>2, <2>3 DEF FittingOf, History!FitsWhole
<1>3. CASE History!Fits(History!Whole(t.url)) /\ History!Fits(t)
  <2>1. b = <<t>>
    BY <1>1, <1>3, EntireIsBack DEF Entire
  <2>2. Spread(<<t>>, FittingOf) = FittingOf[t]
    BY ONLY t \in Entry, SpreadsTyped, SpreadOne
  <2> QED
    BY <2>1, <2>2
<1>4. CASE History!Fits(History!Whole(t.url)) /\ ~History!Fits(t)
  <2> PICK n, R, L, f : n = t.len /\ R = History!Room /\ L = Length[t.url] /\ f = t.from
    OBVIOUS
  <2>1. n \in Nat /\ f \in Nat /\ f + n <= L /\ History!Size(l) = n + 1 /\ L \in 1 .. R
    BY <1>1, LineTyped
  <2>2. L \in Threshold .. MAX_LINE_LEN - 2 /\ n \notin Threshold .. MAX_LINE_LEN - 2
    BY <1>4 DEF History!Fits, History!Whole
  <2>3. R \in Nat /\ Threshold \in Nat /\ MAX_LINE_LEN = R + 1
    BY RoomIs
  <2>4. n + 1 <= R /\ ~(n + 1 > Threshold)
    BY ONLY <2>1, <2>2, <2>3
  <2>5. b = <<>>
    BY <1>1, <2>1, <2>4, KeptOne
  <2>6. Spread(b, FittingOf) = <<>>
    BY <2>5, SpreadEmpty, Zenon
  <2> QED
    BY <1>4, <2>6 DEF FittingOf, History!FitsWhole
<1> QED
  BY <1>2, <1>3, <1>4

\* A line that is not torn gives no spoilt entry, and a torn one gives one at most.
LEMMA SpoiltBack == \A l \in EntryLine : Len(Spread(KeptOf[l], SpoiltOf)) <= Len(TornOf[l])
<1> SUFFICES ASSUME NEW l \in EntryLine
             PROVE  Len(Spread(KeptOf[l], SpoiltOf)) <= Len(TornOf[l])
  OBVIOUS
<1> PICK b, x : b = KeptOf[l] /\ x = TornOf[l]
  OBVIOUS
<1>1. b = History!Kept(l) /\ l.text \in Entry
  BY LineTyped DEF KeptOf
<1>2. Len(x) \in Nat /\ (Torn(l) => Len(x) = 1)
  BY <1>1 DEF TornOf
<1>3. CASE ~History!Fits(History!Whole(l.text.url))
  <2> PICK V : V = {e \in Entire : e.url = l.text.url}
    OBVIOUS
  <2>1. V \subseteq Entry /\ \A e \in V : SpoiltOf[e] = <<>>
    BY <1>3 DEF Entire, SpoiltOf, History!Spoilt
  <2>2. b \in Seq(V)
    BY <1>1, KeptTyped
  <2>3. Spread(b, SpoiltOf) = <<>>
    BY ONLY <2>1, <2>2, SpreadsTyped, SpreadNone
  <2>4. Len(<<>>) <= Len(x)
    BY <1>2
  <2> QED
    BY <2>3, <2>4
<1>4. CASE History!Fits(History!Whole(l.text.url))
  <2>1. CASE b = <<>>
    <3>1. Spread(b, SpoiltOf) = <<>>
      BY <2>1, SpreadEmpty, Zenon
    <3>2. Len(<<>>) <= Len(x)
      BY <1>2
    <3> QED
      BY <3>1, <3>2
  <2>2. CASE b # <<>>
    <3>1. PICK t \in Entire : b = <<t>> /\ t = [url |-> l.text.url, from |-> l.text.from,
                                              len |-> History!Size(l) - 1]
      BY <1>1, <1>4, <2>2, EntryIsBack
    <3>2. t \in Entry
      BY DEF Entire
    <3>3. Spread(b, SpoiltOf) = SpoiltOf[t]
      <4>1. Spread(<<t>>, SpoiltOf) = SpoiltOf[t]
        BY ONLY <3>2, SpreadsTyped, SpreadOne
      <4> QED
        BY <3>1, <4>1
    <3>4. CASE Torn(l)
      <4>1. Len(SpoiltOf[t]) <= 1
        BY <3>2 DEF SpoiltOf
      <4> QED
        BY <1>2, <3>3, <3>4, <4>1
    <3>5. CASE ~Torn(l)
      <4> PICK n : n = l.text.len
        OBVIOUS
      <4>1. /\ l.text = History!Whole(l.text.url) /\ l.newline
            /\ History!Size(l) = n + 1 /\ n \in Nat
            /\ l.text = [url |-> l.text.url, from |-> l.text.from, len |-> n]
        BY <1>4, <3>5, LineTyped DEF Torn
      <4>2. History!Size(l) - 1 = n
        BY ONLY <4>1
      <4>3. t = History!Whole(t.url)
        BY <3>1, <4>1, <4>2
      <4>4. SpoiltOf[t] = <<>>
        BY <3>2, <4>3 DEF SpoiltOf, History!Spoilt
      <4>5. Len(<<>>) <= Len(x)
        BY <1>2
      <4> QED
        BY <3>3, <4>4, <4>5
    <3> QED
      BY <3>4, <3>5
  <2> QED
    BY <2>1, <2>2
<1> QED
  BY <1>3, <1>4

\* A line that was printed is torn where the entry was spoilt.
LEMMA TornPrinted ==
    ASSUME NEW list \in Seq(Entry)
    PROVE  Spread(History!Printed(list), TornOf) = Spread(list, SpoiltOf)
<1>1. \A t \in Entry : Spread(PrintOf[t], TornOf) = SpoiltOf[t]
  <2> SUFFICES ASSUME NEW t \in Entry PROVE Spread(PrintOf[t], TornOf) = SpoiltOf[t]
    OBVIOUS
  <2> PICK l : l = History!Line(t, TRUE)
    OBVIOUS
  <2>1. l \in EntryLine /\ PrintOf[t] = <<l>> /\ l.text = t /\ l.newline = TRUE
    BY DEF EntryLine, History!Line, PrintOf
  <2>2. Spread(<<l>>, TornOf) = TornOf[l]
    BY ONLY <2>1, SpreadsTyped, SpreadOne
  <2>3. TornOf[l] = SpoiltOf[t]
    BY <2>1 DEF TornOf, SpoiltOf, Torn, History!Spoilt
  <2> QED
    BY <2>1, <2>2, <2>3
<1>2. Spread(Spread(list, PrintOf), TornOf) = Spread(list, SpoiltOf)
  BY ONLY <1>1, list \in Seq(Entry), SpreadsTyped, SpreadTwice
<1> QED
  BY <1>2, PrintedIs

\* A beginning of a file has a torn line more at most.
LEMMA CutTorn ==
    ASSUME NEW lines \in Seq(EntryLine), NEW cut \in History!Cut(lines)
    PROVE  /\ cut \in Seq(EntryLine)
           /\ Len(Spread(cut, TornOf)) <= Len(Spread(lines, TornOf)) + 1
<1> DEFINE sum(s) == Spread(s, TornOf)
<1>1. ASSUME NEW n \in 0 .. Len(lines)
      PROVE  /\ SubSeq(lines, 1, n) \in Seq(EntryLine) /\ sum(SubSeq(lines, 1, n)) \in Seq(Entry)
             /\ Len(sum(SubSeq(lines, 1, n))) <= Len(sum(lines))
  <2> PICK a : a = SubSeq(lines, 1, n)
    OBVIOUS
  <2>0. PICK b \in Seq(EntryLine) : lines = SubSeq(lines, 1, n) \o b
    BY BeginningRest
  <2>1. a \in Seq(EntryLine) /\ b \in Seq(EntryLine) /\ a \o b = lines
    BY <2>0, BeginningIs
  <2>2. sum(lines) = sum(a) \o sum(b)
    <3>1. a \in Seq(EntryLine) /\ b \in Seq(EntryLine)
      BY <2>1
    <3>2. Spread(a \o b, TornOf) = Spread(a, TornOf) \o Spread(b, TornOf)
      BY ONLY <3>1, SpreadsTyped, SpreadConcat, SMTT(30)
    <3> QED
      BY <2>1, <3>2
  <2>3. sum(a) \in Seq(Entry) /\ sum(b) \in Seq(Entry)
    BY ONLY <2>1, SpreadsTyped, SpreadTyped
  <2>4. Len(sum(a)) <= Len(sum(a) \o sum(b))
    BY ONLY <2>3
  <2> QED
    BY <2>1, <2>2, <2>3, <2>4
<1>2. CASE (\E n \in 0 .. Len(lines) - 1 : cut = SubSeq(lines, 1, n))
  <2>1. PICK n \in 0 .. Len(lines) - 1 : cut = SubSeq(lines, 1, n)
    BY <1>2
  <2>2. n \in 0 .. Len(lines)
    OBVIOUS
  <2> PICK v, w : v = Len(sum(cut)) /\ w = Len(sum(lines))
    OBVIOUS
  <2>3. v \in Nat /\ w \in Nat /\ v <= w
    <3>1. sum(lines) \in Seq(Entry)
      BY ONLY lines \in Seq(EntryLine), SpreadsTyped, SpreadTyped
    <3> QED
      BY <1>1, <2>1, <2>2, <3>1
  <2>4. v <= w + 1
    BY ONLY <2>3
  <2> QED
    BY <1>1, <2>1, <2>2, <2>4
<1>3. CASE \E n \in DOMAIN lines : \E len \in 1 .. lines[n].text.len :
             cut = Append(SubSeq(lines, 1, n - 1),
                          History!Line([lines[n].text EXCEPT !.len = len], FALSE))
  <2> PICK n \in DOMAIN lines : \E len \in 1 .. lines[n].text.len :
             cut = Append(SubSeq(lines, 1, n - 1),
                          History!Line([lines[n].text EXCEPT !.len = len], FALSE))
    BY <1>3
  <2>1. PICK len \in 1 .. lines[n].text.len :
           cut = Append(SubSeq(lines, 1, n - 1),
                        History!Line([lines[n].text EXCEPT !.len = len], FALSE))
    OBVIOUS
  <2>2. n - 1 \in 0 .. Len(lines) /\ lines[n] \in EntryLine
    OBVIOUS
  <2> PICK t, l, a : /\ t = [lines[n].text EXCEPT !.len = len] /\ l = History!Line(t, FALSE)
                     /\ a = SubSeq(lines, 1, n - 1)
    OBVIOUS
  <2>3. t \in Entry
    <3> PICK o, u, f, k, L : /\ o = lines[n].text /\ u = o.url /\ f = o.from /\ k = o.len
                             /\ L = Length[u]
      OBVIOUS
    <3>1. /\ o = [url |-> u, from |-> f, len |-> k] /\ u \in Urls /\ f \in Nat /\ k \in Nat
          /\ f + k <= L /\ L \in 1 .. History!Room /\ History!Room \in Nat
      BY <2>2, LineTyped, RoomIs
    <3>2. len \in Nat /\ f + len <= L
      <4>1. len \in 1 .. k
        BY <2>1
      <4> QED
        BY ONLY <3>1, <4>1
    <3>3. t = [url |-> u, from |-> f, len |-> len]
      <4>0. o = [url |-> u, from |-> f, len |-> k]
        BY <3>1
      <4>1. [o EXCEPT !.len = len] = [url |-> u, from |-> f, len |-> len]
        BY ONLY <4>0
      <4> QED
        BY <4>1
    <3> QED
      BY <3>1, <3>2, <3>3 DEF Entry, History!Text
  <2>4. l \in EntryLine
    BY <2>3 DEF EntryLine, History!Line
  <2>5. a \in Seq(EntryLine) /\ sum(a) \in Seq(Entry) /\ Len(sum(a)) <= Len(sum(lines))
    BY <1>1, <2>2
  <2> PICK x : x = TornOf[l]
    OBVIOUS
  <2>6. sum(Append(a, l)) = sum(a) \o x
    <3>1. Spread(Append(a, l), TornOf) = Spread(a, TornOf) \o x
      BY ONLY <2>4, <2>5, x = TornOf[l], SpreadsTyped, SpreadAppend
    <3> QED
      BY <3>1
  <2>7. x \in Seq(Entry) /\ Len(x) <= 1
    <3>1. l.text \in Entry
      BY <2>4, LineTyped
    <3>2. x = IF Torn(l) THEN <<l.text>> ELSE <<>>
      BY <2>4 DEF TornOf
    <3> PICK o : o = l.text
      OBVIOUS
    <3>3. o \in Entry /\ (x = <<o>> \/ x = <<>>)
      BY <3>1, <3>2
    <3>4. <<o>> \in Seq(Entry) /\ Len(<<o>>) = 1
      BY ONLY <3>3, SequenceOfOne
    <3>5. CASE x = <<o>>
      BY ONLY <3>4, <3>5
    <3>6. CASE x = <<>>
      BY ONLY <3>6
    <3> QED
      BY <3>3, <3>5, <3>6
  <2>8. sum(lines) \in Seq(Entry)
    BY ONLY lines \in Seq(EntryLine), SpreadsTyped, SpreadTyped
  <2> PICK g : g = sum(a)
    OBVIOUS
  <2>9. g \in Seq(Entry) /\ Len(g) <= Len(sum(lines))
    BY <2>5
  <2>10. Len(g \o x) <= Len(sum(lines)) + 1
    BY ONLY <2>7, <2>8, <2>9
  <2>11. cut = Append(a, l) /\ Append(a, l) \in Seq(EntryLine)
    <3>1. cut = Append(a, l)
      BY <2>1, Zenon
    <3>2. Append(a, l) \in Seq(EntryLine)
      BY ONLY <2>4, <2>5
    <3> QED
      BY <3>1, <3>2
  <2> QED
    BY <2>6, <2>10, <2>11
<1> QED
  BY <1>2, <1>3, Zenon DEF History!Cut

LEMMA HistoryInit == History!Init => HistoryInv
<1> SUFFICES ASSUME History!Init PROVE HistoryInv
  OBVIOUS
<1>1. downloads = <<>> /\ statefile = <<>> /\ kills = 0
  BY DEF History!Init
<1>2. Spread(downloads, SpoiltOf) = <<>> /\ Spread(statefile, TornOf) = <<>>
  BY <1>1, SpreadEmpty, Zenon
<1> QED
  BY <1>1, <1>2 DEF HistoryInv

LEMMA WholeTyped ==
    ASSUME NEW u \in Urls
    PROVE  History!Whole(u) \in Entry /\ ~History!Spoilt(History!Whole(u))
<1> PICK n, R : n = Length[u] /\ R = History!Room
  OBVIOUS
<1>1. n \in 1 .. R /\ R \in Nat
  BY RoomIs
<1>2. n \in Nat /\ 0 + n <= n
  BY ONLY <1>1
<1> QED
  BY <1>2 DEF Entry, History!Text, History!Whole, History!Spoilt

\* An entry more that is a whole URL.
LEMMA RecordedTyped ==
    ASSUME NEW u \in Urls, NEW list \in Seq(Entry)
    PROVE  /\ <<History!Whole(u)>> \o list \in Seq(Entry)
           /\ Spread(<<History!Whole(u)>> \o list, SpoiltOf) = Spread(list, SpoiltOf)
<1> PICK t, s : t = History!Whole(u) /\ s = <<t>>
  OBVIOUS
<1>1. t \in Entry /\ SpoiltOf[t] = <<>>
  BY WholeTyped DEF SpoiltOf
<1>2. s \in Seq(Entry)
  BY <1>1, SequenceOfOne
<1>3. Spread(<<t>>, SpoiltOf) = SpoiltOf[t]
  BY ONLY <1>1, SpreadsTyped, SpreadOne
<1>4. Spread(s \o list, SpoiltOf) = Spread(s, SpoiltOf) \o Spread(list, SpoiltOf)
  BY ONLY <1>2, list \in Seq(Entry), SpreadsTyped, SpreadConcat
<1>5. Spread(list, SpoiltOf) \in Seq(Entry)
  BY ONLY list \in Seq(Entry), SpreadsTyped, SpreadTyped
<1>6. Spread(s \o list, SpoiltOf) = Spread(list, SpoiltOf)
  <2> PICK x : x = Spread(list, SpoiltOf)
    OBVIOUS
  <2>1. x \in Seq(Entry)
    BY <1>5
  <2>2. <<>> \o x = x
    BY ONLY <2>1
  <2>3. Spread(s, SpoiltOf) = <<>>
    BY <1>1, <1>3
  <2> QED
    BY <1>4, <2>2, <2>3
<1>7. s \o list \in Seq(Entry)
  BY ONLY <1>2, list \in Seq(Entry)
<1> QED
  BY <1>6, <1>7

\* What a save leaves, complete or cut off.
LEMMA SavedIs ==
    ASSUME NEW list \in Seq(Entry), NEW k \in Nat, Len(Spread(list, SpoiltOf)) <= k
    PROVE  /\ History!Printed(list) \in Seq(EntryLine)
           /\ Len(Spread(History!Printed(list), TornOf)) <= k
           /\ \A cut \in History!Cut(History!Printed(list)) :
                 cut \in Seq(EntryLine) /\ Len(Spread(cut, TornOf)) <= k + 1
<1> PICK lines : lines = History!Printed(list)
  OBVIOUS
<1>1. lines \in Seq(EntryLine) /\ Len(Spread(lines, TornOf)) <= k
  BY PrintedIs, TornPrinted
<1>2. ASSUME NEW cut \in History!Cut(lines)
      PROVE  cut \in Seq(EntryLine) /\ Len(Spread(cut, TornOf)) <= k + 1
  <2>1. cut \in Seq(EntryLine) /\ Len(Spread(cut, TornOf)) <= Len(Spread(lines, TornOf)) + 1
    BY <1>1, CutTorn
  <2>2. Spread(cut, TornOf) \in Seq(Entry)
    BY ONLY <2>1, SpreadsTyped, SpreadTyped
  <2>3. Spread(lines, TornOf) \in Seq(Entry)
    BY ONLY <1>1, SpreadsTyped, SpreadTyped
  <2> PICK v, w : v = Len(Spread(cut, TornOf)) /\ w = Len(Spread(lines, TornOf))
    OBVIOUS
  <2>4. v \in Nat /\ w \in Nat /\ v <= w + 1 /\ w <= k
    BY <1>1, <2>1, <2>2, <2>3
  <2>5. v <= k + 1
    BY ONLY <2>4, k \in Nat
  <2> QED
    BY <2>1, <2>5
<1> QED
  BY <1>1, <1>2

LEMMA HistoryStart == HistoryInv /\ History!Start => HistoryInv'
<1> SUFFICES ASSUME HistoryInv, History!Start PROVE HistoryInv'
  OBVIOUS
<1>1. downloads' = History!Loaded(statefile) /\ statefile' = statefile /\ kills' = kills
  BY DEF History!Start
<1>2. statefile \in Seq(EntryLine) /\ kills \in Nat /\ Len(Spread(statefile, TornOf)) <= kills
  BY DEF HistoryInv
<1>3. Entire \subseteq Entry
  BY DEF Entire
<1>4. downloads' = Spread(statefile, KeptOf) /\ downloads' \in Seq(Entry)
  <2>1. downloads' = Spread(statefile, KeptOf) /\ downloads' \in Seq(Entire)
    BY <1>1, <1>2, LoadedIs
  <2> QED
    BY ONLY <1>3, <2>1
<1>5. Len(Spread(Spread(statefile, KeptOf), SpoiltOf)) <= Len(Spread(statefile, TornOf))
  BY ONLY <1>2, SpoiltBack, SpreadsTyped, SpreadTwiceLen
<1>6. Len(Spread(downloads', SpoiltOf)) <= kills
  <2> PICK v, w : v = Len(Spread(downloads', SpoiltOf)) /\ w = Len(Spread(statefile, TornOf))
    OBVIOUS
  <2>1. Spread(downloads', SpoiltOf) \in Seq(Entry)
    BY ONLY <1>4, SpreadsTyped, SpreadTyped
  <2>2. Spread(statefile, TornOf) \in Seq(Entry)
    BY ONLY <1>2, SpreadsTyped, SpreadTyped
  <2>3. v \in Nat /\ w \in Nat /\ v <= w /\ w <= kills
    BY <1>2, <1>4, <1>5, <2>1, <2>2
  <2> QED
    BY ONLY <1>2, <2>3, v = Len(Spread(downloads', SpoiltOf))
<1> QED
  BY <1>1, <1>2, <1>4, <1>6 DEF HistoryInv

LEMMA HistoryStepKeeps == HistoryInv /\ [History!Next]_stateVars => HistoryInv'
<1> SUFFICES ASSUME HistoryInv, [History!Next]_stateVars PROVE HistoryInv'
  OBVIOUS
<1>1. /\ downloads \in Seq(Entry) /\ statefile \in Seq(EntryLine) /\ kills \in Nat
      /\ Len(Spread(downloads, SpoiltOf)) <= kills /\ Len(Spread(statefile, TornOf)) <= kills
  BY DEF HistoryInv
<1>2. /\ <<>> \in Seq(Entry) /\ Len(Spread(<<>>, SpoiltOf)) = 0
      /\ Len(Spread(<<>>, SpoiltOf)) <= kills /\ Len(Spread(<<>>, SpoiltOf)) <= kills + 1
      /\ kills + 1 \in Nat
  <2>1. Len(<<>>) = 0 /\ <<>> \in Seq(Entry) /\ 0 <= kills /\ 0 <= kills + 1
    BY <1>1
  <2> QED
    BY <1>1, <2>1, SpreadEmpty
<1>3. ASSUME NEW u \in Urls, History!Record(u) PROVE HistoryInv'
  <2> PICK list : list = <<History!Whole(u)>> \o downloads
    OBVIOUS
  <2>1. downloads' = list /\ statefile' = History!Printed(list) /\ kills' = kills
    BY <1>3 DEF History!Record
  <2>2. list \in Seq(Entry) /\ Len(Spread(list, SpoiltOf)) <= kills
    BY <1>1, RecordedTyped
  <2> QED
    BY <1>1, <2>1, <2>2, SavedIs DEF HistoryInv
<1>4. ASSUME NEW u \in Urls, History!RecordKilled(u) PROVE HistoryInv'
  <2> PICK list : list = <<History!Whole(u)>> \o downloads
    OBVIOUS
  <2>1. downloads' = <<>> /\ statefile' \in History!Cut(History!Printed(list)) /\ kills' = kills + 1
    BY <1>4 DEF History!RecordKilled
  <2>2. list \in Seq(Entry) /\ Len(Spread(list, SpoiltOf)) <= kills
    BY <1>1, RecordedTyped
  <2>3. statefile' \in Seq(EntryLine) /\ Len(Spread(statefile', TornOf)) <= kills + 1
    BY <1>1, <2>1, <2>2, SavedIs
  <2> QED
    BY <1>2, <2>1, <2>3 DEF HistoryInv
<1>5. CASE History!Stop
  <2>1. downloads' = <<>> /\ kills' = kills
        /\ (statefile' = History!Printed(downloads) \/ statefile' = statefile)
    BY <1>5 DEF History!Stop
  <2>2. statefile' \in Seq(EntryLine) /\ Len(Spread(statefile', TornOf)) <= kills
    BY <1>1, <2>1, SavedIs
  <2> QED
    BY <1>1, <1>2, <2>1, <2>2 DEF HistoryInv
<1>6. CASE History!StopKilled
  <2>1. /\ downloads' = <<>> /\ kills' = kills + 1
        /\ statefile' \in History!Cut(History!Printed(downloads))
    BY <1>6 DEF History!StopKilled
  <2>2. statefile' \in Seq(EntryLine) /\ Len(Spread(statefile', TornOf)) <= kills + 1
    BY <1>1, <2>1, SavedIs
  <2> QED
    BY <1>2, <2>1, <2>2 DEF HistoryInv
<1>7. CASE UNCHANGED stateVars
  <2>1. downloads' = downloads /\ statefile' = statefile /\ kills' = kills
    BY <1>7 DEF stateVars
  <2> QED
    BY <2>1 DEF HistoryInv
<1> QED
  BY <1>3, <1>4, <1>5, <1>6, <1>7, HistoryStart DEF History!Next

\* Only the last line of a file lacks its newline.
LinesEnd(lines) == \A i \in DOMAIN lines : lines[i].newline \/ i = Len(lines)

LEMMA CutEnds ==
    ASSUME NEW lines \in Seq(EntryLine), \A i \in DOMAIN lines : lines[i].newline,
           NEW cut \in History!Cut(lines)
    PROVE  LinesEnd(cut)
<1>1. CASE (\E n \in 0 .. Len(lines) - 1 : cut = SubSeq(lines, 1, n))
  <2> PICK n \in 0 .. Len(lines) - 1 : cut = SubSeq(lines, 1, n)
    BY <1>1
  <2>1. n \in 0 .. Len(lines)
    OBVIOUS
  <2>2. cut \in Seq(EntryLine) /\ Len(cut) = n /\ \A i \in 1 .. n : cut[i] = lines[i]
    BY ONLY lines \in Seq(EntryLine), <2>1, cut = SubSeq(lines, 1, n), BeginningIs
  <2>3. \A i \in 1 .. n : i \in DOMAIN lines
    BY <2>1
  <2>4. DOMAIN cut = 1 .. n
    BY <2>2
  <2>5. \A i \in DOMAIN cut : cut[i].newline
    BY <2>2, <2>3, <2>4
  <2> QED
    BY <2>5 DEF LinesEnd
<1>2. CASE (\E n \in DOMAIN lines : \E len \in 1 .. lines[n].text.len :
              cut = Append(SubSeq(lines, 1, n - 1), History!Line([lines[n].text EXCEPT !.len = len], FALSE)))
  <2> PICK n \in DOMAIN lines : \E l : cut = Append(SubSeq(lines, 1, n - 1), l)
    BY <1>2
  <2> PICK l : cut = Append(SubSeq(lines, 1, n - 1), l)
    OBVIOUS
  <2> PICK s : s = SubSeq(lines, 1, n - 1)
    OBVIOUS
  <2>1. n - 1 \in 0 .. Len(lines) /\ n \in Nat
    OBVIOUS
  <2>2. s \in Seq(EntryLine) /\ Len(s) = n - 1 /\ \A i \in 1 .. n - 1 : s[i] = lines[i]
    BY ONLY lines \in Seq(EntryLine), <2>1, s = SubSeq(lines, 1, n - 1), BeginningIs
  <2> PICK T : T = EntryLine \cup {l}
    OBVIOUS
  <2>3. s \in Seq(T) /\ l \in T
    BY <2>2
  <2>4. Len(cut) = n /\ DOMAIN cut = 1 .. n /\ \A i \in 1 .. n - 1 : cut[i] = s[i]
    BY <2>1, <2>2, <2>3
  <2>5. \A i \in 1 .. n - 1 : i \in DOMAIN lines
    BY <2>1
  <2>6. \A i \in 1 .. n : i = n \/ i \in 1 .. n - 1
    BY <2>1
  <2> QED
    BY <2>2, <2>4, <2>5, <2>6 DEF LinesEnd
<1> QED
  BY <1>1, <1>2, Zenon DEF History!Cut

LEMMA PrintedEnds ==
    ASSUME NEW list \in Seq(Entry)
    PROVE  /\ LinesEnd(History!Printed(list))
           /\ \A cut \in History!Cut(History!Printed(list)) : LinesEnd(cut)
<1> PICK lines : lines = History!Printed(list)
  OBVIOUS
<1>1. lines \in Seq(EntryLine)
  BY PrintedIs
<1>2. \A i \in DOMAIN lines : lines[i] = History!Line(list[i], TRUE)
  BY DEF History!Printed
<1>3. \A i \in DOMAIN lines : lines[i].newline
  BY <1>2 DEF History!Line
<1> QED
  BY <1>1, <1>3, CutEnds DEF LinesEnd

HistoryTyped == running \in BOOLEAN /\ kills \in 0 .. MaxKills /\ LinesEnd(statefile)

LEMMA HistoryTypedKept == HistoryInv /\ HistoryTyped /\ [History!Next]_stateVars => HistoryTyped'
<1> SUFFICES ASSUME HistoryInv, HistoryTyped, [History!Next]_stateVars PROVE HistoryTyped'
  OBVIOUS
<1>1. downloads \in Seq(Entry) /\ kills \in 0 .. MaxKills /\ MaxKills \in Nat
  BY HistoryAssumption DEF HistoryInv, HistoryTyped, History!StateFileAssumption
<1>2. ASSUME NEW u \in Urls, History!Record(u) \/ History!RecordKilled(u) PROVE HistoryTyped'
  <2> PICK list : list = <<History!Whole(u)>> \o downloads
    OBVIOUS
  <2>1. list \in Seq(Entry) 
    BY <1>1, RecordedTyped
  <2>2. \/ statefile' = History!Printed(list) /\ kills' = kills /\ running' = running
        \/ /\ statefile' \in History!Cut(History!Printed(list)) /\ running' = FALSE
           /\ kills < MaxKills /\ kills' = kills + 1
    BY <1>2 DEF History!Record, History!RecordKilled
  <2>3. LinesEnd(statefile')
    BY <2>1, <2>2, PrintedEnds
  <2>4. kills' \in 0 .. MaxKills
    BY <1>1, <2>2
  <2> QED
    BY <2>2, <2>3, <2>4 DEF HistoryTyped, LinesEnd
<1>3. CASE History!Stop \/ History!StopKilled
  <2>1. /\ running' = FALSE
        /\ \/ statefile' = statefile
           \/ statefile' = History!Printed(downloads)
           \/ statefile' \in History!Cut(History!Printed(downloads))
        /\ kills' = kills \/ (kills < MaxKills /\ kills' = kills + 1)
    BY <1>3 DEF History!Stop, History!StopKilled
  <2>2. LinesEnd(statefile')
    BY <1>1, <2>1, PrintedEnds DEF HistoryTyped
  <2>3. kills' \in 0 .. MaxKills
    BY <1>1, <2>1
  <2> QED
    BY <2>1, <2>2, <2>3 DEF HistoryTyped, LinesEnd
<1>4. CASE History!Start
  BY <1>4 DEF History!Start, HistoryTyped, LinesEnd
<1>5. CASE UNCHANGED stateVars
  BY <1>5 DEF stateVars, HistoryTyped, LinesEnd
<1> QED
  BY <1>2, <1>3, <1>4, <1>5 DEF History!Next

LEMMA StateTyped == HistoryInv /\ HistoryTyped => History!TypeOK
BY DEF HistoryInv, HistoryTyped, History!TypeOK, Entry, LinesEnd

-----------------------------------------------------------------------------
(* config_parser.c: where the reader is, and what its buffers hold.         *)

LEMMA ContentsTyped == \A f \in Files : Contents(f) \in Seq(STRING)
<1> SUFFICES ASSUME NEW f \in Files PROVE Contents(f) \in Seq(STRING)
  OBVIOUS
<1> PICK texts : texts = [i \in DOMAIN f.lines |-> f.lines[i].text]
  OBVIOUS
<1>1. texts \in Seq(Seq(STRING)) /\ f.rest \in Seq(STRING)
  BY ConfigAssumption
<1>2. FlattenSeq(texts) \in Seq(STRING)
  BY <1>1, FlattenTyped
<1> QED
  BY <1>1, <1>2 DEF Contents

\* The positions of the reader: it skips blanks up to the end of the text, and stops a loop at the
\* first place that ends it.
LEMMA SkippedIs ==
    ASSUME Size \in Nat, NEW p \in Nat
    PROVE  /\ Skipped(p) \in Nat /\ p <= Skipped(p)
           /\ Skipped(p) < Size \/ Skipped(p) = Size \/ Skipped(p) = p
<1> PICK limit, stops :
      limit = (IF p < Size THEN Size ELSE p) /\ stops = {q \in p .. limit : q >= Size \/ ~isspace(At(q))}
  OBVIOUS
<1>1. limit \in Nat /\ p <= limit /\ Size <= limit /\ limit \in stops
  OBVIOUS
<1>2. PICK least \in stops : \A q \in stops : least <= q
  <2>1. stops \in SUBSET Nat /\ stops # {}
    BY <1>1
  <2> QED
    BY <2>1, LeastNumber
<1>3. Max({p, Size}) = limit
  BY <1>1 DEF Max
<1>4. \A r \in p .. least - 1 : isspace(At(r))
  <2> SUFFICES ASSUME NEW r \in p .. least - 1 PROVE isspace(At(r))
    OBVIOUS
  <2>1. r \in p .. limit /\ r < least
    BY <1>1, <1>2
  <2>2. r \notin stops
    BY <1>2, <2>1
  <2> QED
    BY <2>1, <2>2
<1>5. least \in p .. limit /\ (least >= Size \/ ~isspace(At(least)))
  BY <1>2
<1>6. /\ Skipped(p) \in p .. limit
      /\ \A r \in p .. Skipped(p) - 1 : isspace(At(r))
  BY <1>3, <1>4, <1>5 DEF Skipped
<1> QED
  BY <1>1, <1>6

LEMMA FirstOfIs ==
    ASSUME NEW stops \in SUBSET Nat, NEW limit
    PROVE  FirstOf(stops, limit) \in stops \cup {limit}
<1>1. CASE stops = {}
  BY <1>1 DEF FirstOf
<1>2. CASE stops # {}
  <2>1. PICK n \in stops : \A m \in stops : n <= m
    BY <1>2, LeastNumber
  <2>2. Min(stops) \in stops
    BY <2>1 DEF Min
  <2> QED
    BY <1>2, <2>2 DEF FirstOf
<1> QED
  BY <1>1, <1>2

LEMMA BetweenIs ==
    ASSUME NEW p \in Nat, NEW q \in Nat, p <= q
    PROVE  Len(Between(p, q)) = q - p /\ DOMAIN Between(p, q) = 1 .. q - p
<1>1. q - p \in Nat
  OBVIOUS
<1> QED
  BY <1>1 DEF Between

\* parseUInt() of a word.
LEMMA NumberTyped ==
    ASSUME NEW str, Len(str) \in Nat, DOMAIN str = 1 .. Len(str)
    PROVE  parseUInt(str) \in Int
<1> DEFINE N == Len(str)
           number == CHOOSE number : number = [n \in 0 .. N |->
                       IF n = 0 THEN 0 ELSE 10 * number[n - 1] + Digits[str[n]]]
<1>1. CASE ToSet(str) \subseteq DOMAIN Digits
  <2> DEFINE step == [x \in Nat \X Nat |-> IF x[1] \in 1 .. N THEN 10 * x[2] + Digits[str[x[1]]] ELSE 0]
  <2>1. \A n \in 1 .. N : Digits[str[n]] \in Nat
    <3>1. \A n \in 1 .. N : str[n] \in DOMAIN Digits
      BY <1>1 DEF ToSet
    <3> QED
      BY <3>1, ConfigAssumption
  <2>2. step \in [Nat \X Nat -> Nat]
    BY <2>1
  <2>3. \A i \in 1 .. N, v \in Nat : step[<<i, v>>] = 10 * v + Digits[str[i]]
    OBVIOUS
  <2> HIDE DEF step
  <2>4. PICK f \in [0 .. N -> Nat] : Follows(f, 0, step, N)
    BY <2>2, Recursion
  <2>5. f = [n \in 0 .. N |-> IF n = 0 THEN 0 ELSE 10 * f[n - 1] + Digits[str[n]]]
    <3> SUFFICES ASSUME NEW n \in 0 .. N
                 PROVE  f[n] = IF n = 0 THEN 0 ELSE 10 * f[n - 1] + Digits[str[n]]
      OBVIOUS
    <3>1. CASE n = 0
      BY <2>4, <3>1 DEF Follows
    <3>2. CASE n # 0
      <4>1. n \in 1 .. N /\ n - 1 \in 0 .. N
        BY <3>2
      <4>2. f[n - 1] \in Nat /\ f[n] = step[<<n, f[n - 1]>>]
        BY <2>4, <4>1 DEF Follows
      <4> QED
        BY <2>3, <3>2, <4>1, <4>2
    <3> QED
      BY <3>1, <3>2
  <2>6. number = [n \in 0 .. N |-> IF n = 0 THEN 0 ELSE 10 * number[n - 1] + Digits[str[n]]]
    BY <2>5
  <2> HIDE DEF number
  <2>7. number[0] = 0 /\ \A n \in 1 .. N : number[n] = 10 * number[n - 1] + Digits[str[n]]
    BY <2>6
  <2> DEFINE T == {n \in Nat : n <= N => number[n] \in Nat}
  <2>8. 0 \in T
    BY <2>7
  <2>9. ASSUME NEW n \in Nat, n \in T PROVE n + 1 \in T
    <3> SUFFICES ASSUME n + 1 <= N PROVE number[n + 1] \in Nat
      OBVIOUS
    <3>1. n + 1 \in 1 .. N /\ n + 1 - 1 = n /\ n <= N
      OBVIOUS
    <3>2. number[n] \in Nat /\ number[n + 1] = 10 * number[n] + Digits[str[n + 1]]
      BY <2>7, <2>9, <3>1
    <3> QED
      BY <2>1, <3>1, <3>2
  <2> HIDE DEF T
  <2>10. N \in T
    BY <2>8, <2>9, Induction
  <2>11. number[N] \in Nat
    BY <2>10 DEF T
  <2>12. parseUInt(str) = IF str # <<>> THEN (IF number[N] > 0 THEN number[N] ELSE -1) ELSE -1
    BY <1>1 DEF parseUInt, number
  <2> QED
    BY <2>11, <2>12
<1>2. CASE ~(ToSet(str) \subseteq DOMAIN Digits)
  BY <1>2 DEF parseUInt
<1> QED
  BY <1>1, <1>2

\* What the interval becomes fits its byte.
LEMMA IntervalFits ==
    ASSUME NEW str, Len(str) \in Nat, DOMAIN str = 1 .. Len(str), NEW old \in 0 .. IntervalWidth - 1
    PROVE  Interval(old, str) \in 0 .. IntervalWidth - 1
<1>1. parseUInt(str) \in Int
  BY NumberTyped
<1>2. \A n \in Int, w \in Nat \ {0} : n % w \in 0 .. w - 1
  OBVIOUS
<1> QED
  BY <1>1, <1>2, ConfigAssumption DEF Interval

\* Feeds are numbered from the list's end.
Numbered(feeds) == /\ \E S : feeds \in Seq(S)
                   /\ \A i \in DOMAIN feeds : feeds[i].id = Len(feeds) - i

LEMMA OneFeedMore ==
    ASSUME NEW feeds, Numbered(feeds), NEW url, NEW cookies
    PROVE  Numbered(WithFeed(feeds, url, cookies))
<1> PICK S : feeds \in Seq(S)
  BY DEF Numbered
<1> PICK feed : feed = [id |-> Len(feeds), url |-> url,
                        cookies |-> IF cookies = NULL THEN CookiesInURL(url) ELSE cookies]
  OBVIOUS
<1> PICK more, T : more = <<feed>> \o feeds /\ T = S \cup {feed}
  OBVIOUS
<1>1. feeds \in Seq(T) /\ <<feed>> \in Seq(T)
  OBVIOUS
<1>2. more \in Seq(T) /\ Len(more) = Len(feeds) + 1 /\ more[1] = feed
      /\ \A i \in 2 .. Len(more) : more[i] = feeds[i - 1]
  BY <1>1
<1>3. feed.id = Len(feeds) /\ Len(feeds) \in Nat
  OBVIOUS
<1>4. ASSUME NEW i \in DOMAIN more PROVE more[i].id = Len(more) - i
  <2>1. i \in 1 .. Len(more)
    BY <1>2
  <2>2. CASE i = 1
    BY <1>2, <1>3, <2>2
  <2>3. CASE i # 1
    <3>1. i \in 2 .. Len(more) /\ i - 1 \in DOMAIN feeds
      BY <1>2, <2>1, <2>3
    <3>2. more[i].id = Len(feeds) - (i - 1)
      BY <1>2, <3>1 DEF Numbered
    <3> QED
      BY <1>2, <1>3, <2>1, <3>2
  <2> QED
    BY <2>2, <2>3
<1>5. WithFeed(feeds, url, cookies) = more
  BY DEF WithFeed
<1> QED
  BY <1>2, <1>4, <1>5 DEF Numbered

\* The fields of auto_handle whose values have bounds.
SessionTyped(s) == /\ {"feeds", "check_interval"} \subseteq DOMAIN s
                   /\ s.check_interval \in 0 .. IntervalWidth - 1
                   /\ Numbered(s.feeds)

ConfigPlace ==
    /\ text \in Seq(STRING) /\ garbage \in Garbage
    /\ pc \in {"line", "comment", "option", "equals", "value", "set", "parts", "returned", "crashed"}
    /\ line_pos \in 0 .. Size + 2
    /\ pc \in {"comment", "option"} => line_pos < Size
    /\ pc = "equals" => line_pos <= Size + 1
    /\ pc = "value" => line_pos <= Size

ConfigFails == parse_error \in BOOLEAN /\ (parse_error /\ text # <<>> => pc \in {"returned", "crashed"})

ConfigBuffers ==
    /\ Len(opt) \in Nat /\ (Len(opt) >= MAX_OPT_LEN => pc \in {"returned", "crashed"})
    /\ Len(param) \in Nat /\ Len(param) <= MAX_PARAM_LEN /\ DOMAIN param = 1 .. Len(param)

ConfigInv == ConfigPlace /\ ConfigFails /\ ConfigBuffers /\ SessionTyped(session)

LEMMA SizeIs == ConfigPlace => Size \in Nat /\ (text # <<>> \/ Size = 0)
BY DEF ConfigPlace, Size

LEMMA ConfigInit == Init => ConfigInv
<1> SUFFICES ASSUME Init PROVE ConfigInv
  OBVIOUS
<1>1. text \in Seq(STRING)
  BY ContentsTyped DEF Init
<1>2. ConfigPlace
  BY <1>1 DEF Init, ConfigPlace, Size
<1>3. ConfigBuffers
  BY ConfigAssumption DEF Init, ConfigBuffers
<1>5. ConfigFails
  BY Zenon DEF Init, ConfigFails
<1>4. SessionTyped(session)
  <2>1. session.feeds = <<>> /\ session.check_interval = AM_DEFAULT_INTERVAL
        /\ {"feeds", "check_interval"} \subseteq DOMAIN session
    BY DEF Init, session_init
  <2>2. Numbered(<<>>)
    BY DEF Numbered
  <2> QED
    BY <2>1, <2>2, ConfigAssumption DEF SessionTyped
<1> QED
  BY <1>2, <1>3, <1>4, <1>5 DEF ConfigInv

Failed == parse_error' = TRUE /\ pc' \in {"returned", "crashed"}

\* A step of the reader leaves the session alone, and the text it reads.
LEMMA ReaderOnly ==
    ASSUME ConfigInv, pc \notin {"returned", "crashed"}, UNCHANGED <<text, setting>>,
           Failed \/ UNCHANGED parse_error,
           ConfigPlace', ConfigBuffers'
    PROVE  ConfigInv'
<1>1. ConfigFails'
  <2>1. text' = text /\ pc \notin {"returned", "crashed"}
    OBVIOUS
  <2>2. CASE Failed
    <3>1. parse_error' = TRUE /\ pc' \in {"returned", "crashed"}
      BY <2>2, Zenon DEF Failed
    <3>2. TRUE \in BOOLEAN
      OBVIOUS
    <3> QED
      BY <3>1, <3>2, Zenon DEF ConfigFails
  <2>3. CASE UNCHANGED parse_error
    <3>1. parse_error' = parse_error
      BY <2>3
    <3> QED
      BY <2>1, <3>1, Zenon DEF ConfigInv, ConfigFails
  <2> QED
    BY <2>2, <2>3
<1>2. SessionTyped(session)'
  BY DEF ConfigInv, setting, SessionTyped, Numbered
<1> QED
  BY <1>1, <1>2 DEF ConfigInv

LEMMA BeginLineStep == ConfigInv /\ BeginLine => ConfigInv'
<1> SUFFICES ASSUME ConfigInv, BeginLine PROVE ConfigInv'
  OBVIOUS
<1> PICK p : p = Skipped(line_pos)
  OBVIOUS
<1>1. p \in Nat /\ line_pos <= p /\ (p < Size \/ p = Size \/ p = line_pos) /\ Size \in Nat
  BY SkippedIs, SizeIs DEF ConfigInv, ConfigPlace
<1>2. text' = text /\ garbage' = garbage /\ Size' = Size /\ UNCHANGED <<opt, param, setting>>
      /\ pc \notin {"returned", "crashed"} /\ (Failed \/ UNCHANGED parse_error)
  BY DEF BeginLine, input, Size, Return, reader
<1>3. \/ pc' = "returned" /\ line_pos' = line_pos
      \/ pc' \in {"comment", "option"} /\ line_pos' = p /\ p < Size /\ pc = "line"
  BY <1>1 DEF BeginLine, Return, reader, Goto
<1>4. ConfigPlace'
  BY <1>1, <1>2, <1>3 DEF ConfigInv, ConfigPlace
<1>5. ConfigBuffers'
  BY <1>2 DEF ConfigInv, ConfigBuffers
<1> QED
  BY <1>1, <1>2, <1>4, <1>5, ReaderOnly

LEMMA SkipCommentStep == ConfigInv /\ SkipComment => ConfigInv'
<1> SUFFICES ASSUME ConfigInv, SkipComment PROVE ConfigInv'
  OBVIOUS
<1> PICK p, stops : stops = {q \in line_pos .. Size : At(q) = Newline} /\ p = FirstOf(stops, Size + 1)
  OBVIOUS
<1>1. Size \in Nat /\ line_pos \in Nat
  BY SizeIs DEF ConfigInv, ConfigPlace
<1>2. p \in Nat /\ p <= Size + 1
  <2>1. p \in stops \cup {Size + 1}
    BY <1>1, FirstOfIs
  <2> QED
    BY <1>1, <2>1
<1>3. text' = text /\ garbage' = garbage /\ Size' = Size /\ UNCHANGED <<opt, param, setting>>
      /\ pc \notin {"returned", "crashed"} /\ (Failed \/ UNCHANGED parse_error)
  BY DEF SkipComment, input, Size
<1>4. /\ pc = "comment"
      /\ \/ pc' = "line" /\ line_pos' = p + 1
         \/ pc' = "crashed" /\ line_pos' = p
  BY DEF SkipComment, Goto
<1>5. ConfigPlace'
  BY <1>1, <1>2, <1>3, <1>4 DEF ConfigInv, ConfigPlace
<1>6. ConfigBuffers'
  BY <1>3 DEF ConfigInv, ConfigBuffers
<1> QED
  BY <1>1, <1>3, <1>4, <1>5, <1>6, ReaderOnly

LEMMA ReadOptionStep == ConfigInv /\ ReadOption => ConfigInv'
<1> SUFFICES ASSUME ConfigInv, ReadOption PROVE ConfigInv'
  OBVIOUS
<1> PICK p, stops :
      /\ stops = {q \in line_pos .. Size : ~isprint(At(q)) \/ At(q) \in {Space, "#", "="}}
      /\ p = FirstOf(stops, Size + 1)
  OBVIOUS
<1>1. Size \in Nat /\ line_pos \in Nat /\ pc = "option" /\ line_pos < Size
  BY SizeIs DEF ConfigInv, ConfigPlace, ReadOption
<1>2. p \in Nat /\ line_pos <= p /\ p <= Size + 1
  <2>1. stops \in SUBSET Nat
    BY <1>1
  <2>2. p \in stops \cup {Size + 1}
    BY <2>1, FirstOfIs
  <2> QED
    BY <1>1, <2>2
<1>3. text' = text /\ garbage' = garbage /\ Size' = Size /\ UNCHANGED <<param, setting>>
  BY DEF ReadOption, input, Size
<1>4. /\ opt' = Between(line_pos, p)
      /\ IF p - line_pos = 0 \/ p - line_pos >= MAX_OPT_LEN
         THEN /\ parse_error' = TRUE /\ UNCHANGED line_pos
              /\ pc' = "returned" \/ (p - line_pos > MAX_OPT_LEN + 1 /\ pc' = "crashed")
         ELSE Goto("equals", p) /\ UNCHANGED parse_error
  BY Zenon DEF ReadOption
<1>5. \/ Failed /\ UNCHANGED line_pos
      \/ /\ pc' = "equals" /\ line_pos' = p /\ ~(p - line_pos >= MAX_OPT_LEN)
         /\ UNCHANGED parse_error
  BY <1>4, Zenon DEF Goto, Failed
<1>6. pc' \in {"returned", "crashed"} \/ pc' = "equals"
  BY <1>5, Zenon DEF Failed
<1>7. Failed \/ UNCHANGED parse_error
  BY <1>5, Zenon
<1>8. line_pos' = line_pos \/ line_pos' = p
  BY <1>5, Zenon
<1>9. p - line_pos >= MAX_OPT_LEN => pc' \in {"returned", "crashed"}
  BY <1>5, Zenon DEF Failed
<1>10. ConfigPlace'
  BY <1>1, <1>2, <1>3, <1>6, <1>8 DEF ConfigInv, ConfigPlace
<1>11. ConfigBuffers'
  <2>1. p - line_pos \in Nat
    BY <1>1, <1>2
  <2>2. Len(Between(line_pos, p)) = p - line_pos
    BY ONLY <1>1, <1>2, BetweenIs
  <2> QED
    BY <1>3, <1>4, <1>9, <2>1, <2>2 DEF ConfigInv, ConfigBuffers
<1> QED
  BY <1>1, <1>3, <1>7, <1>10, <1>11, ReaderOnly

LEMMA ReadEqualsStep == ConfigInv /\ ReadEquals => ConfigInv'
<1> SUFFICES ASSUME ConfigInv, ReadEquals PROVE ConfigInv'
  OBVIOUS
<1> PICK p : p = Skipped(line_pos)
  OBVIOUS
<1>1. p \in Nat /\ Size \in Nat /\ pc = "equals"
  BY SkippedIs, SizeIs DEF ConfigInv, ConfigPlace, ReadEquals
<1>2. text' = text /\ garbage' = garbage /\ Size' = Size /\ UNCHANGED <<opt, param, setting>>
      /\ (Failed \/ UNCHANGED parse_error)
  BY DEF ReadEquals, input, Size, Return, Fail, Failed, reader
<1>3. \/ pc' = "returned" /\ line_pos' = line_pos
      \/ pc' = "value" /\ line_pos' = p + 1 /\ p < Size
  BY <1>1 DEF ReadEquals, Return, Fail, reader, Goto
<1>4. ConfigPlace'
  BY <1>1, <1>2, <1>3 DEF ConfigInv, ConfigPlace
<1>5. ConfigBuffers'
  BY <1>1, <1>2 DEF ConfigInv, ConfigBuffers
<1> QED
  BY <1>1, <1>2, <1>4, <1>5, ReaderOnly

\* A parameter, quoted, in braces or plain, is never longer than its buffer.
ParamRead == \E b, q \in Nat :
    /\ b <= q /\ q - b <= MAX_PARAM_LEN /\ param' = Between(b, q)
    /\ pc' = "set" /\ line_pos' \in 0 .. Size + 1
    /\ UNCHANGED <<opt, parse_error>>

LEMMA ClosedIs ==
    ASSUME ConfigInv, NEW p \in Nat, p <= Size, NEW closing, NEW breaks, Closed(p, closing, breaks)
    PROVE  Fail \/ ParamRead
<1> PICK limit : limit = IF p + MAX_PARAM_LEN <= Size THEN p + MAX_PARAM_LEN ELSE Size
  OBVIOUS
<1>1. Size \in Nat /\ MAX_PARAM_LEN \in Nat
  BY SizeIs, ConfigAssumption DEF ConfigInv
<1>2. limit \in Nat /\ p <= limit /\ limit <= Size /\ limit <= p + MAX_PARAM_LEN
  BY <1>1
<1>3. Min({p + MAX_PARAM_LEN, Size}) = limit
  BY <1>1 DEF Min
<1> PICK q, stops : stops = {r \in p .. limit - 1 : At(r) \in {closing} \cup breaks} /\ q = FirstOf(stops, limit)
  OBVIOUS
<1>4. q \in Nat /\ p <= q /\ q <= limit
  <2>1. stops \in SUBSET Nat
    BY <1>2
  <2>2. q \in stops \cup {limit}
    BY <2>1, FirstOfIs
  <2> QED
    BY <1>2, <2>2
<1>5. q - p <= MAX_PARAM_LEN /\ q + 1 \in 0 .. Size + 1
  BY <1>1, <1>2, <1>4
<1>6. Fail \/ (Goto("set", q + 1) /\ param' = Between(p, q) /\ UNCHANGED <<opt, parse_error>>)
  BY <1>3 DEF Closed
<1> QED
  BY <1>4, <1>5, <1>6, Zenon DEF Goto, ParamRead

LEMMA ReadPlainIs ==
    ASSUME ConfigInv, NEW p \in Nat, p < Size, ReadPlain(p)
    PROVE  Fail \/ ParamRead
<1> DEFINE stops == {r \in p .. Size : ~isprint(At(r)) \/ At(r) \in {Space, "#"}}
           q == FirstOf(stops, Size + 1)
<1>1. IF q - p >= MAX_PARAM_LEN
      THEN Fail
      ELSE Goto("set", q) /\ param' = Between(p, q) /\ UNCHANGED <<opt, parse_error>>
  BY Zenon DEF ReadPlain
<1>2. Size \in Nat /\ MAX_PARAM_LEN \in Nat
  BY SizeIs, ConfigAssumption DEF ConfigInv
<1>3. stops \in SUBSET Nat
  BY <1>2
<1> HIDE DEF stops
<1>4. q \in Nat /\ p <= q /\ q \in 0 .. Size + 1
  <2>1. q \in stops \cup {Size + 1}
    BY <1>3, FirstOfIs
  <2> QED
    BY <1>2, <2>1 DEF stops
<1> HIDE DEF q
<1>5. CASE q - p >= MAX_PARAM_LEN
  BY <1>1, <1>5, Zenon
<1>6. CASE ~(q - p >= MAX_PARAM_LEN)
  <2>1. q - p <= MAX_PARAM_LEN
    BY <1>2, <1>4, <1>6
  <2> QED
    BY <1>1, <1>4, <1>6, <2>1, Zenon DEF Goto, ParamRead
<1> QED
  BY <1>5, <1>6

LEMMA ReadParamStep == ConfigInv /\ ReadParam => ConfigInv'
<1> SUFFICES ASSUME ConfigInv, ReadParam PROVE ConfigInv'
  OBVIOUS
<1> PICK p : p = Skipped(line_pos)
  OBVIOUS
<1>1. p \in Nat /\ Size \in Nat /\ pc = "value"
  BY SkippedIs, SizeIs DEF ConfigInv, ConfigPlace, ReadParam
<1>2. text' = text /\ garbage' = garbage /\ Size' = Size /\ UNCHANGED setting
  BY Zenon DEF ReadParam, input, Size
<1>3. Return \/ Fail \/ ParamRead
  <2>1. CASE p >= Size
    BY <2>1, Zenon DEF ReadParam
  <2>2. CASE ~(p >= Size)
    <3>1. p < Size /\ p + 1 \in Nat /\ p + 1 <= Size
      BY <1>1, <2>2
    <3>2. ReadQuoted(p) \/ ReadBraced(p) \/ ReadPlain(p)
      BY <2>2, Zenon DEF ReadParam
    <3>3. \/ Closed(p + 1, At(p), {Newline}) \/ Closed(p + 1, "}", {}) \/ ReadPlain(p)
      BY <3>2, Zenon DEF ReadQuoted, ReadBraced
    <3> QED
      BY <1>1, <3>1, <3>3, ClosedIs, ReadPlainIs, Zenon
  <2> QED
    BY <2>1, <2>2
<1>4. CASE Return \/ Fail
  <2>1. UNCHANGED <<line_pos, opt, param>> /\ pc' = "returned" /\ (Failed \/ UNCHANGED parse_error)
    BY <1>4 DEF Return, Fail, Failed, reader
  <2>2. ConfigPlace' /\ ConfigBuffers'
    BY <1>1, <1>2, <2>1 DEF ConfigInv, ConfigPlace, ConfigBuffers
  <2> QED
    BY <1>1, <1>2, <2>1, <2>2, ReaderOnly
<1>5. CASE ParamRead
  <2> PICK b \in Nat, q \in Nat :
         /\ b <= q /\ q - b <= MAX_PARAM_LEN /\ param' = Between(b, q)
         /\ pc' = "set" /\ line_pos' \in 0 .. Size + 1 /\ UNCHANGED <<opt, parse_error>>
    BY <1>5 DEF ParamRead
  <2>1. ConfigPlace'
    BY <1>1, <1>2 DEF ConfigInv, ConfigPlace
  <2>2. Len(Between(b, q)) = q - b /\ DOMAIN Between(b, q) = 1 .. q - b
    BY ONLY b \in Nat, q \in Nat, b <= q, BetweenIs
  <2>3. ConfigBuffers'
    BY <1>1, <2>2 DEF ConfigInv, ConfigBuffers
  <2> QED
    BY <1>1, <1>2, <2>1, <2>3, ReaderOnly
<1> QED
  BY <1>3, <1>4, <1>5

\* A step of set_option() leaves the reader where it is.
LEMMA SettingOnly ==
    ASSUME ConfigInv, pc \in {"set", "parts"}, pc' \in {"line", "parts", "crashed"},
           UNCHANGED <<input, reader>>, SessionTyped(session')
    PROVE  ConfigInv'
<1>1. /\ text' = text /\ garbage' = garbage /\ line_pos' = line_pos /\ parse_error' = parse_error
      /\ opt' = opt /\ param' = param /\ Size' = Size
  BY DEF input, reader, Size
<1>2. ConfigPlace' /\ ConfigBuffers'
  BY <1>1 DEF ConfigInv, ConfigPlace, ConfigBuffers
<1>3. ConfigFails'
  <2>1. pc \notin {"returned", "crashed"}
    OBVIOUS
  <2> QED
    BY <1>1, <2>1, Zenon DEF ConfigInv, ConfigFails
<1>4. SessionTyped(session)'
  BY Zenon DEF SessionTyped, Numbered
<1> QED
  BY <1>2, <1>3, <1>4 DEF ConfigInv

\* Another field, or the lists with one element more.
LEMMA OtherField ==
    ASSUME NEW s, SessionTyped(s), NEW f, f \notin {"feeds", "check_interval"}, NEW v
    PROVE  SessionTyped([s EXCEPT ![f] = v])
<1> PICK t : t = [s EXCEPT ![f] = v]
  OBVIOUS
<1>1. DOMAIN t = DOMAIN s /\ t.feeds = s.feeds /\ t.check_interval = s.check_interval
  BY DEF SessionTyped
<1> QED
  BY <1>1, Zenon DEF SessionTyped

LEMMA SetOptionIs ==
    ASSUME ConfigInv, NEW s, SessionTyped(s)
    PROVE  SessionTyped(set_option(s))
<1>1. CASE opt = <<"interval">>
  <2> PICK t : t = [s EXCEPT !.check_interval = Interval(@, param)]
    OBVIOUS
  <2>1. /\ DOMAIN t = DOMAIN s /\ t.feeds = s.feeds
        /\ t.check_interval = Interval(s.check_interval, param)
    BY DEF SessionTyped
  <2>2. s.check_interval \in 0 .. IntervalWidth - 1
    BY DEF SessionTyped
  <2>3. t.check_interval \in 0 .. IntervalWidth - 1
    BY <2>1, <2>2, IntervalFits DEF ConfigInv, ConfigBuffers
  <2>4. SessionTyped(t)
    BY <2>1, <2>3, Zenon DEF SessionTyped
  <2>5. set_option(s) = t
    BY <1>1 DEF set_option
  <2> QED
    BY <2>4, <2>5
<1>2. CASE opt # <<"interval">>
  <2>1. set_option(s) \in {s, [s EXCEPT !["download_folder"] = Path(@, param)],
                          [s EXCEPT !["statefile"] = Path(@, param)],
                          [s EXCEPT !["prowl_key"] = OrNull(param)],
                          [s EXCEPT !["download_done_script"] = OrNull(param)]}
    BY <1>2 DEF set_option
  <2> QED
    BY <2>1, OtherField
<1> QED
  BY <1>1, <1>2

LEMMA SetOptionStep == ConfigInv /\ SetOption => ConfigInv'
<1> SUFFICES ASSUME ConfigInv, SetOption PROVE ConfigInv'
  OBVIOUS
<1>1. pc = "set" /\ pc' \in {"line", "parts", "crashed"} /\ UNCHANGED <<input, reader>>
      /\ session' \in {session, set_option(session)}
  BY DEF SetOption, SetParameter
<1> QED
  BY <1>1, SetOptionIs, SettingOnly DEF ConfigInv

LEMMA FeedAdded ==
    ASSUME NEW s, SessionTyped(s), NEW url, NEW cookies
    PROVE  SessionTyped([s EXCEPT !.feeds = WithFeed(@, url, cookies)])
<1> PICK t : t = [s EXCEPT !.feeds = WithFeed(@, url, cookies)]
  OBVIOUS
<1>1. /\ DOMAIN t = DOMAIN s /\ t.feeds = WithFeed(s.feeds, url, cookies)
      /\ t.check_interval = s.check_interval
  BY DEF SessionTyped
<1>2. Numbered(t.feeds)
  BY <1>1, OneFeedMore DEF SessionTyped
<1> QED
  BY <1>1, <1>2, Zenon DEF SessionTyped

LEMMA ListPartStep == ConfigInv /\ ListPart => ConfigInv'
<1> SUFFICES ASSUME ConfigInv, ListPart PROVE ConfigInv'
  OBVIOUS
<1>1. pc = "parts" /\ pc' = pc /\ UNCHANGED <<input, reader>>
  BY DEF ListPart
<1>2. \/ session' = [session EXCEPT !.feeds = WithFeed(@, Head(parts), NULL)]
      \/ session' = [session EXCEPT !["filters"] = WithFilter(@, Head(parts), NULL)]
  BY DEF ListPart
<1> QED
  BY <1>1, <1>2, FeedAdded, OtherField, SettingOnly DEF ConfigInv

LEMMA EntryPartStep == ConfigInv /\ EntryPart => ConfigInv'
<1> SUFFICES ASSUME ConfigInv, EntryPart PROVE ConfigInv'
  OBVIOUS
<1>1. pc = "parts" /\ pc' \in {"parts", "crashed"} /\ UNCHANGED <<input, reader>> /\ session' = session
  BY DEF EntryPart
<1> QED
  BY <1>1, SettingOnly DEF ConfigInv

LEMMA EndPartsStep == ConfigInv /\ EndParts => ConfigInv'
<1> SUFFICES ASSUME ConfigInv, EndParts PROVE ConfigInv'
  OBVIOUS
<1>1. pc = "parts" /\ pc' = "line" /\ UNCHANGED <<input, reader>>
  BY DEF EndParts
<1>2. \/ session' = session
      \/ session' = [session EXCEPT !.feeds = WithFeed(@, entry.value, entry.extra)]
      \/ session' = [session EXCEPT !["filters"] = WithFilter(@, entry.value, entry.extra)]
  BY DEF EndParts
<1> QED
  BY <1>1, <1>2, FeedAdded, OtherField, SettingOnly DEF ConfigInv

LEMMA ConfigStepKeeps == ConfigInv /\ [Next]_vars => ConfigInv'
<1> SUFFICES ASSUME ConfigInv, [Next]_vars PROVE ConfigInv'
  OBVIOUS
<1>1. CASE UNCHANGED vars
  BY <1>1 DEF vars, input, reader, setting, ConfigInv, ConfigPlace, ConfigFails, ConfigBuffers,
              SessionTyped, Numbered, Size
<1> QED
  BY <1>1, BeginLineStep, SkipCommentStep, ReadOptionStep, ReadEqualsStep, ReadParamStep,
     SetOptionStep, ListPartStep, EntryPartStep, EndPartsStep DEF Next

LEMMA ConfigTyped == ConfigInv => TypeOK
BY DEF ConfigInv, ConfigPlace, ConfigFails, ConfigBuffers, SessionTyped, Numbered, TypeOK

-----------------------------------------------------------------------------
(* All readers.                                                            *)

\* The invariant of readFile() holds of every file.
LEMMA XmlInductive == InputsSpec => [](input_kind = "xml" => XmlInv)
<1> DEFINE Inv == input_kind = "xml" => XmlInv
<1>1. InputsInit => Inv
  BY XmlInit DEF InputsInit
<1>2. Inv /\ [InputsNext]_allVars => Inv'
  <2> SUFFICES ASSUME Inv, [InputsNext]_allVars, input_kind' = "xml" PROVE XmlInv'
    OBVIOUS
  <2>1. input_kind = "xml" /\ [Xml!Next]_xmlVars
    BY DEF InputsNext, ConfigStep, FeedStep, StateStep, XmlStep, allVars
  <2> QED
    BY <2>1, XmlStepKeeps
<1> QED
  BY <1>1, <1>2, PTL DEF InputsSpec

\* readFile(), whatever the other readers would do: the block that is parsed is closed, and holds
\* the file as it was measured unless it became shorter before fread() came to it.
THEOREM FileReadWhole == InputsSpec => []XmlReadWhole
<1>1. (input_kind = "xml" => XmlInv) => XmlReadWhole
  BY DEF XmlInv, XmlReadWhole
<1> QED
  BY <1>1, XmlInductive, PTL

\* The parser's invariant holds of every document.
LEMMA FeedInductive == InputsSpec => [](input_kind = "feed" => FeedInv)
<1> DEFINE Inv == input_kind = "feed" => FeedInv
<1>1. InputsInit => Inv
  BY FeedInit DEF InputsInit
<1>2. Inv /\ [InputsNext]_allVars => Inv'
  <2> SUFFICES ASSUME Inv, [InputsNext]_allVars, input_kind' = "feed" PROVE FeedInv'
    OBVIOUS
  <2>1. input_kind = "feed" /\ [Parser!Next]_feedVars
    BY DEF InputsNext, ConfigStep, FeedStep, StateStep, XmlStep, allVars
  <2> QED
    BY <2>1, FeedStepKeeps
<1> QED
  BY <1>1, <1>2, PTL DEF InputsSpec

\* extract_feed_items(), for every document: the caller gets exactly the items with a title and
\* something to download, the last one first, with all their urls, and the count of all nodes.
THEOREM FeedListsItems == InputsSpec => []ItemsAsListed
<1>1. (input_kind = "feed" => FeedInv) => ItemsAsListed
  <2> SUFFICES ASSUME FeedInv, parser_pc = "done", doc # None
               PROVE  rss_items = Parser!Reverse(Parser!ItemsOf(doc)) /\ item_count = Len(doc)
    BY DEF ItemsAsListed, Parser!ItemsAsListed
  <2>1. todo = <<>> /\ doc \in Seq(Seq(Parser!Child)) /\ item_count = Len(doc)
    BY ParserAssumption DEF FeedInv, FeedPlace, Parser!DocumentsAssumption
  <2>2. Done(todo, doc) = doc
    BY <2>1, RestNone
  <2> QED
    BY <2>1, <2>2, SameReverse DEF FeedInv, FeedRead
<1> QED
  BY <1>1, FeedInductive, PTL

\* parse_xmldata() and the frees of feed_item.c, for every document: at the end there is no block
\* that the list does not own, but for a document that sets a field twice.
THEOREM FeedLeaksNothing == InputsSpec => []NothingLeaks
<1>1. (input_kind = "feed" => FeedInv) => NothingLeaks
  <2> SUFFICES ASSUME FeedInv, parser_pc = "done", Clean
               PROVE  blocks = Parser!ListBlocks(rss_items)
    BY DEF NothingLeaks, Parser!NothingLeaks, Clean
  <2>1. CASE doc = None
    BY <2>1, ListBlocksNone DEF FeedInv, FeedRead, FeedBlocks
  <2>2. CASE doc # None
    BY <2>2 DEF FeedInv, FeedBlocks, Accounts
  <2> QED
    BY <2>1, <2>2
<1> QED
  BY <1>1, FeedInductive, PTL

\* The history's invariant holds of every sequence of saves, kills and restarts.
LEMMA HistoryInductive == InputsSpec => []HistoryInv
<1>1. InputsInit => HistoryInv
  BY HistoryInit DEF InputsInit, StateRests
<1>2. HistoryInv /\ [InputsNext]_allVars => HistoryInv'
  <2> SUFFICES ASSUME HistoryInv, [InputsNext]_allVars PROVE HistoryInv'
    OBVIOUS
  <2>1. [History!Next]_stateVars
    BY DEF InputsNext, ConfigStep, FeedStep, StateStep, XmlStep, allVars
  <2> QED
    BY <2>1, HistoryStepKeeps
<1> QED
  BY <1>1, <1>2, PTL DEF InputsSpec

\* save_state() and load_state(), for every history of saves, kills and restarts: the entries that
\* fit the line buffer come back in their order, and what one restart made of a file stays.
THEOREM RestartsSettle == InputsSpec => []RestartSettles
<1>1. HistoryInv => RestartSettles
  <2> SUFFICES ASSUME HistoryInv
               PROVE  History!FittingSurvive /\ History!SettledAfterRestart
    BY DEF RestartSettles
  <2>1. downloads \in Seq(Entry) /\ statefile \in Seq(EntryLine)
    BY DEF HistoryInv
  <2>2. History!FittingSurvive
    <3> PICK list, back : list = downloads /\ back = History!Loaded(History!Printed(downloads))
      OBVIOUS
    <3>1. list \in Seq(Entry) /\ back = Spread(list, BackOf)
      BY <2>1, BackIs
    <3>2. Spread(Spread(list, BackOf), FittingOf) = Spread(list, FittingOf)
      BY ONLY <3>1, FittingBack, SpreadsTyped, SpreadTwice
    <3>3. back \in Seq(Entry)
      BY ONLY <3>1, SpreadsTyped, SpreadTyped
    <3> QED
      BY <3>1, <3>2, <3>3, FittingIs DEF History!FittingSurvive
  <2>3. History!SettledAfterRestart
    <3> PICK list : list = History!Loaded(statefile)
      OBVIOUS
    <3>1. Entire \subseteq Entry
      BY DEF Entire
    <3>2. list \in Seq(Entire)
      BY <2>1, LoadedIs
    <3>3. list \in Seq(Entry)
      BY ONLY <3>1, <3>2
    <3>4. \A t \in Entire : BackOf[t] = <<t>>
      BY <3>1, EntireIsBack DEF BackOf
    <3>5. Spread(list, BackOf) = list
      BY ONLY <3>1, <3>2, <3>4, SpreadsTyped, SpreadSingles
    <3> QED
      BY <3>3, <3>5, BackIs DEF History!SettledAfterRestart
  <2> QED
    BY <2>2, <2>3
<1> QED
  BY <1>1, HistoryInductive, PTL

\* A kill in the middle of save_state(), for every file and at every place: it spoils one entry of
\* those whose URL fits, and no restart adds to that.
THEOREM KillsSpoilOne == InputsSpec => []OneSpoiltPerKill
<1>1. HistoryInv => OneSpoiltPerKill
  <2> SUFFICES ASSUME HistoryInv PROVE History!OneSpoiltPerKill
    BY DEF OneSpoiltPerKill
  <2> PICK list, P : list = downloads /\ P = {t \in Entry : History!Spoilt(t)}
    OBVIOUS
  <2>1. list \in Seq(Entry) /\ Len(Spread(list, SpoiltOf)) <= kills
    BY DEF HistoryInv
  <2>2. \A t \in Entry : SpoiltOf[t] = IF t \in P THEN <<t>> ELSE <<>>
    BY DEF SpoiltOf
  <2>3. Cardinality(Places(list, P)) = Len(Spread(list, SpoiltOf))
    BY ONLY <2>1, <2>2, SpreadsTyped, ChosenSize
  <2>4. \A i \in DOMAIN list : list[i] \in P <=> History!Spoilt(list[i])
    BY <2>1
  <2>5. {i \in DOMAIN list : History!Spoilt(list[i])} = Places(list, P)
    BY <2>4 DEF Places
  <2> QED
    BY <2>1, <2>3, <2>5, HistorySame DEF History!OneSpoiltPerKill
<1> QED
  BY <1>1, HistoryInductive, PTL

\* The invariant of parse_config_file() holds of every file.
LEMMA ConfigInductive == InputsSpec => [](input_kind = "config" => ConfigInv)
<1> DEFINE Inv == input_kind = "config" => ConfigInv
<1>1. InputsInit => Inv
  BY ConfigInit DEF InputsInit
<1>2. Inv /\ [InputsNext]_allVars => Inv'
  <2> SUFFICES ASSUME Inv, [InputsNext]_allVars, input_kind' = "config" PROVE ConfigInv'
    OBVIOUS
  <2>1. input_kind = "config" /\ [Next]_vars
    BY DEF InputsNext, ConfigStep, FeedStep, StateStep, XmlStep, allVars
  <2> QED
    BY <2>1, ConfigStepKeeps
<1> QED
  BY <1>1, <1>2, PTL DEF InputsSpec

Kinds == {"config", "feed", "state", "xml"}

\* Every reader's variables have their types, for every file, document and history:
\* parse_config_file() writes neither beyond opt nor beyond param, stays within two characters of
\* its text, keeps the interval within its byte and numbers the feeds from the end of their list;
\* the feed parser's places are the ends of its document; only the last line lacks its newline.
THEOREM InputsTypeCorrect == InputsSpec => []TypesOK
<1> DEFINE Typed == input_kind \in Kinds /\ HistoryTyped
<1>1. InputsInit => Typed
  <2> SUFFICES ASSUME InputsInit PROVE Typed
    OBVIOUS
  <2>1. input_kind \in Kinds /\ History!Init
    BY DEF InputsInit, Kinds, StateRests
  <2>2. running = FALSE /\ kills = 0 /\ statefile = <<>> /\ 0 \in 0 .. MaxKills
    BY <2>1, HistoryAssumption DEF History!Init, History!StateFileAssumption
  <2>3. LinesEnd(<<>>)
    BY DEF LinesEnd
  <2> QED
    BY <2>1, <2>2, <2>3 DEF HistoryTyped
<1>2. HistoryInv /\ Typed /\ [InputsNext]_allVars => Typed'
  <2> SUFFICES ASSUME HistoryInv, Typed, [InputsNext]_allVars PROVE Typed'
    OBVIOUS
  <2>1. input_kind' = input_kind /\ [History!Next]_stateVars
    BY DEF InputsNext, ConfigStep, FeedStep, StateStep, XmlStep, allVars
  <2> QED
    BY <2>1, HistoryTypedKept
<1>3. /\ Typed /\ HistoryInv
      /\ (input_kind = "config" => ConfigInv) /\ (input_kind = "feed" => FeedInv)
      /\ (input_kind = "xml" => XmlInv)
      => TypesOK
  <2> SUFFICES ASSUME Typed, HistoryInv, input_kind = "config" => ConfigInv,
                      input_kind = "feed" => FeedInv, input_kind = "xml" => XmlInv
               PROVE  TypesOK
    OBVIOUS
  <2>1. input_kind = "config" => TypeOK
    BY ConfigTyped
  <2>2. input_kind = "feed" => Parser!TypeOK
    BY FeedTyped
  <2>3. History!TypeOK
    BY StateTyped
  <2>4. input_kind = "xml" => Xml!TypeOK
    BY DEF XmlInv
  <2> QED
    BY <2>1, <2>2, <2>3, <2>4 DEF TypesOK, Kinds
<1> QED
  BY <1>1, <1>2, <1>3, ConfigInductive, FeedInductive, HistoryInductive, XmlInductive, PTL DEF InputsSpec
-----------------------------------------------------------------------------
(* config_parser.c: what is written in the lines.                           *)

\* A loop over a sequence, whose steps stay in V.
LEMMA FoldTyped ==
    ASSUME NEW V, NEW n \in Nat, NEW step \in [(1 .. n) \X V -> V], NEW f, f[0] \in V,
           \A i \in 1 .. n : f[i - 1] \in V => f[i] = step[<<i, f[i - 1]>>]
    PROVE  f[n] \in V
<1> DEFINE Typed == {i \in Nat : i <= n => f[i] \in V}
<1>1. 0 \in Typed
  OBVIOUS
<1>2. ASSUME NEW i \in Nat, i \in Typed PROVE i + 1 \in Typed
  <2> SUFFICES ASSUME i + 1 <= n PROVE f[i + 1] \in V
    OBVIOUS
  <2>1. i + 1 \in 1 .. n /\ i + 1 - 1 = i /\ f[i] \in V
    BY <1>2
  <2>2. f[i + 1] = step[<<i + 1, f[i]>>]
    BY <2>1
  <2> QED
    BY <2>1, <2>2
<1> HIDE DEF Typed
<1>3. n \in Typed
  BY <1>1, <1>2, Induction
<1> QED
  BY <1>3 DEF Typed

LEMMA FoldExists ==
    ASSUME NEW V, NEW base \in V, NEW n \in Nat, NEW step \in [(1 .. n) \X V -> V]
    PROVE  \E f \in [0 .. n -> V] : Follows(f, base, step, n)
<1> DEFINE all == [x \in Nat \X V |-> IF x[1] \in 1 .. n THEN step[<<x[1], x[2]>>] ELSE base]
<1>1. all \in [Nat \X V -> V]
  OBVIOUS
<1>2. \A i \in 1 .. n, v \in V : all[<<i, v>>] = step[<<i, v>>]
  OBVIOUS
<1> HIDE DEF all
<1>3. PICK f \in [0 .. n -> V] : Follows(f, base, all, n)
  BY <1>1, Recursion
<1>4. \A i \in 1 .. n : f[i - 1] \in V
  OBVIOUS
<1> QED
  BY <1>2, <1>3, <1>4 DEF Follows

\* The characters of a file and the one between parts; the state of the loop of shorten().
Chars == STRING \cup {AM_DELIMITER}
Shortenings == [str : Seq(Chars), mode : Chars \cup {"blank", "plain"}]

LEMMA ShortenedTyped ==
    ASSUME NEW acc \in Shortenings, NEW c \in Chars
    PROVE  ShortenedBy(acc, c) \in Shortenings
<1> PICK begun : begun = IF acc.str = <<>> THEN <<>> ELSE Append(acc.str, AM_DELIMITER)
  OBVIOUS
<1>1. /\ acc.str \in Seq(Chars) /\ begun \in Seq(Chars) /\ Append(begun, c) \in Seq(Chars)
      /\ Append(acc.str, c) \in Seq(Chars)
  BY DEF Shortenings, Chars
<1>2. ShortenedBy(acc, c) \in { acc, [str |-> begun, mode |-> c], [str |-> Append(begun, c), mode |-> "plain"],
                                [acc EXCEPT !.mode = "blank"], [acc EXCEPT !.str = Append(@, c)] }
  BY DEF ShortenedBy
<1> DEFINE Shortening(s, m) == [str |-> s, mode |-> m]
<1>3. acc = Shortening(acc.str, acc.mode) /\ acc.mode \in Chars \cup {"blank", "plain"}
  BY DEF Shortenings
<1>4. \A s \in Seq(Chars), m \in Chars \cup {"blank", "plain"} : Shortening(s, m) \in Shortenings
  BY DEF Shortenings
<1>5. /\ [acc EXCEPT !.mode = "blank"] = Shortening(acc.str, "blank")
      /\ [acc EXCEPT !.str = Append(@, c)] = Shortening(Append(acc.str, c), acc.mode)
  BY <1>3
<1>6. ShortenedBy(acc, c) \in { Shortening(acc.str, acc.mode), Shortening(begun, c), Shortening(Append(begun, c), "plain"),
                                Shortening(acc.str, "blank"), Shortening(Append(acc.str, c), acc.mode) }
  BY <1>2, <1>3, <1>5
<1> HIDE DEF Shortening
<1> QED
  BY <1>1, <1>3, <1>4, <1>6

LEMMA ShortenTyped ==
    ASSUME NEW str \in Seq(Chars)
    PROVE  shorten(str) \in Seq(Chars)
<1> PICK base : base = [str |-> <<>>, mode |-> "blank"]
  OBVIOUS
<1> DEFINE n == Len(str)
           step == [x \in (1 .. n) \X Shortenings |-> ShortenedBy(x[2], str[x[1]])]
           folded == CHOOSE folded : folded = [i \in 0 .. n |-> IF i = 0 THEN base
                       ELSE [<< folded[i - 1] >> EXCEPT ![1] = ShortenedBy(@, str[i])][1]]
<1>1. base \in Shortenings /\ n \in Nat /\ \A i \in 1 .. n : str[i] \in Chars
  BY DEF Shortenings
<1>2. step \in [(1 .. n) \X Shortenings -> Shortenings]
  BY <1>1, ShortenedTyped
<1>3. \A i \in 1 .. n, v \in Shortenings : step[<<i, v>>] = ShortenedBy(v, str[i])
  OBVIOUS
<1>e. \A v, i : [<< v >> EXCEPT ![1] = ShortenedBy(@, str[i])][1] = ShortenedBy(v, str[i])
  OBVIOUS
<1>s. shorten(str) = folded[n].str
  BY Zenon DEF shorten, Folded
<1> HIDE DEF step, n, folded
<1>4. PICK f \in [0 .. n -> Shortenings] : Follows(f, base, step, n)
  BY <1>1, <1>2, FoldExists
<1>5. \A i \in 1 .. n : f[i] = ShortenedBy(f[i - 1], str[i])
  <2>1. \A i \in 1 .. n : f[i - 1] \in Shortenings
    BY <1>1
  <2> QED
    BY <1>3, <1>4, <2>1 DEF Follows
<1>6. f = [i \in 0 .. n |-> IF i = 0 THEN base ELSE [<< f[i - 1] >> EXCEPT ![1] = ShortenedBy(@, str[i])][1]]
  <2> SUFFICES ASSUME NEW i \in 0 .. n
               PROVE  f[i] = IF i = 0 THEN base ELSE [<< f[i - 1] >> EXCEPT ![1] = ShortenedBy(@, str[i])][1]
    OBVIOUS
  <2>1. i = 0 \/ i \in 1 .. n
    BY <1>1
  <2>2. f[0] = base /\ (i # 0 => f[i] = ShortenedBy(f[i - 1], str[i]))
    BY <1>4, <1>5, <2>1 DEF Follows
  <2>3. [<< f[i - 1] >> EXCEPT ![1] = ShortenedBy(@, str[i])][1] = ShortenedBy(f[i - 1], str[i])
    OBVIOUS
  <2> QED
    BY ONLY <2>2, <2>3, Zenon
<1>7. folded = [i \in 0 .. n |-> IF i = 0 THEN base ELSE [<< folded[i - 1] >> EXCEPT ![1] = ShortenedBy(@, str[i])][1]]
  BY <1>6, Zenon DEF folded
<1>8. folded[0] = base /\ \A i \in 1 .. n : folded[i] = ShortenedBy(folded[i - 1], str[i])
  BY <1>1, <1>7, <1>e
<1>9. folded[n] \in Shortenings
  <2>1. \A i \in 1 .. n : folded[i - 1] \in Shortenings => folded[i] = step[<<i, folded[i - 1]>>]
    BY <1>3, <1>8
  <2>2. n \in Nat /\ folded[0] \in Shortenings
    BY <1>1, <1>8
  <2> QED
    BY ONLY <1>2, <2>1, <2>2, FoldTyped, Zenon
<1> QED
  BY <1>s, <1>9 DEF Shortenings

LEMMA TokensTyped ==
    ASSUME NEW str \in Seq(Chars)
    PROVE  Tokens(str) \in Seq(Seq(Chars))
<1> PICK base : base = << <<>> >>
  OBVIOUS
<1> DEFINE V == {t \in Seq(Seq(Chars)) : t # <<>>}
           n == Len(str)
           step == [x \in (1 .. n) \X V |-> SplitBy(x[2], str[x[1]])]
           folded == CHOOSE folded : folded = [i \in 0 .. n |-> IF i = 0 THEN base
                       ELSE [<< folded[i - 1] >> EXCEPT ![1] = SplitBy(@, str[i])][1]]
<1>1. base \in V /\ n \in Nat /\ \A i \in 1 .. n : str[i] \in Chars
  OBVIOUS
<1>2. ASSUME NEW t \in V, NEW c \in Chars PROVE SplitBy(t, c) \in V
  <2>1. t \in Seq(Seq(Chars)) /\ t # <<>> /\ Len(t) \in 1 .. Len(t) /\ <<>> \in Seq(Chars)
    OBVIOUS
  <2>2. Last(t) \in Seq(Chars) /\ Front(t) \in Seq(Seq(Chars))
    BY <2>1 DEF Last, Front
  <2>3. Append(Last(t), c) \in Seq(Chars)
    BY <2>2
  <2>4. \A s \in Seq(Seq(Chars)), e \in Seq(Chars) : Append(s, e) \in V
    <3> SUFFICES ASSUME NEW s \in Seq(Seq(Chars)), NEW e \in Seq(Chars) PROVE Append(s, e) \in V
      OBVIOUS
    <3> HIDE DEF Chars
    <3> PICK u : u = Append(s, e)
      OBVIOUS
    <3>1. u \in Seq(Seq(Chars)) /\ Len(u) = Len(s) + 1 /\ Len(s) \in Nat
      BY AppendProperties
    <3>2. u # <<>>
      BY ONLY <3>1
    <3> QED
      BY <3>1, <3>2
  <2> HIDE DEF V
  <2> QED
    BY <2>1, <2>2, <2>3, <2>4 DEF SplitBy
<1>3. step \in [(1 .. n) \X V -> V]
  <2> HIDE DEF V
  <2> QED
    BY <1>1, <1>2
<1>4. \A i \in 1 .. n, v \in V : step[<<i, v>>] = SplitBy(v, str[i])
  <2> HIDE DEF V
  <2> QED
    OBVIOUS
<1>e. \A v, i : [<< v >> EXCEPT ![1] = SplitBy(@, str[i])][1] = SplitBy(v, str[i])
  OBVIOUS
<1>5. Tokens(str) = FlattenSeq([i \in DOMAIN folded[n] |-> IF folded[n][i] = <<>> THEN <<>> ELSE << folded[n][i] >>])
  BY DEF Tokens, Folded
<1> HIDE DEF step, n, folded, V
<1>6. PICK f \in [0 .. n -> V] : Follows(f, base, step, n)
  BY <1>1, <1>3, FoldExists
<1>7. \A i \in 1 .. n : f[i] = SplitBy(f[i - 1], str[i])
  <2>1. \A i \in 1 .. n : f[i - 1] \in V
    BY <1>1
  <2> QED
    BY <1>4, <1>6, <2>1 DEF Follows
<1>8. f = [i \in 0 .. n |-> IF i = 0 THEN base ELSE [<< f[i - 1] >> EXCEPT ![1] = SplitBy(@, str[i])][1]]
  <2> SUFFICES ASSUME NEW i \in 0 .. n
               PROVE  f[i] = IF i = 0 THEN base ELSE [<< f[i - 1] >> EXCEPT ![1] = SplitBy(@, str[i])][1]
    OBVIOUS
  <2>1. i = 0 \/ i \in 1 .. n
    BY <1>1
  <2>2. f[0] = base /\ (i # 0 => f[i] = SplitBy(f[i - 1], str[i]))
    BY <1>6, <1>7, <2>1 DEF Follows
  <2>3. [<< f[i - 1] >> EXCEPT ![1] = SplitBy(@, str[i])][1] = SplitBy(f[i - 1], str[i])
    OBVIOUS
  <2> QED
    BY ONLY <2>2, <2>3, Zenon
<1>9. folded = [i \in 0 .. n |-> IF i = 0 THEN base ELSE [<< folded[i - 1] >> EXCEPT ![1] = SplitBy(@, str[i])][1]]
  BY <1>8, Zenon DEF folded
<1>10. folded[0] = base /\ \A i \in 1 .. n : folded[i] = SplitBy(folded[i - 1], str[i])
  BY <1>1, <1>9, <1>e
<1>11. folded[n] \in V
  <2>1. \A i \in 1 .. n : folded[i - 1] \in V => folded[i] = step[<<i, folded[i - 1]>>]
    BY <1>4, <1>10
  <2>2. n \in Nat /\ folded[0] \in V
    BY <1>1, <1>10
  <2> QED
    BY ONLY <1>3, <2>1, <2>2, FoldTyped, Zenon
<1> PICK all, texts : /\ all = folded[n]
                      /\ texts = [i \in DOMAIN all |-> IF all[i] = <<>> THEN <<>> ELSE << all[i] >>]
  OBVIOUS
<1>12. texts \in Seq(Seq(Seq(Chars)))
  <2>1. all \in Seq(Seq(Chars))
    BY <1>11 DEF V
  <2>2. \A i \in DOMAIN all : (IF all[i] = <<>> THEN <<>> ELSE << all[i] >>) \in Seq(Seq(Chars))
    BY <2>1
  <2>3. DOMAIN all = 1 .. Len(all) /\ Len(all) \in Nat
    BY <2>1
  <2> HIDE DEF Chars
  <2> QED
    BY <2>2, <2>3
<1> QED
  BY <1>5, <1>12, FlattenTyped

\* The parts of a parameter.
LEMMA PartsTyped ==
    ASSUME NEW str \in Seq(STRING)
    PROVE  Tokens(shorten(str)) \in Seq(Seq(Chars))
<1>1. str \in Seq(Chars)
  BY DEF Chars
<1> QED
  BY <1>1, ShortenTyped, TokensTyped

\* The greatest of some numbers, and of one more.
LEMMA MaxMore ==
    ASSUME NEW n \in Nat, NEW I \in SUBSET (1 .. n)
    PROVE  /\ I # {} => Max(I) \in I
           /\ Max(I \cup {n + 1}) = n + 1
<1>1. ASSUME I # {} PROVE Max(I) \in I
  <2>1. I \in SUBSET (0 .. n)
    OBVIOUS
  <2>2. PICK m \in I : \A k \in I : m >= k
    BY <1>1, <2>1, GreatestNumber
  <2> QED
    BY <2>2 DEF Max
<1>2. Max(I \cup {n + 1}) = n + 1
  <2> PICK J : J = I \cup {n + 1}
    OBVIOUS
  <2>1. n + 1 \in J /\ J \subseteq Nat /\ \A k \in J : n + 1 >= k
    OBVIOUS
  <2>2. \E m \in J : \A k \in J : m >= k
    BY <2>1
  <2>3. Max(J) \in J /\ \A k \in J : Max(J) >= k
    BY <2>2 DEF Max
  <2>4. Max(J) >= n + 1 /\ n + 1 >= Max(J) /\ Max(J) \in Nat
    BY <2>1, <2>3
  <2> QED
    BY <2>4
<1> QED
  BY <1>1, <1>2

\* The last suboption of a name counts.
LEMMA GivenMore ==
    ASSUME NEW S, NEW subs \in Seq(S), NEW sub \in S, NEW name
    PROVE  Given(Append(subs, sub), name) =
             IF IsSubOption(sub, name) THEN OrNull(shorten(SubParam(sub))) ELSE Given(subs, name)
<1> PICK n, more, I, J :
      /\ n = Len(subs) /\ more = Append(subs, sub)
      /\ I = {i \in 1 .. n : IsSubOption(subs[i], name)}
      /\ J = {i \in 1 .. Len(more) : IsSubOption(more[i], name)}
  OBVIOUS
<1>1. n \in Nat /\ Len(more) = n + 1 /\ more[n + 1] = sub /\ \A i \in 1 .. n : more[i] = subs[i]
  BY AppendProperties
<1>2. I \in SUBSET (1 .. n) /\ J = I \cup (IF IsSubOption(sub, name) THEN {n + 1} ELSE {})
  <2>1. \A i \in 1 .. Len(more) : i \in 1 .. n \/ i = n + 1
    BY <1>1
  <2>2. 1 .. n \subseteq 1 .. Len(more) /\ n + 1 \in 1 .. Len(more) /\ n + 1 \notin 1 .. n
    BY <1>1
  <2> QED
    BY <1>1, <2>1, <2>2, Zenon
<1>3. (I # {} => Max(I) \in I) /\ Max(I \cup {n + 1}) = n + 1
  BY <1>1, <1>2, MaxMore
<1>4. Given(subs, name) = IF I = {} THEN NULL ELSE OrNull(shorten(SubParam(subs[Max(I)])))
  <2>1. I # {} => Max(I) # 0
    BY <1>1, <1>2, <1>3
  <2> QED
    BY <2>1, Zenon DEF Given, SelectLastInSeq
<1>5. Given(more, name) = IF J = {} THEN NULL ELSE OrNull(shorten(SubParam(more[Max(J)])))
  <2>1. J # {} => Max(J) # 0
    <3>1. n + 1 \in Nat /\ J \in SUBSET (1 .. n + 1) /\ \A j \in J : j # 0
      BY <1>1, <1>2
    <3>2. J # {} => Max(J) \in J
      BY <3>1, MaxMore, Zenon
    <3> QED
      BY <3>1, <3>2, Zenon
  <2> QED
    BY <2>1, Zenon DEF Given, SelectLastInSeq
<1>6. CASE IsSubOption(sub, name)
  <2>1. J # {} /\ Max(J) = n + 1
    BY <1>2, <1>3, <1>6
  <2> QED
    BY <1>1, <1>5, <1>6, <2>1
<1>7. CASE ~IsSubOption(sub, name)
  <2>1. J = I /\ (I # {} => more[Max(I)] = subs[Max(I)])
    BY <1>1, <1>2, <1>3, <1>7
  <2> QED
    BY <1>4, <1>5, <1>7, <2>1, Zenon
<1> QED
  BY <1>6, <1>7

LEMMA GivenNone == \A name : Given(<<>>, name) = NULL
<1> SUFFICES ASSUME NEW name PROVE Given(<<>>, name) = NULL
  OBVIOUS
<1>1. {i \in 1 .. Len(<<>>) : IsSubOption(<<>>[i], name)} = {}
  OBVIOUS
<1> QED
  BY <1>1, Zenon DEF Given, SelectLastInSeq

\* The last line that sets a field counts.
LEMMA WrittenMore ==
    ASSUME NEW S, NEW ls \in Seq(S), NEW l \in S, NEW name
    PROVE  Written(Append(ls, l), name) =
             IF name \in DOMAIN l.sets THEN l.sets[name] ELSE Written(ls, name)
<1> PICK n, more, I, J :
      /\ n = Len(ls) /\ more = Append(ls, l)
      /\ I = {i \in 1 .. n : name \in DOMAIN ls[i].sets}
      /\ J = {i \in 1 .. Len(more) : name \in DOMAIN more[i].sets}
  OBVIOUS
<1>1. n \in Nat /\ Len(more) = n + 1 /\ more[n + 1] = l /\ \A i \in 1 .. n : more[i] = ls[i]
  BY AppendProperties
<1>2. I \in SUBSET (1 .. n) /\ J = I \cup (IF name \in DOMAIN l.sets THEN {n + 1} ELSE {})
  <2>1. \A i \in 1 .. Len(more) : i \in 1 .. n \/ i = n + 1
    BY <1>1
  <2>2. 1 .. n \subseteq 1 .. Len(more) /\ n + 1 \in 1 .. Len(more) /\ n + 1 \notin 1 .. n
    BY <1>1
  <2> QED
    BY <1>1, <2>1, <2>2, Zenon
<1>3. (I # {} => Max(I) \in I) /\ Max(I \cup {n + 1}) = n + 1
  BY <1>1, <1>2, MaxMore
<1>4. Written(ls, name) = IF I = {} THEN session_init[name] ELSE ls[Max(I)].sets[name]
  <2>1. I # {} => Max(I) # 0
    BY <1>1, <1>2, <1>3
  <2> QED
    BY <2>1, Zenon DEF Written, SelectLastInSeq
<1>5. Written(more, name) = IF J = {} THEN session_init[name] ELSE more[Max(J)].sets[name]
  <2>1. J # {} => Max(J) # 0
    <3>1. n + 1 \in Nat /\ J \in SUBSET (1 .. n + 1) /\ \A j \in J : j # 0
      BY <1>1, <1>2
    <3>2. J # {} => Max(J) \in J
      BY <3>1, MaxMore, Zenon
    <3> QED
      BY <3>1, <3>2, Zenon
  <2> QED
    BY <2>1, Zenon DEF Written, SelectLastInSeq
<1>6. CASE name \in DOMAIN l.sets
  <2>1. J # {} /\ Max(J) = n + 1
    BY <1>2, <1>3, <1>6
  <2> QED
    BY <1>1, <1>5, <1>6, <2>1
<1>7. CASE name \notin DOMAIN l.sets
  <2>1. J = I /\ (I # {} => more[Max(I)] = ls[Max(I)])
    BY <1>1, <1>2, <1>3, <1>7
  <2> QED
    BY <1>4, <1>5, <1>7, <2>1, Zenon
<1> QED
  BY <1>6, <1>7

LEMMA WrittenNone == \A name : Written(<<>>, name) = session_init[name]
<1> SUFFICES ASSUME NEW name PROVE Written(<<>>, name) = session_init[name]
  OBVIOUS
<1>1. {i \in 1 .. Len(<<>>) : name \in DOMAIN <<>>[i].sets} = {}
  OBVIOUS
<1> QED
  BY <1>1, Zenon DEF Written, SelectLastInSeq

\* The first line that cannot be read.
LEMMA ReadableIs ==
    ASSUME NEW S, NEW ls \in Seq(S), NEW i \in 0 .. Len(ls), \A j \in 1 .. i : ls[j].readable
    PROVE  /\ i = Len(ls) => Readable(ls) = ls
           /\ i < Len(ls) /\ ~ls[i + 1].readable => Readable(ls) = SubSeq(ls, 1, i) /\ Readable(ls) # ls
<1> PICK I : I = {j \in 1 .. Len(ls) : ~ls[j].readable}
  OBVIOUS
<1>1. Readable(ls) = IF (IF I # {} THEN Min(I) ELSE 0) = 0 THEN ls
                     ELSE SubSeq(ls, 1, (IF I # {} THEN Min(I) ELSE 0) - 1)
  BY Zenon DEF Readable, SelectInSeq
<1>2. CASE i = Len(ls)
  <2>1. I = {}
    BY <1>2, Zenon
  <2> QED
    BY <1>1, <1>2, <2>1
<1>3. CASE i < Len(ls) /\ ~ls[i + 1].readable
  <2>1. i + 1 \in I
    <3>1. i + 1 \in 1 .. Len(ls)
      BY <1>3
    <3> QED
      BY <1>3, <3>1, Zenon
  <2>2. \A j \in I : j \in 1 .. Len(ls) /\ j \notin 1 .. i
    BY Zenon
  <2>3. \A j \in I : i + 1 <= j
    BY <2>2
  <2>4. I \in SUBSET Nat
    BY <2>2
  <2>5. Min(I) = i + 1
    BY <2>1, <2>3, <2>4 DEF Min
  <2>6. Readable(ls) = SubSeq(ls, 1, i)
    <3>1. i + 1 # 0 /\ (i + 1) - 1 = i /\ I # {}
      BY <2>1
    <3> QED
      BY <1>1, <2>5, <3>1, Zenon
  <2>7. Len(SubSeq(ls, 1, i)) = i
    BY BeginningIs
  <2> QED
    BY <1>3, <2>6, <2>7
<1> QED
  BY <1>2, <1>3

\* What readable lines stand for are sequences.
IsList(x) == \E n \in Nat : x = [i \in 1 .. n |-> x[i]]
Lists2(l) == IsList(l.feeds) /\ IsList(l.filters)

LEMMA ListTyped ==
    ASSUME NEW x, IsList(x), NEW S, \A i \in DOMAIN x : x[i] \in S
    PROVE  x \in Seq(S)
<1> PICK n \in Nat : x = [i \in 1 .. n |-> x[i]]
  BY DEF IsList
<1>1. x \in [1 .. n -> S]
  OBVIOUS
<1> QED
  BY <1>1, SeqDef

LEMMA SequenceIsList ==
    ASSUME NEW S, NEW s \in Seq(S)
    PROVE  IsList(s)
<1>1. Len(s) \in Nat /\ s = [i \in 1 .. Len(s) |-> s[i]]
  OBVIOUS
<1> QED
  BY <1>1 DEF IsList

LEMMA ListOfFirst == ASSUME NEW e PROVE IsList(<<e>>)
<1>1. <<e>> \in Seq({e})
  OBVIOUS
<1> QED
  BY <1>1, SequenceIsList

LEMMA EffectLists ==
    ASSUME NEW name, NEW S, NEW subs \in Seq(S)
    PROVE  IsList(FeedsOf(name, subs)) /\ IsList(FiltersOf(name, subs))
<1>1. IsList(<<>>)
  <2>1. <<>> \in Seq({})
    OBVIOUS
  <2> QED
    BY <2>1, SequenceIsList
<1>2. IsList([i \in DOMAIN subs |-> FeedOf(subs[i], NULL)]) /\ IsList([i \in DOMAIN subs |-> FilterOf(subs[i], NULL)])
  <2>1. DOMAIN subs = 1 .. Len(subs) /\ Len(subs) \in Nat
    OBVIOUS
  <2> PICK n \in Nat : DOMAIN subs = 1 .. n
    BY <2>1
  <2> PICK x, y : /\ x = [i \in 1 .. n |-> FeedOf(subs[i], NULL)]
                  /\ y = [i \in 1 .. n |-> FilterOf(subs[i], NULL)]
    OBVIOUS
  <2>2. x = [i \in 1 .. n |-> x[i]] /\ y = [i \in 1 .. n |-> y[i]]
    OBVIOUS
  <2> QED
    BY <2>2 DEF IsList
<1>3. IsList(FeedsOf(name, subs))
  BY <1>1, <1>2, ListOfFirst, Zenon DEF FeedsOf
<1>4. IsList(FiltersOf(name, subs))
  BY <1>1, <1>2, ListOfFirst, Zenon DEF FiltersOf
<1> QED
  BY <1>3, <1>4

LEMMA CarriesLists ==
    ASSUME NEW l, NEW name, NEW str \in Seq(STRING), NEW a, Carries(l, name, str, a)
    PROVE  Lists2(l)
<1>1. /\ l.feeds = FeedsOf(name, Tokens(shorten(str)))
      /\ l.filters = FiltersOf(name, Tokens(shorten(str)))
  BY Zenon DEF Carries
<1>2. IsList(l.feeds) /\ IsList(l.filters)
  BY <1>1, PartsTyped, EffectLists, Zenon
<1> QED
  BY <1>2 DEF Lists2

LEMMA PieceTypedAs ==
    ASSUME NEW S, NEW s \in Seq(S), NEW v \in Nat, v >= 1, NEW w \in v .. Len(s)
    PROVE  SubSeq(s, v, w - 1) \in Seq(S)
OBVIOUS

LEMMA ClosedLists ==
    ASSUME NEW l, l.readable, l.text \in Seq(STRING), NEW name, NEW v \in Nat, v >= 1,
           NEW closing, NEW breaks, ClosedAt(l, name, v, closing, breaks)
    PROVE  Lists2(l)
<1> PICK w \in v .. Len(l.text) : /\ IF l.text[w] = closing
                                     THEN Carries(l, name, SubSeq(l.text, v, w - 1), w + 1)
                                     ELSE ~l.readable /\ (l.text[w] \in breaks \/ w - v = MAX_PARAM_LEN)
  BY Zenon DEF ClosedAt
<1>1. Carries(l, name, SubSeq(l.text, v, w - 1), w + 1)
  BY Zenon
<1> QED
  BY <1>1, CarriesLists, PieceTypedAs

LEMMA WordLists ==
    ASSUME NEW l, l.readable, l.text \in Seq(STRING), NEW name, NEW v \in Nat, v >= 1, WordAt(l, name, v)
    PROVE  Lists2(l)
<1> PICK w \in v .. Len(l.text) : /\ IF w - v = MAX_PARAM_LEN
                                     THEN ~l.readable
                                     ELSE ~InWord(l.text[w]) /\ Carries(l, name, SubSeq(l.text, v, w - 1), w)
  BY Zenon DEF WordAt
<1>1. Carries(l, name, SubSeq(l.text, v, w - 1), w)
  BY Zenon
<1> QED
  BY <1>1, CarriesLists, PieceTypedAs

LEMMA ParamLists ==
    ASSUME NEW l, l.readable, l.text \in Seq(STRING), NEW name, NEW a \in Nat, a >= 1, ParamAt(l, name, a)
    PROVE  Lists2(l)
<1>0. Len(l.text) \in Nat
  OBVIOUS
<1> PICK v \in a .. Len(l.text) :
           CASE l.text[v] \in Quotes -> ClosedAt(l, name, v + 1, l.text[v], {Newline})
             [] l.text[v] = "{" -> ClosedAt(l, name, v + 1, "}", {})
             [] OTHER -> WordAt(l, name, v)
  BY Zenon DEF ParamAt
<1>1. v \in Nat /\ v >= 1 /\ v + 1 \in Nat /\ v + 1 >= 1
  BY ONLY <1>0, a \in Nat, a >= 1, v \in a .. Len(l.text)
<1>2. \/ ClosedAt(l, name, v + 1, l.text[v], {Newline})
      \/ ClosedAt(l, name, v + 1, "}", {})
      \/ WordAt(l, name, v)
  BY Zenon
<1> QED
  BY <1>1, <1>2, ClosedLists, WordLists, Zenon

LEMMA LineLists ==
    ASSUME NEW l, LineIs(l), l.text \in Seq(STRING), l.readable
    PROVE  Lists2(l)
<1>1. CASE WithoutOption(l)
  <2>1. IsList(<<>>)
    <3>1. <<>> \in Seq({})
      OBVIOUS
    <3> QED
      BY <3>1, SequenceIsList
  <2> QED
    BY <1>1, <2>1, Zenon DEF WithoutOption, Lists2
<1>2. CASE \E a \in 1 .. Len(l.text) : OptionAt(l, a)
  <2> PICK a \in 1 .. Len(l.text) : OptionAt(l, a)
    BY <1>2
  <2> PICK b \in a .. Len(l.text) :
             IF b - a = MAX_OPT_LEN
             THEN ~l.readable
             ELSE ~InName(l.text[b]) /\ IF b = a THEN ~l.readable ELSE EqualsAt(l, SubSeq(l.text, a, b - 1), b)
    BY Zenon DEF OptionAt
  <2>1. EqualsAt(l, SubSeq(l.text, a, b - 1), b)
    BY Zenon
  <2> PICK e \in b .. Len(l.text) :
             IF l.text[e] = "=" THEN ParamAt(l, SubSeq(l.text, a, b - 1), e + 1) ELSE ~l.readable
    BY <2>1, Zenon DEF EqualsAt
  <2>2. ParamAt(l, SubSeq(l.text, a, b - 1), e + 1)
    BY Zenon
  <2>3. e + 1 \in Nat /\ e + 1 >= 1
    OBVIOUS
  <2> QED
    BY <2>2, <2>3, ParamLists, Zenon
<1> QED
  BY <1>1, <1>2, Zenon DEF LineIs

\* The fields of auto_handle for the feeds and filters written so far, and the other values.
Numbered1(n, feed) == [id |-> n, url |-> feed.url, cookies |-> feed.cookies]
Numbers(r) == [i \in DOMAIN r |-> Numbered1(Len(r) - i, r[i])]
SessionOf(feeds, filters, values) ==
    [name \in DOMAIN session_init |->
       CASE name = "feeds" -> Numbers(Reverse(feeds))
         [] name = "filters" -> Reverse(filters)
         [] OTHER -> values[name]]

FeedsIn(ls) == FlattenSeq([i \in DOMAIN ls |-> ls[i].feeds])
FiltersIn(ls) == FlattenSeq([i \in DOMAIN ls |-> ls[i].filters])
ValuesIn(ls) == [name \in DOMAIN session_init |-> Written(ls, name)]

LEMMA MeaningIs == \A ls : Meaning(ls) = SessionOf(FeedsIn(ls), FiltersIn(ls), ValuesIn(ls))
<1> SUFFICES ASSUME NEW ls PROVE Meaning(ls) = SessionOf(FeedsIn(ls), FiltersIn(ls), ValuesIn(ls))
  OBVIOUS
<1> PICK feeds, filters, values :
      /\ feeds = FeedsIn(ls) /\ filters = FiltersIn(ls) /\ values = ValuesIn(ls)
  OBVIOUS
<1>1. Meaning(ls) = [name \in DOMAIN session_init |->
       CASE name = "feeds" -> Numbers(Reverse(feeds))
         [] name = "filters" -> Reverse(filters)
         [] OTHER -> Written(ls, name)]
  BY DEF Meaning, Collected, FeedsIn, FiltersIn, Numbers, Numbered1
<1>2. \A name \in DOMAIN session_init : values[name] = Written(ls, name)
  BY DEF ValuesIn
<1> QED
  BY <1>1, <1>2 DEF SessionOf

\* The fields.
Fields == {"feeds", "filters", "check_interval", "download_folder", "statefile", "prowl_key",
           "download_done_script"}

LEMMA FieldsAre == DOMAIN session_init = Fields
BY DEF session_init, Fields

LEMMA SessionFields ==
    ASSUME NEW feeds, NEW filters, NEW values, NEW s, s = SessionOf(feeds, filters, values)
    PROVE  /\ DOMAIN s = Fields /\ s = [name \in Fields |-> s[name]]
           /\ s.feeds = Numbers(Reverse(feeds)) /\ s.filters = Reverse(filters)
           /\ \A name \in Fields \ {"feeds", "filters"} : s[name] = values[name]
BY FieldsAre DEF SessionOf, Fields

\* feed_add() numbers the feeds.
LEMMA NumbersMore ==
    ASSUME NEW S, NEW r \in Seq(S), NEW url, NEW cookies
    PROVE  WithFeed(Numbers(r), url, cookies) = Numbers(<< FeedOf(url, cookies) >> \o r)
<1> PICK c : c = IF cookies = NULL THEN CookiesInURL(url) ELSE cookies
  OBVIOUS
<1> PICK more, feed, n : /\ feed = FeedOf(url, cookies) /\ more = << feed >> \o r /\ n = Len(r)
  OBVIOUS
<1> PICK numbered : numbered = Numbers(r)
  OBVIOUS
<1> PICK first : first = [id |-> n, url |-> url, cookies |-> c]
  OBVIOUS
<1>1. n \in Nat /\ DOMAIN r = 1 .. n /\ numbered = [i \in 1 .. n |-> Numbered1(n - i, r[i])]
  BY DEF Numbers
<1>2. more \in Seq(S \cup {feed}) /\ Len(more) = n + 1 /\ more[1] = feed /\ \A i \in 2 .. n + 1 : more[i] = r[i - 1]
  <2>1. <<feed>> \in Seq(S \cup {feed}) /\ r \in Seq(S \cup {feed})
    OBVIOUS
  <2> QED
    BY <2>1
<1>3. feed = [url |-> url, cookies |-> c]
  BY DEF FeedOf
<1>4. Numbered1(n, feed) = first
  BY <1>3 DEF Numbered1
<1>5. Numbers(more) = [i \in 1 .. n + 1 |-> Numbered1(n + 1 - i, more[i])]
  <2>1. DOMAIN more = 1 .. n + 1
    BY <1>1, <1>2
  <2> QED
    BY <1>2, <2>1 DEF Numbers
<1>6. numbered \in Seq({numbered[i] : i \in 1 .. n}) /\ Len(numbered) = n
  <2>1. numbered \in [1 .. n -> {numbered[i] : i \in 1 .. n}]
    BY <1>1
  <2>2. numbered \in Seq({numbered[i] : i \in 1 .. n})
    BY <1>1, <2>1, SeqDef
  <2> QED
    BY <1>1, <2>2, LenProperties
<1> PICK out : out = << first >> \o numbered
  OBVIOUS
<1>7. out = [i \in 1 .. n + 1 |-> IF i = 1 THEN first ELSE numbered[i - 1]]
  BY <1>1, <1>6
<1>8. WithFeed(numbered, url, cookies) = out
  BY <1>6 DEF WithFeed
<1>9. out = Numbers(more)
  <2>1. ASSUME NEW i \in 1 .. n + 1
        PROVE  (IF i = 1 THEN first ELSE numbered[i - 1]) = Numbered1(n + 1 - i, more[i])
    <3>1. CASE i = 1
      <4>1. n + 1 - i = n
        BY <1>1, <3>1
      <4> QED
        BY <1>2, <1>4, <3>1, <4>1
    <3>2. CASE i # 1
      <4>1. i - 1 \in 1 .. n /\ n - (i - 1) = n + 1 - i /\ i \in 2 .. n + 1
        BY <1>1, <3>2
      <4>2. numbered[i - 1] = Numbered1(n + 1 - i, r[i - 1])
        BY <1>1, <4>1
      <4> QED
        BY <1>2, <3>2, <4>1, <4>2
    <3> QED
      BY <3>1, <3>2
  <2> PICK y : y = Numbers(more)
    OBVIOUS
  <2>2. \A i \in 1 .. n + 1 : out[i] = y[i]
    BY <1>5, <1>7, <2>1
  <2>3. out = [i \in 1 .. n + 1 |-> out[i]] /\ y = [i \in 1 .. n + 1 |-> y[i]]
    BY <1>5, <1>7
  <2> QED
    BY ONLY <2>2, <2>3, y = Numbers(more)
<1> QED
  BY <1>8, <1>9

LEMMA NumbersNone == Numbers(<<>>) = <<>>
BY DEF Numbers

\* A feed or a filter more.
LEMMA SessionFeed ==
    ASSUME NEW S, NEW feeds \in Seq(S), NEW filters, NEW values, NEW url, NEW cookies,
           FeedOf(url, cookies) \in S, NEW s, s = SessionOf(feeds, filters, values)
    PROVE  [s EXCEPT !.feeds = WithFeed(@, url, cookies)]
             = SessionOf(Append(feeds, FeedOf(url, cookies)), filters, values)
<1> PICK more, t : /\ more = SessionOf(Append(feeds, FeedOf(url, cookies)), filters, values)
                   /\ t = [s EXCEPT !.feeds = WithFeed(@, url, cookies)]
  OBVIOUS
<1>1. /\ DOMAIN s = Fields /\ s.feeds = Numbers(Reverse(feeds)) /\ s.filters = Reverse(filters)
      /\ \A name \in Fields \ {"feeds", "filters"} : s[name] = values[name]
  BY SessionFields
<1>2. /\ more = [name \in Fields |-> more[name]]
      /\ more.feeds = Numbers(Reverse(Append(feeds, FeedOf(url, cookies)))) /\ more.filters = Reverse(filters)
      /\ \A name \in Fields \ {"feeds", "filters"} : more[name] = values[name]
  BY SessionFields
<1>3. WithFeed(s.feeds, url, cookies) = more.feeds
  <2>1. Reverse(feeds) \in Seq(S) /\ Reverse(Append(feeds, FeedOf(url, cookies))) = << FeedOf(url, cookies) >> \o Reverse(feeds)
    BY ReverseTyped, ReverseAppend
  <2> QED
    BY <1>1, <1>2, <2>1, NumbersMore
<1>4. t = [name \in Fields |-> IF name = "feeds" THEN WithFeed(s.feeds, url, cookies) ELSE s[name]]
  BY <1>1 DEF Fields
<1>5. \A name \in Fields : (IF name = "feeds" THEN WithFeed(s.feeds, url, cookies) ELSE s[name]) = more[name]
  BY <1>1, <1>2, <1>3, Zenon
<1>6. t = [name \in Fields |-> more[name]]
  BY <1>4, <1>5, Zenon
<1> QED
  BY <1>2, <1>6

LEMMA SessionFilter ==
    ASSUME NEW S, NEW filters \in Seq(S), NEW feeds, NEW values, NEW pattern, NEW agent,
           FilterOf(pattern, agent) \in S, NEW s, s = SessionOf(feeds, filters, values)
    PROVE  [s EXCEPT !.filters = WithFilter(@, pattern, agent)]
             = SessionOf(feeds, Append(filters, FilterOf(pattern, agent)), values)
<1> PICK more, t : /\ more = SessionOf(feeds, Append(filters, FilterOf(pattern, agent)), values)
                   /\ t = [s EXCEPT !.filters = WithFilter(@, pattern, agent)]
  OBVIOUS
<1>1. /\ DOMAIN s = Fields /\ s.feeds = Numbers(Reverse(feeds)) /\ s.filters = Reverse(filters)
      /\ \A name \in Fields \ {"feeds", "filters"} : s[name] = values[name]
  BY SessionFields
<1>2. /\ more = [name \in Fields |-> more[name]]
      /\ more.feeds = Numbers(Reverse(feeds)) /\ more.filters = Reverse(Append(filters, FilterOf(pattern, agent)))
      /\ \A name \in Fields \ {"feeds", "filters"} : more[name] = values[name]
  BY SessionFields
<1>3. WithFilter(s.filters, pattern, agent) = more.filters
  <2>1. Reverse(Append(filters, FilterOf(pattern, agent))) = << FilterOf(pattern, agent) >> \o Reverse(filters)
    BY ReverseAppend
  <2> QED
    BY <1>1, <1>2, <2>1 DEF WithFilter, FilterOf
<1>4. t = [name \in Fields |-> IF name = "filters" THEN WithFilter(s.filters, pattern, agent) ELSE s[name]]
  BY <1>1 DEF Fields
<1>5. \A name \in Fields : (IF name = "filters" THEN WithFilter(s.filters, pattern, agent) ELSE s[name]) = more[name]
  BY <1>1, <1>2, <1>3, Zenon
<1>6. t = [name \in Fields |-> more[name]]
  BY <1>4, <1>5, Zenon
<1> QED
  BY <1>2, <1>6

\* What set_option() does to the values.
Overlaid(values, sets) == [name \in Fields |-> IF name \in DOMAIN sets THEN sets[name] ELSE values[name]]

LEMMA FieldSet ==
    ASSUME NEW feeds, NEW filters, NEW values, NEW s, s = SessionOf(feeds, filters, values),
           NEW field \in Fields \ {"feeds", "filters"}, NEW v, NEW sets, DOMAIN sets \subseteq {field},
           v = IF field \in DOMAIN sets THEN sets[field] ELSE values[field]
    PROVE  [s EXCEPT ![field] = v] = SessionOf(feeds, filters, Overlaid(values, sets))
<1> PICK more, t : /\ more = SessionOf(feeds, filters, Overlaid(values, sets))
                   /\ t = [s EXCEPT ![field] = v]
  OBVIOUS
<1>1. /\ DOMAIN s = Fields /\ s = [name \in Fields |-> s[name]]
      /\ s.feeds = Numbers(Reverse(feeds)) /\ s.filters = Reverse(filters)
      /\ \A name \in Fields \ {"feeds", "filters"} : s[name] = values[name]
  BY SessionFields
<1>2. /\ more = [name \in Fields |-> more[name]]
      /\ more.feeds = Numbers(Reverse(feeds)) /\ more.filters = Reverse(filters)
      /\ \A name \in Fields \ {"feeds", "filters"} : more[name] = Overlaid(values, sets)[name]
  BY SessionFields
<1>3. \A name \in Fields \ {"feeds", "filters"} : more[name] = IF name = field THEN v ELSE s[name]
  BY <1>1, <1>2 DEF Overlaid
<1>4. t = [name \in Fields |-> IF name = field THEN v ELSE s[name]]
  BY <1>1
<1>5. \A name \in Fields : t[name] = more[name]
  BY <1>1, <1>2, <1>3, <1>4
<1>6. t = [name \in Fields |-> t[name]]
  BY <1>4
<1> QED
  BY <1>2, <1>5, <1>6

LEMMA NothingSet ==
    ASSUME NEW feeds, NEW filters, NEW values
    PROVE  SessionOf(feeds, filters, Overlaid(values, <<>>)) = SessionOf(feeds, filters, values)
<1> PICK more, s : more = SessionOf(feeds, filters, Overlaid(values, <<>>)) /\ s = SessionOf(feeds, filters, values)
  OBVIOUS
<1>1. /\ s = [name \in Fields |-> s[name]]
      /\ s.feeds = Numbers(Reverse(feeds)) /\ s.filters = Reverse(filters)
      /\ \A name \in Fields \ {"feeds", "filters"} : s[name] = values[name]
  BY SessionFields
<1>2. /\ more = [name \in Fields |-> more[name]]
      /\ more.feeds = Numbers(Reverse(feeds)) /\ more.filters = Reverse(filters)
      /\ \A name \in Fields \ {"feeds", "filters"} : more[name] = Overlaid(values, <<>>)[name]
  BY SessionFields
<1>3. \A name \in Fields : more[name] = s[name]
  BY <1>1, <1>2 DEF Overlaid
<1> QED
  BY <1>1, <1>2, <1>3

LEMMA SessionSet ==
    ASSUME NEW feeds, NEW filters, NEW values, NEW s, s = SessionOf(feeds, filters, values), Len(param) \in Nat
    PROVE  set_option(s) = SessionOf(feeds, filters, Overlaid(values, SetsOf(opt, param)))
<1> PICK sets : sets = SetsOf(opt, param)
  OBVIOUS
<1>1. DOMAIN s = Fields /\ \A name \in Fields \ {"feeds", "filters"} : s[name] = values[name]
  BY SessionFields
<1>2. \A old : Path(old, param) = IF IsPath(param) THEN Path(<<>>, param) ELSE old
  BY DEF Path
<1>3. \A old : Interval(old, param) = IF parseUInt(param) > 0 THEN parseUInt(param) % IntervalWidth ELSE old
  BY DEF Interval
<1>4. CASE opt = <<"interval">>
  <2>1. sets = IF parseUInt(param) > 0 THEN [f \in {"check_interval"} |-> parseUInt(param) % IntervalWidth] ELSE <<>>
    BY <1>4 DEF SetsOf
  <2>2. /\ DOMAIN sets \subseteq {"check_interval"} /\ "check_interval" \in Fields \ {"feeds", "filters"}
        /\ Interval(values["check_interval"], param) =
             IF "check_interval" \in DOMAIN sets THEN sets["check_interval"] ELSE values["check_interval"]
    BY <1>3, <2>1 DEF Fields
  <2>3. set_option(s) = [s EXCEPT !["check_interval"] = Interval(values["check_interval"], param)]
    BY <1>1, <1>4, <2>2 DEF set_option
  <2> QED
    BY <2>2, <2>3, FieldSet
<1>5. CASE opt = <<"download-folder">>
  <2>1. sets = IF IsPath(param) THEN [f \in {"download_folder"} |-> Path(<<>>, param)] ELSE <<>>
    BY <1>5 DEF SetsOf
  <2>2. /\ DOMAIN sets \subseteq {"download_folder"} /\ "download_folder" \in Fields \ {"feeds", "filters"}
        /\ Path(values["download_folder"], param) =
             IF "download_folder" \in DOMAIN sets THEN sets["download_folder"] ELSE values["download_folder"]
    BY <1>2, <2>1 DEF Fields
  <2>3. set_option(s) = [s EXCEPT !["download_folder"] = Path(values["download_folder"], param)]
    BY <1>1, <1>5, <2>2 DEF set_option
  <2> QED
    BY <2>2, <2>3, FieldSet
<1>6. CASE opt = <<"statefile">>
  <2>1. sets = IF IsPath(param) THEN [f \in {"statefile"} |-> Path(<<>>, param)] ELSE <<>>
    BY <1>6 DEF SetsOf
  <2>2. /\ DOMAIN sets \subseteq {"statefile"} /\ "statefile" \in Fields \ {"feeds", "filters"}
        /\ Path(values["statefile"], param) =
             IF "statefile" \in DOMAIN sets THEN sets["statefile"] ELSE values["statefile"]
    BY <1>2, <2>1 DEF Fields
  <2>3. set_option(s) = [s EXCEPT !["statefile"] = Path(values["statefile"], param)]
    BY <1>1, <1>6, <2>2 DEF set_option
  <2> QED
    BY <2>2, <2>3, FieldSet
<1>7. CASE opt = <<"prowl-apikey">>
  <2>1. sets = [f \in {"prowl_key"} |-> OrNull(param)]
    BY <1>7 DEF SetsOf
  <2>2. /\ DOMAIN sets \subseteq {"prowl_key"} /\ "prowl_key" \in Fields \ {"feeds", "filters"}
        /\ OrNull(param) = IF "prowl_key" \in DOMAIN sets THEN sets["prowl_key"] ELSE values["prowl_key"]
    BY <2>1 DEF Fields
  <2>3. set_option(s) = [s EXCEPT !["prowl_key"] = OrNull(param)]
    BY <1>7 DEF set_option
  <2> QED
    BY <2>2, <2>3, FieldSet
<1>8. CASE opt = <<"download-done-script">>
  <2>1. sets = [f \in {"download_done_script"} |-> OrNull(param)]
    BY <1>8 DEF SetsOf
  <2>2. /\ DOMAIN sets \subseteq {"download_done_script"} /\ "download_done_script" \in Fields \ {"feeds", "filters"}
        /\ OrNull(param) = IF "download_done_script" \in DOMAIN sets THEN sets["download_done_script"]
                                                                    ELSE values["download_done_script"]
    BY <2>1 DEF Fields
  <2>3. set_option(s) = [s EXCEPT !["download_done_script"] = OrNull(param)]
    BY <1>8 DEF set_option
  <2> QED
    BY <2>2, <2>3, FieldSet
<1>9. CASE opt \notin { <<"interval">>, <<"download-folder">>, <<"statefile">>, <<"prowl-apikey">>,
                       <<"download-done-script">> }
  <2>1. set_option(s) = s /\ sets = <<>>
    BY <1>9 DEF set_option, SetsOf
  <2> QED
    BY <2>1, NothingSet
<1> QED
  BY <1>4, <1>5, <1>6, <1>7, <1>8, <1>9

\* The lines of a file are a sequence of lines.
Upto(f, i) == SubSeq(f.lines, 1, i)
ReadTo(f, i) == i \in 0 .. Len(f.lines) /\ \A j \in 1 .. i : f.lines[j].readable
FeedSet(f) == UNION { {f.lines[i].feeds[j] : j \in DOMAIN f.lines[i].feeds} : i \in DOMAIN f.lines }
FilterSet(f) == UNION { {f.lines[i].filters[j] : j \in DOMAIN f.lines[i].filters} : i \in DOMAIN f.lines }

LEMMA LinesAre ==
    ASSUME NEW f \in Files
    PROVE  /\ f.lines \in Seq(ToSet(f.lines)) /\ Len(f.lines) \in Nat /\ DOMAIN f.lines = 1 .. Len(f.lines)
           /\ \A i \in 1 .. Len(f.lines) : LineIs(f.lines[i]) /\ f.lines[i].text \in Seq(STRING)
           /\ [i \in DOMAIN f.lines |-> f.lines[i].text] \in Seq(Seq(STRING))
<1>1. f.lines \in Seq(ToSet(f.lines)) /\ \A l \in ToSet(f.lines) : LineIs(l)
  BY LinesAssumption
<1>2. Len(f.lines) \in Nat /\ DOMAIN f.lines = 1 .. Len(f.lines)
  BY <1>1
<1>3. \A i \in 1 .. Len(f.lines) : f.lines[i] \in ToSet(f.lines)
  BY <1>2 DEF ToSet
<1> PICK texts : texts = [i \in DOMAIN f.lines |-> f.lines[i].text]
  OBVIOUS
<1>4. texts \in Seq(Seq(STRING))
  BY ConfigAssumption
<1>5. \A i \in 1 .. Len(f.lines) : texts[i] \in Seq(STRING)
  BY <1>2, <1>4
<1> QED
  BY <1>1, <1>2, <1>3, <1>4, <1>5

LEMMA UptoMore ==
    ASSUME NEW f \in Files, NEW i \in Nat, i < Len(f.lines)
    PROVE  /\ Upto(f, i) \in Seq(ToSet(f.lines)) /\ Len(Upto(f, i)) = i /\ DOMAIN Upto(f, i) = 1 .. i
           /\ f.lines[i + 1] \in ToSet(f.lines)
           /\ Upto(f, i + 1) = Append(Upto(f, i), f.lines[i + 1])
           /\ \A j \in 1 .. i : Upto(f, i)[j] = f.lines[j]
<1> PICK ls, S : ls = f.lines /\ S = ToSet(f.lines)
  OBVIOUS
<1>1. ls \in Seq(S) /\ i + 1 \in 1 .. Len(ls) /\ Len(ls) \in Nat
  <2>1. ls \in Seq(S) /\ Len(ls) \in Nat /\ i < Len(ls)
    BY LinesAre
  <2> QED
    BY <2>1
<1>2. ls[i + 1] \in S
  BY <1>1
<1>3. /\ SubSeq(ls, 1, i) \in Seq(S) /\ Len(SubSeq(ls, 1, i)) = i
      /\ \A j \in 1 .. i : SubSeq(ls, 1, i)[j] = ls[j]
  BY <1>1, BeginningIs
<1>4. SubSeq(ls, 1, i + 1) = Append(SubSeq(ls, 1, i), ls[i + 1])
  BY <1>1
<1>5. DOMAIN SubSeq(ls, 1, i) = 1 .. i
  BY <1>3
<1> QED
  BY <1>2, <1>3, <1>4, <1>5 DEF Upto

LEMMA LineEffect ==
    ASSUME NEW f \in Files, NEW i \in 1 .. Len(f.lines), f.lines[i].readable
    PROVE  f.lines[i].feeds \in Seq(FeedSet(f)) /\ f.lines[i].filters \in Seq(FilterSet(f))
<1>1. IsList(f.lines[i].feeds) /\ IsList(f.lines[i].filters)
  BY LinesAre, LineLists DEF Lists2
<1>2. i \in DOMAIN f.lines
  BY LinesAre
<1>3. \A j \in DOMAIN f.lines[i].feeds : f.lines[i].feeds[j] \in FeedSet(f)
  BY <1>2 DEF FeedSet
<1>4. \A j \in DOMAIN f.lines[i].filters : f.lines[i].filters[j] \in FilterSet(f)
  BY <1>2 DEF FilterSet
<1> QED
  BY <1>1, <1>3, <1>4, ListTyped

LEMMA InTyped ==
    ASSUME NEW f \in Files, NEW i \in Nat, ReadTo(f, i)
    PROVE  /\ [k \in DOMAIN Upto(f, i) |-> Upto(f, i)[k].feeds] \in Seq(Seq(FeedSet(f)))
           /\ [k \in DOMAIN Upto(f, i) |-> Upto(f, i)[k].filters] \in Seq(Seq(FilterSet(f)))
           /\ FeedsIn(Upto(f, i)) \in Seq(FeedSet(f)) /\ FiltersIn(Upto(f, i)) \in Seq(FilterSet(f))
<1> PICK ls, F, G : ls = Upto(f, i) /\ F = Seq(FeedSet(f)) /\ G = Seq(FilterSet(f))
  OBVIOUS
<1>0. f.lines \in Seq(ToSet(f.lines)) /\ Len(f.lines) \in Nat /\ i \in 0 .. Len(f.lines)
  BY LinesAre DEF ReadTo
<1>1. Len(ls) = i /\ ls \in Seq(ToSet(f.lines)) /\ \A k \in 1 .. i : ls[k] = f.lines[k]
  <2> PICK all, S : all = f.lines /\ S = ToSet(f.lines)
    OBVIOUS
  <2>1. all \in Seq(S) /\ i \in 0 .. Len(all)
    BY <1>0
  <2>2. Len(SubSeq(all, 1, i)) = i /\ SubSeq(all, 1, i) \in Seq(S) /\ \A k \in 1 .. i : SubSeq(all, 1, i)[k] = all[k]
    BY <2>1, BeginningIs
  <2> QED
    BY <2>2 DEF Upto
<1>2. DOMAIN ls = 1 .. i
  BY <1>1
<1>3. \A k \in 1 .. i : ls[k].feeds \in F /\ ls[k].filters \in G
  <2> SUFFICES ASSUME NEW k \in 1 .. i PROVE ls[k].feeds \in F /\ ls[k].filters \in G
    OBVIOUS
  <2>1. k \in 1 .. Len(f.lines) /\ f.lines[k].readable
    BY <1>0 DEF ReadTo
  <2> QED
    BY <1>1, <2>1, LineEffect
<1> PICK x, y : x = [k \in DOMAIN ls |-> ls[k].feeds] /\ y = [k \in DOMAIN ls |-> ls[k].filters]
  OBVIOUS
<1>4. x \in [1 .. i -> F] /\ y \in [1 .. i -> G]
  BY <1>2, <1>3
<1>5. x \in Seq(F) /\ y \in Seq(G)
  BY <1>4, SeqDef
<1>6. FlattenSeq(x) \in Seq(FeedSet(f)) /\ FlattenSeq(y) \in Seq(FilterSet(f))
  BY <1>5, FlattenTyped
<1> QED
  BY <1>5, <1>6 DEF FeedsIn, FiltersIn

\* One line more.
LEMMA InMore ==
    ASSUME NEW f \in Files, NEW i \in Nat, ReadTo(f, i + 1)
    PROVE  /\ ReadTo(f, i)
           /\ FeedsIn(Upto(f, i + 1)) = FeedsIn(Upto(f, i)) \o f.lines[i + 1].feeds
           /\ FiltersIn(Upto(f, i + 1)) = FiltersIn(Upto(f, i)) \o f.lines[i + 1].filters
           /\ ValuesIn(Upto(f, i + 1)) = Overlaid(ValuesIn(Upto(f, i)), f.lines[i + 1].sets)
<1> PICK ls, more, l : ls = Upto(f, i) /\ more = Upto(f, i + 1) /\ l = f.lines[i + 1]
  OBVIOUS
<1>1. Len(f.lines) \in Nat /\ i < Len(f.lines) /\ i + 1 \in 1 .. Len(f.lines) /\ l.readable /\ ReadTo(f, i)
  <2>1. Len(f.lines) \in Nat /\ i + 1 \in 0 .. Len(f.lines) /\ \A j \in 1 .. i + 1 : f.lines[j].readable
    BY LinesAre DEF ReadTo
  <2>2. i < Len(f.lines) /\ i + 1 \in 1 .. Len(f.lines) /\ i \in 0 .. Len(f.lines) /\ 1 .. i \subseteq 1 .. i + 1
        /\ i + 1 \in 1 .. i + 1
    BY <2>1
  <2> QED
    BY <2>1, <2>2, Zenon DEF ReadTo
<1>2. /\ ls \in Seq(ToSet(f.lines)) /\ Len(ls) = i /\ DOMAIN ls = 1 .. i /\ l \in ToSet(f.lines)
      /\ more = Append(ls, l)
  BY <1>1, UptoMore
<1>3. l.feeds \in Seq(FeedSet(f)) /\ l.filters \in Seq(FilterSet(f))
  BY <1>1, LineEffect
<1>4. /\ Len(more) = i + 1 /\ DOMAIN more = 1 .. i + 1 /\ more[i + 1] = l /\ \A k \in 1 .. i : more[k] = ls[k]
  BY <1>2, AppendProperties
<1> PICK x, y, u, v :
      /\ x = [k \in DOMAIN ls |-> ls[k].feeds] /\ y = [k \in DOMAIN ls |-> ls[k].filters]
      /\ u = [k \in DOMAIN more |-> more[k].feeds] /\ v = [k \in DOMAIN more |-> more[k].filters]
  OBVIOUS
<1>5. x \in Seq(Seq(FeedSet(f))) /\ y \in Seq(Seq(FilterSet(f)))
  BY <1>1, InTyped
<1>6. Len(x) = i /\ Len(y) = i
  BY <1>2, <1>5
<1>7. u = Append(x, l.feeds) /\ v = Append(y, l.filters)
  <2> PICK a, b : a = Append(x, l.feeds) /\ b = Append(y, l.filters)
    OBVIOUS
  <2>1. /\ a = [k \in 1 .. i + 1 |-> a[k]] /\ a[i + 1] = l.feeds /\ \A k \in 1 .. i : a[k] = x[k]
        /\ b = [k \in 1 .. i + 1 |-> b[k]] /\ b[i + 1] = l.filters /\ \A k \in 1 .. i : b[k] = y[k]
    <3>1. /\ a \in Seq(Seq(FeedSet(f))) /\ Len(a) = i + 1 /\ a[i + 1] = l.feeds /\ \A k \in 1 .. i : a[k] = x[k]
          /\ b \in Seq(Seq(FilterSet(f))) /\ Len(b) = i + 1 /\ b[i + 1] = l.filters /\ \A k \in 1 .. i : b[k] = y[k]
      BY <1>3, <1>5, <1>6, AppendProperties
    <3> QED
      BY <3>1
  <2>2. \A k \in 1 .. i + 1 : k \in 1 .. i \/ k = i + 1
    OBVIOUS
  <2>3. \A k \in 1 .. i + 1 : u[k] = a[k] /\ v[k] = b[k]
    BY <1>2, <1>4, <2>1, <2>2
  <2>4. u = [k \in 1 .. i + 1 |-> u[k]] /\ v = [k \in 1 .. i + 1 |-> v[k]]
    BY <1>4
  <2> QED
    BY <2>1, <2>3, <2>4
<1>8. FlattenSeq(u) = FlattenSeq(x) \o l.feeds /\ FlattenSeq(v) = FlattenSeq(y) \o l.filters
  <2>1. FlattenSeq(Append(x, l.feeds)) = FlattenSeq(x) \o l.feeds
    BY <1>3, <1>5, FlattenAppend
  <2>2. FlattenSeq(Append(y, l.filters)) = FlattenSeq(y) \o l.filters
    BY <1>3, <1>5, FlattenAppend
  <2> QED
    BY <1>7, <2>1, <2>2
<1>9. ValuesIn(more) = Overlaid(ValuesIn(ls), l.sets)
  <2>1. \A name \in Fields : Written(more, name) = IF name \in DOMAIN l.sets THEN l.sets[name] ELSE Written(ls, name)
    <3> SUFFICES ASSUME NEW name \in Fields
                 PROVE  Written(more, name) = IF name \in DOMAIN l.sets THEN l.sets[name] ELSE Written(ls, name)
      OBVIOUS
    <3>1. Written(Append(ls, l), name) = IF name \in DOMAIN l.sets THEN l.sets[name] ELSE Written(ls, name)
      BY <1>2, WrittenMore
    <3> QED
      BY <1>2, <3>1
  <2> QED
    BY <2>1, FieldsAre DEF ValuesIn, Overlaid
<1>10. /\ FeedsIn(more) = FeedsIn(ls) \o l.feeds /\ FiltersIn(more) = FiltersIn(ls) \o l.filters
  BY <1>8 DEF FeedsIn, FiltersIn
<1> QED
  BY <1>1, <1>9, <1>10

LEMMA InNone ==
    ASSUME NEW f \in Files
    PROVE  Upto(f, 0) = <<>> /\ session_init = Meaning(Upto(f, 0))
<1>1. Upto(f, 0) = <<>>
  <2> PICK ls, S : ls = f.lines /\ S = ToSet(f.lines)
    OBVIOUS
  <2>1. ls \in Seq(S)
    BY LinesAre
  <2>2. SubSeq(ls, 1, 0) = <<>>
    BY <2>1
  <2> QED
    BY <2>2 DEF Upto
<1>2. FeedsIn(<<>>) = <<>> /\ FiltersIn(<<>>) = <<>>
  <2>1. [k \in DOMAIN <<>> |-> <<>>[k].feeds] = <<>> /\ [k \in DOMAIN <<>> |-> <<>>[k].filters] = <<>>
    OBVIOUS
  <2> QED
    BY <2>1, FlattenEmpty DEF FeedsIn, FiltersIn
<1>3. Reverse(<<>>) = <<>>
  <2>1. <<>> \in Seq({}) /\ Len(<<>>) = 0
    OBVIOUS
  <2>2. Reverse(<<>>) \in Seq({}) /\ Len(Reverse(<<>>)) = 0
    BY <2>1, ReverseTyped
  <2> QED
    BY <2>2
<1>4. session_init = SessionOf(<<>>, <<>>, ValuesIn(<<>>))
  <2> PICK s : s = SessionOf(<<>>, <<>>, ValuesIn(<<>>))
    OBVIOUS
  <2>1. /\ s = [name \in Fields |-> s[name]] /\ s.feeds = <<>> /\ s.filters = <<>>
        /\ \A name \in Fields \ {"feeds", "filters"} : s[name] = ValuesIn(<<>>)[name]
    BY <1>3, SessionFields, NumbersNone
  <2>2. \A name \in Fields : ValuesIn(<<>>)[name] = session_init[name]
    BY FieldsAre, WrittenNone DEF ValuesIn
  <2>3. session_init = [name \in Fields |-> session_init[name]] /\ session_init.feeds = <<>> /\ session_init.filters = <<>>
    BY DEF session_init, Fields
  <2>4. \A name \in Fields : s[name] = session_init[name]
    BY <2>1, <2>2, <2>3
  <2> QED
    BY <2>1, <2>3, <2>4
<1> QED
  BY <1>1, <1>2, <1>4, MeaningIs

\* Lines without an option mean nothing.
LEMMA NothingMore ==
    ASSUME NEW f \in Files, NEW i \in Nat, ReadTo(f, i + 1), WithoutOption(f.lines[i + 1])
    PROVE  Meaning(Upto(f, i + 1)) = Meaning(Upto(f, i))
<1> PICK l : l = f.lines[i + 1]
  OBVIOUS
<1>1. l.feeds = <<>> /\ l.filters = <<>> /\ l.sets = <<>>
  BY DEF WithoutOption
<1>2. /\ FeedsIn(Upto(f, i + 1)) = FeedsIn(Upto(f, i)) \o <<>>
      /\ FiltersIn(Upto(f, i + 1)) = FiltersIn(Upto(f, i)) \o <<>>
      /\ ValuesIn(Upto(f, i + 1)) = Overlaid(ValuesIn(Upto(f, i)), <<>>) /\ ReadTo(f, i)
  BY <1>1, InMore
<1>3. FeedsIn(Upto(f, i)) \in Seq(FeedSet(f)) /\ FiltersIn(Upto(f, i)) \in Seq(FilterSet(f))
  BY <1>2, InTyped
<1>4. FeedsIn(Upto(f, i)) \o <<>> = FeedsIn(Upto(f, i)) /\ FiltersIn(Upto(f, i)) \o <<>> = FiltersIn(Upto(f, i))
  BY <1>3
<1> QED
  BY <1>2, <1>4, NothingSet, MeaningIs

-----------------------------------------------------------------------------
(* config_parser.c: where the lines are in the text.                        *)

TextsOf(f) == [i \in DOMAIN f.lines |-> f.lines[i].text]
Offset(f, i) == Len(FlattenSeq(SubSeq(TextsOf(f), 1, i)))

LEMMA PrefixFlat ==
    ASSUME NEW S, NEW ss \in Seq(Seq(S)), NEW g, Flattens(g, ss, S), NEW i \in 0 .. Len(ss)
    PROVE  FlattenSeq(SubSeq(ss, 1, i)) = g[i]
<1> PICK pre, h : pre = SubSeq(ss, 1, i) /\ h = [k \in 0 .. i |-> g[k]]
  OBVIOUS
<1>1. pre \in Seq(Seq(S)) /\ Len(pre) = i /\ \A k \in 1 .. i : pre[k] = ss[k]
  BY BeginningIs
<1>2. /\ g \in [0 .. Len(ss) -> Seq(S)] /\ g[0] = <<>>
      /\ \A k \in 1 .. Len(ss) : g[k] = g[k - 1] \o ss[k]
  BY DEF Flattens
<1>3. h \in [0 .. i -> Seq(S)] /\ h[0] = <<>>
  BY <1>2
<1>4. \A k \in 1 .. i : h[k] = h[k - 1] \o pre[k]
  <2> SUFFICES ASSUME NEW k \in 1 .. i PROVE h[k] = h[k - 1] \o pre[k]
    OBVIOUS
  <2>1. k \in 1 .. Len(ss) /\ k \in 0 .. i /\ k - 1 \in 0 .. i
    OBVIOUS
  <2> QED
    BY <1>1, <1>2, <2>1
<1>5. Flattens(h, pre, S)
  BY <1>1, <1>3, <1>4 DEF Flattens
<1>6. FlattenSeq(pre) = h[Len(pre)]
  BY <1>1, <1>5, FlattenIs
<1> QED
  BY <1>1, <1>6

LEMMA JoinedIs ==
    ASSUME NEW S, NEW a \in Seq(S), NEW b \in Seq(S)
    PROVE  /\ Len(a \o b) = Len(a) + Len(b) /\ \A k \in 1 .. Len(a) : (a \o b)[k] = a[k]
           /\ \A k \in 1 .. Len(b) : (a \o b)[Len(a) + k] = b[k]
           /\ a \o b \in Seq(S) /\ Len(a) \in Nat /\ Len(b) \in Nat
<1>1. /\ Len(a \o b) = Len(a) + Len(b) /\ a \o b \in Seq(S) /\ Len(a) \in Nat /\ Len(b) \in Nat
  BY ConcatProperties, LenProperties
<1>2. \A k \in 1 .. Len(a) + Len(b) : (a \o b)[k] = IF k <= Len(a) THEN a[k] ELSE b[k - Len(a)]
  BY ConcatProperties
<1>3. ASSUME NEW k \in 1 .. Len(b) PROVE (a \o b)[Len(a) + k] = b[k]
  <2>1. Len(a) + k \in 1 .. Len(a) + Len(b) /\ ~(Len(a) + k <= Len(a)) /\ Len(a) + k - Len(a) = k
    BY <1>1
  <2> QED
    BY <1>2, <2>1
<1>4. ASSUME NEW k \in 1 .. Len(a) PROVE (a \o b)[k] = a[k]
  <2>1. k \in 1 .. Len(a) + Len(b) /\ k <= Len(a)
    BY <1>1
  <2> QED
    BY <1>2, <2>1
<1> QED
  BY <1>1, <1>3, <1>4

\* Line i is behind the lines before it.
LEMMA OffsetIs ==
    ASSUME NEW f \in Files, f.rest = <<>>
    PROVE  /\ Contents(f) \in Seq(STRING) /\ Offset(f, 0) = 0 /\ Offset(f, Len(f.lines)) = Len(Contents(f))
           /\ \A i \in 0 .. Len(f.lines) : Offset(f, i) \in Nat
           /\ \A i \in 1 .. Len(f.lines) :
                /\ Offset(f, i) = Offset(f, i - 1) + Len(f.lines[i].text)
                /\ \A k \in 1 .. Len(f.lines[i].text) : Contents(f)[Offset(f, i - 1) + k] = f.lines[i].text[k]
<1> PICK S, ss, n : S = STRING /\ ss = TextsOf(f) /\ n = Len(f.lines)
  OBVIOUS
<1>1. ss \in Seq(Seq(S)) /\ Len(ss) = n /\ n \in Nat /\ \A i \in 1 .. n : ss[i] = f.lines[i].text
  <2>1. ss \in Seq(Seq(S)) /\ DOMAIN ss = 1 .. n /\ n \in Nat /\ \A i \in 1 .. n : ss[i] = f.lines[i].text
    BY LinesAre DEF TextsOf
  <2>2. DOMAIN ss = 1 .. Len(ss) /\ Len(ss) \in Nat
    BY <2>1
  <2>3. Len(ss) = n
    BY ONLY <2>1, <2>2
  <2> QED
    BY <2>1, <2>3
<1>2. PICK g : Flattens(g, ss, S)
  BY <1>1, FlattenExists
<1>3. /\ \A i \in 0 .. n : g[i] \in Seq(S)
      /\ g[0] = <<>> /\ \A i \in 1 .. n : g[i] = g[i - 1] \o ss[i]
  BY <1>1, <1>2 DEF Flattens
<1>4. \A i \in 0 .. n : Offset(f, i) = Len(g[i])
  BY <1>1, <1>2, PrefixFlat DEF Offset
<1>5. Contents(f) = g[n]
  <2>1. FlattenSeq(ss) = g[n] /\ g[n] \in Seq(S)
    BY <1>1, <1>2, FlattenIs
  <2>2. Contents(f) = FlattenSeq(ss) \o <<>>
    BY DEF Contents, TextsOf
  <2> QED
    BY <2>1, <2>2
<1>6. \A i \in 1 .. n : /\ g[i - 1] \in Seq(S) /\ ss[i] \in Seq(S) /\ Len(g[i]) = Len(g[i - 1]) + Len(ss[i])
                        /\ \A k \in 1 .. Len(g[i - 1]) : g[i][k] = g[i - 1][k]
                        /\ \A k \in 1 .. Len(ss[i]) : g[i][Len(g[i - 1]) + k] = ss[i][k]
  <2> SUFFICES ASSUME NEW i \in 1 .. n
               PROVE  /\ g[i - 1] \in Seq(S) /\ ss[i] \in Seq(S) /\ Len(g[i]) = Len(g[i - 1]) + Len(ss[i])
                      /\ \A k \in 1 .. Len(g[i - 1]) : g[i][k] = g[i - 1][k]
                      /\ \A k \in 1 .. Len(ss[i]) : g[i][Len(g[i - 1]) + k] = ss[i][k]
    OBVIOUS
  <2> PICK a, b : a = g[i - 1] /\ b = ss[i]
    OBVIOUS
  <2>1. a \in Seq(S) /\ b \in Seq(S) /\ g[i] = a \o b
    <3>1. i - 1 \in 0 .. n /\ i \in 1 .. Len(ss)
      BY <1>1
    <3>2. ss[i] \in Seq(S)
      BY <1>1, <3>1
    <3> QED
      BY <1>3, <3>1, <3>2
  <2>2. /\ Len(a \o b) = Len(a) + Len(b) /\ \A k \in 1 .. Len(a) : (a \o b)[k] = a[k]
        /\ \A k \in 1 .. Len(b) : (a \o b)[Len(a) + k] = b[k]
    BY ONLY <2>1, JoinedIs
  <2> QED
    BY <2>1, <2>2
<1> DEFINE T == {m \in Nat : m <= n => \A i \in 1 .. m : /\ Len(g[i]) <= Len(g[m])
                                                       /\ \A k \in 1 .. Len(g[i]) : g[m][k] = g[i][k]}
<1>7. 0 \in T
  OBVIOUS
<1>8. ASSUME NEW m \in Nat, m \in T PROVE m + 1 \in T
  <2> SUFFICES ASSUME m + 1 <= n, NEW i \in 1 .. m + 1
               PROVE  /\ Len(g[i]) <= Len(g[m + 1])
                      /\ \A k \in 1 .. Len(g[i]) : g[m + 1][k] = g[i][k]
    OBVIOUS
  <2>1. m + 1 \in 1 .. n /\ m + 1 - 1 = m /\ m \in 0 .. n /\ m <= n
    BY <1>1
  <2>2. /\ g[m] \in Seq(S) /\ Len(g[m + 1]) = Len(g[m]) + Len(ss[m + 1]) /\ ss[m + 1] \in Seq(S)
        /\ \A k \in 1 .. Len(g[m]) : g[m + 1][k] = g[m][k]
    <3>1. /\ g[(m + 1) - 1] \in Seq(S) /\ ss[m + 1] \in Seq(S) /\ Len(g[m + 1]) = Len(g[(m + 1) - 1]) + Len(ss[m + 1])
          /\ \A k \in 1 .. Len(g[(m + 1) - 1]) : g[m + 1][k] = g[(m + 1) - 1][k]
      BY <1>6, <2>1, Zenon
    <3>2. (m + 1) - 1 = m
      OBVIOUS
    <3> QED
      BY ONLY <3>1, <3>2
  <2>3. Len(g[m]) \in Nat /\ Len(ss[m + 1]) \in Nat /\ Len(g[m + 1]) \in Nat
    <3>1. m + 1 \in 0 .. n
      BY <2>1
    <3>2. g[m + 1] \in Seq(S)
      BY <1>3, <3>1
    <3> QED
      BY ONLY <2>2, <3>2, LenProperties
  <2>4. CASE i = m + 1
    BY <2>3, <2>4
  <2>5. CASE i # m + 1
    <3>1. i \in 1 .. m /\ i \in 0 .. n
      BY <2>1, <2>5
    <3>2. Len(g[i]) <= Len(g[m]) /\ \A k \in 1 .. Len(g[i]) : g[m][k] = g[i][k]
      BY <1>8, <2>1, <3>1
    <3>3. Len(g[i]) \in Nat
      BY <1>3, <3>1
    <3>4. Len(g[i]) <= Len(g[m + 1]) /\ \A k \in 1 .. Len(g[i]) : k \in 1 .. Len(g[m])
      <4> PICK x, y, z, w : x = Len(g[i]) /\ y = Len(g[m]) /\ z = Len(g[m + 1]) /\ w = Len(ss[m + 1])
        OBVIOUS
      <4>1. x \in Nat /\ y \in Nat /\ w \in Nat /\ x <= y /\ z = y + w
        BY <2>2, <2>3, <3>2, <3>3, Zenon
      <4>2. x <= z /\ \A k \in 1 .. x : k \in 1 .. y
        BY ONLY <4>1
      <4> QED
        BY <4>2, Zenon
    <3> QED
      BY <2>2, <3>2, <3>4
  <2> QED
    BY <2>4, <2>5
<1> HIDE DEF T
<1>9. \A i \in 1 .. n : /\ Len(g[i]) <= Len(g[n])
                        /\ \A k \in 1 .. Len(g[i]) : g[n][k] = g[i][k]
  <2>1. n \in T
    BY <1>1, <1>7, <1>8, Induction
  <2> QED
    BY <2>1 DEF T
<1>10. ASSUME NEW i \in 1 .. n, NEW k \in 1 .. Len(ss[i]) PROVE g[n][Len(g[i - 1]) + k] = ss[i][k]
  <2>1. Len(g[i - 1]) \in Nat /\ Len(ss[i]) \in Nat /\ Len(g[i]) = Len(g[i - 1]) + Len(ss[i])
    <3>1. g[i - 1] \in Seq(S) /\ ss[i] \in Seq(S) /\ Len(g[i]) = Len(g[i - 1]) + Len(ss[i])
      BY <1>6, Zenon
    <3> QED
      BY ONLY <3>1, LenProperties
  <2> PICK x, y, z : x = Len(g[i - 1]) /\ y = Len(ss[i]) /\ z = Len(g[i])
    OBVIOUS
  <2>3. x \in Nat /\ y \in Nat /\ z = x + y /\ k \in 1 .. y
    BY <2>1
  <2>4. x + k \in 1 .. z
    BY ONLY <2>3
  <2>2. Len(g[i - 1]) + k \in 1 .. Len(g[i])
    BY <2>4
  <2> QED
    BY <1>6, <1>9, <2>2, ZenonT(60)
<1>11. Contents(f) \in Seq(STRING) /\ Offset(f, 0) = 0 /\ Offset(f, n) = Len(Contents(f))
  <2>1. 0 \in 0 .. n /\ n \in 0 .. n
    BY <1>1
  <2> QED
    BY <1>3, <1>4, <1>5, <2>1
<1>12. \A i \in 0 .. n : Offset(f, i) \in Nat
  BY <1>3, <1>4
<1>13. ASSUME NEW i \in 1 .. n
       PROVE  /\ Offset(f, i) = Offset(f, i - 1) + Len(f.lines[i].text)
              /\ \A k \in 1 .. Len(f.lines[i].text) : Contents(f)[Offset(f, i - 1) + k] = f.lines[i].text[k]
  <2>1. i \in 0 .. n /\ i - 1 \in 0 .. n
    BY <1>1
  <2>2. Offset(f, i) = Len(g[i]) /\ Offset(f, i - 1) = Len(g[i - 1]) /\ ss[i] = f.lines[i].text
    BY <1>1, <1>4, <2>1
  <2>3. Len(g[i]) = Len(g[i - 1]) + Len(ss[i])
    BY <1>6, Zenon
  <2>4. \A k \in 1 .. Len(ss[i]) : g[n][Len(g[i - 1]) + k] = ss[i][k]
    BY <1>10, Zenon
  <2> QED
    BY <1>5, <2>2, <2>3, <2>4, Zenon
<1> QED
  BY <1>11, <1>12, <1>13

-----------------------------------------------------------------------------
(* config_parser.c: the reader's positions in a line.                       *)

\* The text s is in the block from position o on.
Placed(s, o) ==
    /\ s \in Seq(STRING) /\ Len(s) \in Nat /\ o \in Nat /\ Size \in Nat /\ o + Len(s) <= Size
    /\ \A k \in 1 .. Len(s) : At(o + k - 1) = s[k]

Whole == file \in Files /\ file.rest = <<>> /\ text = Contents(file)

LEMMA OffsetsGrow ==
    ASSUME NEW f \in Files, f.rest = <<>>, NEW i \in 0 .. Len(f.lines)
    PROVE  Offset(f, i) <= Len(Contents(f))
<1> PICK n : n = Len(f.lines)
  OBVIOUS
<1> DEFINE T == {m \in Nat : m <= n => Offset(f, n - m) <= Offset(f, n)}
<1>1. /\ n \in Nat /\ \A j \in 0 .. n : Offset(f, j) \in Nat
      /\ \A j \in 1 .. n : Offset(f, j) = Offset(f, j - 1) + Len(f.lines[j].text)
      /\ \A j \in 1 .. n : f.lines[j].text \in Seq(STRING)
  BY LinesAre, OffsetIs
<1>2. 0 \in T
  <2>1. n - 0 = n /\ n \in 0 .. n
    BY <1>1
  <2>2. Offset(f, n) \in Nat
    BY <1>1, <2>1
  <2>3. Offset(f, n - 0) = Offset(f, n)
    BY <2>1, Zenon
  <2> QED
    BY <2>2, <2>3
<1>3. ASSUME NEW m \in Nat, m \in T PROVE m + 1 \in T
  <2> SUFFICES ASSUME m + 1 <= n PROVE Offset(f, n - (m + 1)) <= Offset(f, n)
    OBVIOUS
  <2> PICK j : j = n - m
    OBVIOUS
  <2>1. m <= n /\ j \in 1 .. n /\ n - (m + 1) = j - 1 /\ j - 1 \in 0 .. n /\ n \in 0 .. n
    BY <1>1
  <2>2. Offset(f, j) <= Offset(f, n)
    BY <1>3, <2>1
  <2>3. Offset(f, j) = Offset(f, j - 1) + Len(f.lines[j].text)
    BY <1>1, <2>1
  <2>4. f.lines[j].text \in Seq(STRING)
    BY <1>1, <2>1
  <2>5. Len(f.lines[j].text) \in Nat
    BY <2>4
  <2>6. Offset(f, j - 1) \in Nat /\ Offset(f, n) \in Nat
    BY <1>1, <2>1
  <2>7. Offset(f, j - 1) <= Offset(f, n)
    <3> PICK x, y, z, w : x = Offset(f, j - 1) /\ y = Len(f.lines[j].text) /\ z = Offset(f, n) /\ w = Offset(f, j)
      OBVIOUS
    <3>1. x \in Nat /\ y \in Nat /\ z \in Nat /\ w <= z /\ w = x + y
      BY <2>2, <2>3, <2>5, <2>6
    <3>2. x <= z
      BY ONLY <3>1
    <3> QED
      BY <3>2
  <2> QED
    BY <2>1, <2>7, Zenon
<1> HIDE DEF T
<1>4. n - i \in T
  <2>1. n - i \in Nat
    BY <1>1
  <2> QED
    BY <1>2, <1>3, <2>1, Induction
<1>5. n - i \in Nat /\ n - i <= n /\ n - (n - i) = i
  BY <1>1
<1>6. Offset(f, n - (n - i)) <= Offset(f, n)
  BY <1>4, <1>5 DEF T
<1>7. Offset(f, n) = Len(Contents(f))
  BY OffsetIs
<1> QED
  BY <1>5, <1>6, <1>7, Zenon

\* Every line has its place.
LEMMA LinePlaced ==
    ASSUME Whole, NEW i \in Nat, i < Len(file.lines)
    PROVE  /\ Placed(file.lines[i + 1].text, Offset(file, i))
           /\ Offset(file, i + 1) = Offset(file, i) + Len(file.lines[i + 1].text)
<1> PICK n, j, s, o, size : /\ n = Len(file.lines) /\ j = i + 1 /\ s = file.lines[j].text
                            /\ o = Offset(file, i) /\ size = Size
  OBVIOUS
<1>1. n \in Nat /\ j \in 1 .. n /\ i \in 0 .. n /\ j \in 0 .. n /\ j - 1 = i
  BY LinesAre DEF Whole
<1>2. s \in Seq(STRING)
  BY <1>1, LinesAre DEF Whole
<1>3. Len(s) \in Nat
  BY <1>2
<1>4. /\ o \in Nat /\ text \in Seq(STRING) /\ Offset(file, j) <= size /\ Offset(file, j) \in Nat
  BY <1>1, OffsetIs, OffsetsGrow DEF Whole, Size
<1>5. Offset(file, j) = Offset(file, j - 1) + Len(s) /\ \A k \in 1 .. Len(s) : text[Offset(file, j - 1) + k] = s[k]
  BY <1>1, OffsetIs DEF Whole
<1>6. Offset(file, j) = o + Len(s) /\ \A k \in 1 .. Len(s) : text[o + k] = s[k]
  BY <1>1, <1>5, Zenon
<1>7. size \in Nat
  BY <1>4 DEF Size
<1>8. o + Len(s) <= size
  BY <1>4, <1>6, Zenon
<1>9. ASSUME NEW k \in 1 .. Len(s) PROVE At(o + k - 1) = s[k]
  <2> PICK len, p : len = Len(s) /\ p = o + k - 1
    OBVIOUS
  <2>3. len \in Nat /\ o \in Nat /\ size \in Nat /\ o + len <= size /\ k \in 1 .. len /\ p = o + k - 1
    BY <1>3, <1>4, <1>7, <1>8, Zenon
  <2>4. p < size /\ p + 1 = o + k
    BY ONLY <2>3
  <2>1. o + k - 1 < size /\ (o + k - 1) + 1 = o + k
    BY <2>4, Zenon
  <2>2. At(o + k - 1) = text[(o + k - 1) + 1]
    BY <2>1, Zenon DEF At
  <2> QED
    BY <1>6, <2>1, <2>2, Zenon
<1> QED
  BY <1>2, <1>3, <1>4, <1>6, <1>7, <1>8, <1>9, Zenon DEF Placed

\* White space ends at the first character that is none.
LEMMA SkippedTo ==
    ASSUME Size \in Nat, NEW p \in Nat, NEW q \in Nat, p <= q, q <= Size, q = Size \/ ~isspace(At(q)),
           \A r \in p .. q - 1 : isspace(At(r))
    PROVE  Skipped(p) = q
<1> DEFINE Ends(r) == (r >= Size \/ ~isspace(At(r))) /\ \A m \in p .. r - 1 : isspace(At(m))
<1> PICK size : size = Size
  OBVIOUS
<1>1. size \in Nat /\ p <= size
  OBVIOUS
<1>2. Max({p, Size}) = size
  BY <1>1 DEF Max
<1>3. q \in p .. size /\ Ends(q)
  OBVIOUS
<1>4. ASSUME NEW r \in p .. size, Ends(r) PROVE r = q
  <2>1. CASE r < q
    <3>1. r \in p .. q - 1
      BY <2>1
    <3>2. isspace(At(r))
      BY <3>1
    <3>3. r >= size
      BY <1>4, <3>2
    <3> QED
      BY <1>1, <2>1, <3>3
  <2>2. CASE q < r
    <3>1. q \in p .. r - 1
      BY <1>1, <2>2
    <3>2. isspace(At(q))
      BY <1>4, <3>1
    <3> QED
      BY <1>1, <2>2, <3>2
  <2> QED
    BY <1>1, <2>1, <2>2
<1>5. Skipped(p) = CHOOSE r \in p .. size : Ends(r)
  BY <1>2, Zenon DEF Skipped
<1> HIDE DEF Ends
<1> QED
  BY <1>3, <1>4, <1>5, Zenon

LEMMA SkippedInLine ==
    ASSUME NEW s, NEW o, Placed(s, o), NEW a \in Nat, a >= 1, NEW b, FirstWord(s, a, b)
    PROVE  /\ b \in 1 .. Len(s) /\ a <= b /\ Skipped(o + a - 1) = o + b - 1 /\ o + b - 1 < Size
           /\ At(o + b - 1) = s[b]
<1>1. Len(s) \in Nat /\ o \in Nat /\ Size \in Nat /\ o + Len(s) <= Size
  BY DEF Placed
<1>2. b \in 1 .. Len(s) /\ a <= b /\ ~isspace(s[b]) /\ \A k \in a .. b - 1 : isspace(s[k])
  BY <1>1 DEF FirstWord, Blanks
<1>3. At(o + b - 1) = s[b]
  BY <1>2 DEF Placed
<1>4. ASSUME NEW r \in o + a - 1 .. o + b - 1 - 1 PROVE isspace(At(r))
  <2> PICK k : k = r - o + 1
    OBVIOUS
  <2>1. k \in 1 .. Len(s) /\ k \in a .. b - 1 /\ o + k - 1 = r
    BY <1>1, <1>2
  <2>2. At(o + k - 1) = s[k] /\ isspace(s[k])
    BY <1>2, <2>1 DEF Placed
  <2> QED
    BY <2>1, <2>2, Zenon
<1> PICK p, q : p = o + a - 1 /\ q = o + b - 1
  OBVIOUS
<1>5. p \in Nat /\ q \in Nat /\ p <= q /\ q < Size
  BY <1>1, <1>2
<1>6. ~isspace(At(q)) /\ \A r \in p .. q - 1 : isspace(At(r))
  <2>1. ~isspace(At(q))
    BY <1>2, <1>3, Zenon
  <2>2. ASSUME NEW r \in p .. q - 1 PROVE isspace(At(r))
    <3>1. r \in o + a - 1 .. o + b - 1 - 1
      BY <1>1, <1>2
    <3> QED
      BY <1>4, <3>1, Zenon
  <2> QED
    BY <2>1, <2>2
<1>7. Skipped(p) = q
  BY <1>1, <1>5, <1>6, SkippedTo
<1> QED
  BY <1>2, <1>3, <1>5, <1>7

\* The first place that stops a loop.
LEMMA FirstAt ==
    ASSUME NEW stops \in SUBSET Nat, NEW q \in stops, \A r \in stops : q <= r, NEW limit
    PROVE  FirstOf(stops, limit) = q
<1>1. \A m \in stops : (\A r \in stops : m <= r) => m = q
  <2> SUFFICES ASSUME NEW m \in stops, \A r \in stops : m <= r PROVE m = q
    OBVIOUS
  <2>1. m <= q /\ q <= m /\ m \in Nat /\ q \in Nat
    OBVIOUS
  <2> QED
    BY ONLY <2>1
<1>2. Min(stops) = q
  BY <1>1 DEF Min
<1> QED
  BY <1>2 DEF FirstOf

LEMMA FirstFrom ==
    ASSUME NEW stops \in SUBSET Nat, NEW limit \in Nat, NEW q \in Nat, q <= limit, \A r \in stops : q <= r
    PROVE  /\ FirstOf(stops, limit) \in stops \cup {limit} /\ q <= FirstOf(stops, limit)
           /\ FirstOf(stops, limit) \in Nat /\ (stops = {} => FirstOf(stops, limit) = limit)
<1>1. FirstOf(stops, limit) \in stops \cup {limit}
  BY FirstOfIs
<1> QED
  BY <1>1 DEF FirstOf

LEMMA PieceRead ==
    ASSUME NEW s, NEW o, Placed(s, o), NEW a \in Nat, a >= 1, NEW b \in Nat, a <= b, b <= Len(s) + 1
    PROVE  Between(o + a - 1, o + b - 1) = SubSeq(s, a, b - 1) /\ SubSeq(s, a, b - 1) \in Seq(STRING)
<1>1. s \in Seq(STRING) /\ Len(s) \in Nat /\ o \in Nat
  BY DEF Placed
<1>2. (o + b - 1) - (o + a - 1) = b - a /\ (b - 1) + 1 - a = b - a
  BY <1>1
<1>3. ASSUME NEW i \in 1 .. b - a PROVE At((o + a - 1) + i - 1) = s[a + i - 1]
  <2> PICK k : k = a + i - 1
    OBVIOUS
  <2>1. k \in 1 .. Len(s) /\ (o + a - 1) + i - 1 = o + k - 1
    BY <1>1
  <2>2. At(o + k - 1) = s[k]
    BY <2>1 DEF Placed
  <2> QED
    BY <2>1, <2>2, Zenon
<1>4. Between(o + a - 1, o + b - 1) = [i \in 1 .. b - a |-> At((o + a - 1) + i - 1)]
  BY <1>2, Zenon DEF Between
<1>5. SubSeq(s, a, b - 1) = [i \in 1 .. b - a |-> s[a + i - 1]]
  BY <1>1, <1>2
<1>6. SubSeq(s, a, b - 1) \in Seq(STRING)
  BY <1>1
<1> QED
  BY <1>3, <1>4, <1>5, <1>6

-----------------------------------------------------------------------------
(* config_parser.c: what the reader finds in a line.                        *)

\* The characters of s from place a to the one before b are good ones, at which a loop that begins
\* at p does not stop.
AllGood(s, a, b, good) == \A k \in a .. b - 1 : s[k] \in good
StopsAtOthers(stops, p, good) == stops \in SUBSET Nat /\ \A r \in stops : r >= p /\ At(r) \notin good
NotBefore(stops, q) == \A r \in stops : q <= r

LEMMA StopsFrom ==
    ASSUME NEW s, NEW o, Placed(s, o), NEW a \in Nat, a >= 1, NEW b \in Nat, a <= b, b <= Len(s) + 1,
           NEW good, AllGood(s, a, b, good), NEW stops, StopsAtOthers(stops, o + a - 1, good)
    PROVE  NotBefore(stops, o + b - 1)
<1> USE DEF AllGood, StopsAtOthers, NotBefore
<1> SUFFICES ASSUME NEW r \in stops, r < o + b - 1 PROVE FALSE
  <2>1. o \in Nat
    BY DEF Placed
  <2> QED
    BY <2>1
<1> PICK k, len : k = r - o + 1 /\ len = Len(s)
  OBVIOUS
<1>1. len \in Nat /\ o \in Nat
  BY DEF Placed
<1>2. r \in Nat /\ r >= o + a - 1
  OBVIOUS
<1>3. k \in a .. b - 1 /\ k \in 1 .. len /\ o + k - 1 = r
  BY <1>1, <1>2
<1>4. At(o + k - 1) = s[k]
  BY <1>3, Zenon DEF Placed
<1>5. s[k] \in good /\ At(r) \notin good
  BY <1>3
<1> QED
  BY <1>3, <1>4, <1>5, Zenon

Failing == pc' = "returned" /\ parse_error' = TRUE

\* The end of a name, and what is done there.
LEMMA OptionInLine ==
    ASSUME NEW l, NEW o, Placed(l.text, o), NEW a \in Nat, a >= 1, a <= Len(l.text), OptionAt(l, a),
           line_pos = o + a - 1, ReadOption
    PROVE  \/ pc' = "crashed"
           \/ Failing /\ ~l.readable
           \/ \E b \in 1 .. Len(l.text) : /\ pc' = "equals" /\ line_pos' = o + b - 1
                                          /\ UNCHANGED parse_error /\ EqualsAt(l, opt', b)
<1> PICK s : s = l.text
  OBVIOUS
<1>1. PICK b \in a .. Len(s) :
        /\ b - a <= MAX_OPT_LEN /\ \A k \in a .. b - 1 : InName(s[k])
        /\ IF b - a = MAX_OPT_LEN
           THEN ~l.readable
           ELSE ~InName(s[b]) /\ IF b = a THEN ~l.readable ELSE EqualsAt(l, SubSeq(s, a, b - 1), b)
  BY Zenon DEF OptionAt
<1> DEFINE good == {c \in STRING : InName(c)}
           stops == {q \in line_pos .. Size : ~isprint(At(q)) \/ At(q) \in {Space, "#", "="}}
           p == FirstOf(stops, Size + 1)
<1>2. s \in Seq(STRING) /\ Len(s) \in Nat /\ o \in Nat /\ Size \in Nat /\ o + Len(s) <= Size /\ Placed(s, o)
  BY DEF Placed
<1>3. b \in Nat /\ b \in 1 .. Len(s) /\ a <= b /\ b <= Len(s) + 1
  BY <1>2
<1> USE <1>2, <1>3
<1>4. At(o + b - 1) = s[b] /\ s[b] \in STRING
  BY <1>2, <1>3 DEF Placed
<1>5. \A c : ~InName(c) <=> (~isprint(c) \/ c \in {Space, "#", "="})
  BY DEF InName, InWord
<1>6. stops \in SUBSET Nat /\ \A r \in stops : r >= o + a - 1 /\ At(r) \notin good
  BY <1>2, <1>5
<1>7. \A k \in a .. b - 1 : s[k] \in good
  <2> SUFFICES ASSUME NEW k \in a .. b - 1 PROVE s[k] \in good
    OBVIOUS
  <2>1. k \in 1 .. Len(s)
    BY <1>2, <1>3
  <2> QED
    BY <1>1, <1>2, <2>1
<1>8. \A r \in stops : o + b - 1 <= r
  <2> HIDE DEF good, stops
  <2> QED
    <3>1. StopsAtOthers(stops, o + a - 1, good)
      BY <1>6 DEF StopsAtOthers
    <3>2. AllGood(s, a, b, good)
      BY <1>7 DEF AllGood
    <3>3. NotBefore(stops, o + b - 1)
      BY <3>1, <3>2, StopsFrom, Zenon
    <3> QED
      BY <3>3 DEF NotBefore
<1>9. \/ pc' = "crashed"
      \/ Failing /\ (p - line_pos = 0 \/ p - line_pos >= MAX_OPT_LEN)
      \/ /\ pc' = "equals" /\ line_pos' = p /\ opt' = Between(line_pos, p) /\ UNCHANGED parse_error
         /\ ~(p - line_pos = 0 \/ p - line_pos >= MAX_OPT_LEN)
  BY Zenon DEF ReadOption, Goto, Failing
<1>10. CASE b - a = MAX_OPT_LEN
  <2>1. o + b - 1 <= Size + 1 /\ o + b - 1 \in Nat /\ Size + 1 \in Nat
    BY <1>2, <1>3
  <2> HIDE DEF stops
  <2>2. o + b - 1 <= p /\ p \in Nat
    BY <1>6, <1>8, <2>1, FirstFrom
  <2>3. p - line_pos >= MAX_OPT_LEN
    BY <1>2, <1>3, <1>10, <2>2
  <2> QED
    BY <1>1, <1>9, <1>10, <2>3
<1>11. CASE b - a # MAX_OPT_LEN
  <2> PICK q : q = o + b - 1
    OBVIOUS
  <2>1. q \in Nat /\ q \in line_pos .. Size
    BY <1>2, <1>3
  <2>2. ~InName(At(q))
    BY <1>1, <1>4, <1>11, Zenon
  <2>3. q \in stops
    BY <1>5, <2>1, <2>2
  <2>4. \A r \in stops : q <= r
    BY <1>8
  <2> HIDE DEF stops
  <2>5. p = q
    BY <1>6, <2>3, <2>4, FirstAt
  <2>6. p - line_pos = b - a
    BY <1>2, <1>3, <2>5
  <2>7. b - a < MAX_OPT_LEN
    BY <1>1, <1>3, <1>11, ConfigAssumption
  <2>8. Between(line_pos, p) = SubSeq(s, a, b - 1)
    <3>1. Between(o + a - 1, o + b - 1) = SubSeq(s, a, b - 1)
      BY ONLY Placed(s, o), a \in Nat, a >= 1, b \in Nat, a <= b, b <= Len(s) + 1, PieceRead, Zenon
    <3> QED
      BY <2>5, <3>1, Zenon
  <2>9. CASE b = a
    <3>1. p - line_pos = 0 /\ ~l.readable
      BY <1>1, <1>11, <2>6, <2>9
    <3> QED
      BY <1>9, <3>1
  <2>10. CASE b # a
    <3>1. ~(p - line_pos = 0 \/ p - line_pos >= MAX_OPT_LEN)
      BY <1>3, <2>6, <2>7, <2>10, ConfigAssumption
    <3>2. EqualsAt(l, SubSeq(s, a, b - 1), b)
      BY <1>1, <1>11, <2>10
    <3>3. \/ pc' = "crashed"
          \/ pc' = "equals" /\ line_pos' = o + b - 1 /\ opt' = SubSeq(s, a, b - 1) /\ UNCHANGED parse_error
      BY <1>9, <2>5, <2>8, <3>1
    <3> QED
      BY <1>3, <3>2, <3>3
  <2> QED
    BY <2>9, <2>10
<1> QED
  BY <1>10, <1>11

\* The equals sign.
LEMMA EqualsInLine ==
    ASSUME NEW l, NEW o, Placed(l.text, o), NEW a \in Nat, a >= 1, EqualsAt(l, opt, a),
           line_pos = o + a - 1, ReadEquals
    PROVE  \/ Fail /\ ~l.readable
           \/ \E e \in 2 .. Len(l.text) + 1 : /\ pc' = "value" /\ line_pos' = o + e - 1
                                              /\ UNCHANGED <<opt, parse_error>> /\ ParamAt(l, opt, e)
<1> PICK s : s = l.text
  OBVIOUS
<1>1. PICK e \in a .. Len(s) : FirstWord(s, a, e) /\ IF s[e] = "=" THEN ParamAt(l, opt, e + 1) ELSE ~l.readable
  BY Zenon DEF EqualsAt
<1>2. Len(s) \in Nat /\ o \in Nat /\ Placed(s, o)
  BY DEF Placed
<1> PICK p : p = o + e - 1
  OBVIOUS
<1>3. e \in 1 .. Len(s) /\ Skipped(line_pos) = p /\ p < Size /\ At(p) = s[e]
  BY <1>1, <1>2, SkippedInLine
<1>4. p + 1 = o + (e + 1) - 1 /\ ~(p >= Size) /\ e + 1 \in 2 .. Len(s) + 1
  <2>1. Size \in Nat
    BY DEF Placed
  <2> QED
    BY <1>2, <1>3, <2>1
<1>5. CASE s[e] = "="
  <2>1. pc' = "value" /\ line_pos' = p + 1 /\ UNCHANGED <<opt, parse_error>>
    BY <1>3, <1>4, <1>5 DEF ReadEquals, Goto
  <2>2. ParamAt(l, opt, e + 1)
    BY <1>1, <1>5
  <2> QED
    BY <1>4, <2>1, <2>2
<1>6. CASE s[e] # "="
  <2>1. Fail
    BY <1>3, <1>4, <1>6 DEF ReadEquals
  <2> QED
    BY <1>1, <1>6, <2>1
<1> QED
  BY <1>5, <1>6

\* What reading a parameter comes to.
ParamFound(l, o) ==
    \/ Fail /\ ~l.readable
    \/ \E w \in 1 .. Len(l.text) + 1 :
         /\ pc' = "set" /\ line_pos' = o + w - 1 /\ UNCHANGED <<opt, parse_error>>
         /\ param' \in Seq(STRING) /\ Carries(l, opt, param', w)

LEMMA ClosedInLine ==
    ASSUME NEW l, NEW o, Placed(l.text, o), NEW v \in Nat, v >= 1, NEW closing, NEW breaks,
           ClosedAt(l, opt, v, closing, breaks), NEW p, p = o + v - 1, Closed(p, closing, breaks)
    PROVE  ParamFound(l, o)
<1> PICK s : s = l.text
  OBVIOUS
<1>1. PICK w \in v .. Len(s) :
        /\ w - v <= MAX_PARAM_LEN /\ \A k \in v .. w - 1 : s[k] \notin {closing} \cup breaks
        /\ IF s[w] = closing
           THEN Carries(l, opt, SubSeq(s, v, w - 1), w + 1)
           ELSE ~l.readable /\ (s[w] \in breaks \/ w - v = MAX_PARAM_LEN)
  BY Zenon DEF ClosedAt
<1> DEFINE good == STRING \ ({closing} \cup breaks)
<1>2. s \in Seq(STRING) /\ Len(s) \in Nat /\ o \in Nat /\ Size \in Nat /\ o + Len(s) <= Size /\ Placed(s, o)
  BY DEF Placed
<1>3. w \in Nat /\ w \in 1 .. Len(s) /\ v <= w /\ w <= Len(s) + 1 /\ w + 1 \in 1 .. Len(s) + 1
  BY <1>2
<1> PICK q, limit : q = o + w - 1 /\ limit = IF p + MAX_PARAM_LEN <= Size THEN p + MAX_PARAM_LEN ELSE Size
  OBVIOUS
<1> DEFINE stops == {r \in p .. limit - 1 : At(r) \in {closing} \cup breaks}
<1>4. At(q) = s[w] /\ s[w] \in STRING
  <2>1. At(o + w - 1) = s[w] /\ s[w] \in STRING
    BY <1>2, <1>3 DEF Placed
  <2> QED
    BY <2>1, Zenon
<1>5. /\ MAX_PARAM_LEN \in Nat /\ p \in Nat /\ q \in Nat /\ p <= q /\ q < Size /\ limit \in Nat
      /\ q - p = w - v /\ q <= limit /\ (w - v = MAX_PARAM_LEN => q = limit) /\ (w - v # MAX_PARAM_LEN => q < limit)
  <2>1. MAX_PARAM_LEN \in Nat
    BY ConfigAssumption
  <2> QED
    BY <1>1, <1>2, <1>3, <2>1
<1>6. Min({p + MAX_PARAM_LEN, Size}) = limit
  BY <1>2, <1>5 DEF Min
<1>7. StopsAtOthers(stops, o + v - 1, good)
  <2> SUFFICES ASSUME NEW r \in stops PROVE r \in Nat /\ r >= p /\ At(r) \notin good
    BY DEF StopsAtOthers
  <2>1. r \in p .. limit - 1 /\ At(r) \in {closing} \cup breaks
    OBVIOUS
  <2>2. r \in Nat /\ r >= p
    BY ONLY <1>5, <2>1
  <2> QED
    BY <2>1, <2>2
<1>8. AllGood(s, v, w, good)
  <2> SUFFICES ASSUME NEW k \in v .. w - 1 PROVE s[k] \in good
    BY DEF AllGood
  <2>1. k \in 1 .. Len(s)
    BY <1>2, <1>3
  <2> QED
    BY <1>1, <1>2, <2>1
<1>9. NotBefore(stops, q)
  <2> HIDE DEF good, stops
  <2>1. NotBefore(stops, o + w - 1)
    BY <1>2, <1>3, <1>7, <1>8, StopsFrom, Zenon
  <2> QED
    BY <2>1, Zenon
<1>10. stops \in SUBSET Nat /\ \A r \in stops : q <= r
  BY <1>7, <1>9 DEF NotBefore, StopsAtOthers
<1>11. q \in stops \/ q = limit
  <2>1. CASE w - v = MAX_PARAM_LEN
    BY <1>5, <2>1
  <2>2. CASE w - v # MAX_PARAM_LEN
    <3>1. At(q) \in {closing} \cup breaks
      BY <1>1, <1>4, <2>2, Zenon
    <3>2. q \in p .. limit - 1
      <4>1. q < limit
        BY <1>5, <2>2, Zenon
      <4> QED
        BY ONLY <1>5, <4>1
    <3> QED
      BY <3>1, <3>2
  <2> QED
    BY <2>1, <2>2
<1>12. \A r \in stops : r < limit
  BY <1>5, SMTT(60)
<1>13. FirstOf(stops, limit) = q
  <2> HIDE DEF stops
  <2>1. CASE q \in stops
    BY <1>10, <2>1, FirstAt
  <2>2. CASE q = limit
    <3>1. stops = {}
      <4> SUFFICES ASSUME NEW r \in stops PROVE FALSE
        OBVIOUS
      <4>1. q <= r /\ r < limit /\ r \in Nat
        BY <1>10, <1>12
      <4> QED
        BY <1>5, <2>2, <4>1, SMTT(60)
    <3> QED
      BY <2>2, <3>1 DEF FirstOf
  <2> QED
    BY <1>11, <2>1, <2>2
<1>14. IF At(q) = closing
       THEN Goto("set", q + 1) /\ param' = Between(p, q) /\ UNCHANGED <<opt, parse_error>>
       ELSE Fail
  BY <1>6, <1>13, Zenon DEF Closed
<1>15. Between(p, q) = SubSeq(s, v, w - 1) /\ SubSeq(s, v, w - 1) \in Seq(STRING)
  <2>1. Between(o + v - 1, o + w - 1) = SubSeq(s, v, w - 1) /\ SubSeq(s, v, w - 1) \in Seq(STRING)
    BY ONLY Placed(s, o), v \in Nat, v >= 1, <1>2, <1>3, PieceRead, Zenon
  <2> QED
    BY <2>1, Zenon
<1>16. CASE s[w] = closing
  <2>1. q + 1 = o + (w + 1) - 1
    BY <1>2, <1>3
  <2>2. Carries(l, opt, SubSeq(s, v, w - 1), w + 1)
    BY <1>1, <1>16
  <2>3. pc' = "set" /\ line_pos' = q + 1 /\ param' = SubSeq(s, v, w - 1) /\ UNCHANGED <<opt, parse_error>>
    BY <1>4, <1>14, <1>15, <1>16, Zenon DEF Goto
  <2> QED
    BY <1>3, <1>15, <2>1, <2>2, <2>3, Zenon DEF ParamFound
<1>17. CASE s[w] # closing
  BY <1>1, <1>4, <1>14, <1>17, Zenon DEF ParamFound
<1> QED
  BY <1>16, <1>17

LEMMA WordInLine ==
    ASSUME NEW l, NEW o, Placed(l.text, o), NEW v \in Nat, v >= 1, WordAt(l, opt, v),
           NEW p, p = o + v - 1, ReadPlain(p)
    PROVE  ParamFound(l, o)
<1> PICK s : s = l.text
  OBVIOUS
<1>1. PICK w \in v .. Len(s) :
        /\ w - v <= MAX_PARAM_LEN /\ \A k \in v .. w - 1 : InWord(s[k])
        /\ IF w - v = MAX_PARAM_LEN
           THEN ~l.readable
           ELSE ~InWord(s[w]) /\ Carries(l, opt, SubSeq(s, v, w - 1), w)
  BY Zenon DEF WordAt
<1> DEFINE good == {c \in STRING : InWord(c)}
           stops == {r \in p .. Size : ~isprint(At(r)) \/ At(r) \in {Space, "#"}}
           first == FirstOf(stops, Size + 1)
<1>2. s \in Seq(STRING) /\ Len(s) \in Nat /\ o \in Nat /\ Size \in Nat /\ o + Len(s) <= Size /\ Placed(s, o)
  BY DEF Placed
<1>3. w \in Nat /\ w \in 1 .. Len(s) /\ v <= w /\ w <= Len(s) + 1 /\ w \in 1 .. Len(s) + 1
  BY <1>2
<1> PICK q : q = o + w - 1
  OBVIOUS
<1>4. At(q) = s[w] /\ s[w] \in STRING
  <2>1. At(o + w - 1) = s[w] /\ s[w] \in STRING
    BY <1>2, <1>3 DEF Placed
  <2> QED
    BY <2>1, Zenon
<1>5. /\ MAX_PARAM_LEN \in Nat /\ p \in Nat /\ q \in Nat /\ p <= q /\ q < Size /\ q - p = w - v
  <2>1. MAX_PARAM_LEN \in Nat
    BY ConfigAssumption
  <2> QED
    BY ONLY <1>2, <1>3, <2>1, v \in Nat, v >= 1, p = o + v - 1, q = o + w - 1
<1>6. \A c : ~InWord(c) <=> (~isprint(c) \/ c \in {Space, "#"})
  BY DEF InWord
<1>7. StopsAtOthers(stops, o + v - 1, good)
  BY <1>2, <1>5, <1>6 DEF StopsAtOthers
<1>8. AllGood(s, v, w, good)
  <2> SUFFICES ASSUME NEW k \in v .. w - 1 PROVE s[k] \in good
    BY DEF AllGood
  <2>1. k \in 1 .. Len(s)
    BY <1>2, <1>3
  <2> QED
    BY <1>1, <1>2, <2>1
<1>9. NotBefore(stops, q)
  <2> HIDE DEF good, stops
  <2>1. NotBefore(stops, o + w - 1)
    BY <1>2, <1>3, <1>7, <1>8, StopsFrom, Zenon
  <2> QED
    BY <2>1, Zenon
<1>10. stops \in SUBSET Nat /\ \A r \in stops : q <= r
  BY <1>7, <1>9 DEF NotBefore, StopsAtOthers
<1>11. IF first - p >= MAX_PARAM_LEN
       THEN Fail
       ELSE Goto("set", first) /\ param' = Between(p, first) /\ UNCHANGED <<opt, parse_error>>
  BY Zenon DEF ReadPlain
<1>12. CASE w - v = MAX_PARAM_LEN
  <2> HIDE DEF stops
  <2>1. first \in Nat /\ q <= first
    <3>1. Size + 1 \in Nat /\ q <= Size + 1
      BY <1>2, <1>5
    <3> QED
      BY <1>5, <1>10, <3>1, FirstFrom
  <2> HIDE DEF first
  <2>2. first - p >= MAX_PARAM_LEN
    BY <1>5, <1>12, <2>1
  <2> QED
    BY <1>1, <1>11, <1>12, <2>2, Zenon DEF ParamFound
<1>13. CASE w - v # MAX_PARAM_LEN
  <2>1. q \in stops
    <3>1. ~InWord(At(q))
      BY <1>1, <1>4, <1>13, Zenon
    <3>2. q \in p .. Size
      BY <1>2, <1>5
    <3> QED
      BY <1>6, <3>1, <3>2
  <2> HIDE DEF stops
  <2>2. first = q
    BY <1>10, <2>1, FirstAt
  <2> HIDE DEF first
  <2>3. ~(q - p >= MAX_PARAM_LEN)
    BY <1>1, <1>3, <1>5, <1>13
  <2>4. Between(p, q) = SubSeq(s, v, w - 1) /\ SubSeq(s, v, w - 1) \in Seq(STRING)
    <3>1. Between(o + v - 1, o + w - 1) = SubSeq(s, v, w - 1) /\ SubSeq(s, v, w - 1) \in Seq(STRING)
      BY ONLY Placed(s, o), v \in Nat, v >= 1, <1>2, <1>3, PieceRead, Zenon
    <3> QED
      BY <3>1, Zenon
  <2>5. Carries(l, opt, SubSeq(s, v, w - 1), w)
    BY <1>1, <1>13
  <2>6. pc' = "set" /\ line_pos' = q /\ param' = SubSeq(s, v, w - 1) /\ UNCHANGED <<opt, parse_error>>
    BY <1>11, <2>2, <2>3, <2>4, Zenon DEF Goto
  <2> QED
    BY <1>3, <2>4, <2>5, <2>6, Zenon DEF ParamFound
<1> QED
  BY <1>12, <1>13

\* The parameter of a line.
LEMMA ParamInLine ==
    ASSUME NEW l, NEW o, Placed(l.text, o), NEW a \in Nat, a >= 1, ParamAt(l, opt, a),
           line_pos = o + a - 1, ReadParam
    PROVE  ParamFound(l, o)
<1> PICK s : s = l.text
  OBVIOUS
<1>1. PICK v \in a .. Len(s) :
        /\ FirstWord(s, a, v)
        /\ CASE s[v] \in Quotes -> ClosedAt(l, opt, v + 1, s[v], {Newline})
             [] s[v] = "{" -> ClosedAt(l, opt, v + 1, "}", {})
             [] OTHER -> WordAt(l, opt, v)
  BY Zenon DEF ParamAt
<1>2. Len(s) \in Nat /\ o \in Nat /\ Placed(s, o) /\ Size \in Nat
  BY DEF Placed
<1> PICK p : p = o + v - 1
  OBVIOUS
<1>3. v \in 1 .. Len(s) /\ Skipped(line_pos) = p /\ p < Size /\ At(p) = s[v]
  <2>1. /\ v \in 1 .. Len(s) /\ Skipped(o + a - 1) = o + v - 1 /\ o + v - 1 < Size
        /\ At(o + v - 1) = s[v]
    <3>1. FirstWord(s, a, v)
      BY <1>1
    <3> QED
      BY ONLY <1>2, <3>1, a \in Nat, a >= 1, SkippedInLine
  <2> QED
    BY <2>1, Zenon
<1>4. p + 1 = o + (v + 1) - 1 /\ ~(p >= Size) /\ v + 1 \in Nat /\ v + 1 >= 1 /\ v \in Nat /\ v >= 1
  BY <1>2, <1>3
<1>5. ReadQuoted(p) \/ ReadBraced(p) \/ ReadPlain(p)
  BY <1>3, <1>4, Zenon DEF ReadParam
<1>6. "{" \notin Quotes
  BY DEF Quotes
<1>7. CASE ReadQuoted(p)
  <2>1. s[v] \in Quotes /\ Closed(p + 1, s[v], {Newline})
    BY <1>3, <1>7, Zenon DEF ReadQuoted
  <2>2. ClosedAt(l, opt, v + 1, s[v], {Newline})
    BY <1>1, <1>6, <2>1
  <2> QED
    BY <1>4, <2>1, <2>2, ClosedInLine, Zenon
<1>8. CASE ReadBraced(p)
  <2>1. s[v] = "{" /\ Closed(p + 1, "}", {})
    BY <1>3, <1>8, Zenon DEF ReadBraced
  <2>2. ClosedAt(l, opt, v + 1, "}", {})
    BY <1>1, <1>6, <2>1
  <2> QED
    BY <1>4, <2>1, <2>2, ClosedInLine, Zenon
<1>9. CASE ReadPlain(p)
  <2>1. s[v] \notin Quotes \cup {"{"}
    BY <1>3, <1>9, Zenon DEF ReadPlain
  <2>2. WordAt(l, opt, v)
    BY <1>1, <2>1
  <2> QED
    BY <1>4, <1>9, <2>2, WordInLine, Zenon
<1> QED
  BY <1>5, <1>7, <1>8, <1>9

-----------------------------------------------------------------------------
(* config_parser.c: between two options.                                    *)

\* The text between the reader and the beginning of the next line at o: white space, and a comment.
Blank(p, q) == \A r \in p .. q - 1 : isspace(At(r))
Commented(p, o) == p \in Nat /\ p < o /\ At(o - 1) = Newline /\ \A r \in p .. o - 2 : At(r) # Newline
Resting(p, o) ==
    /\ p \in Nat /\ p <= o
    /\ Blank(p, o) \/ \E c \in p .. o - 1 : Blank(p, c) /\ At(c) = "#" /\ Commented(c, o)

LEMMA CommentPlaced ==
    ASSUME NEW s, NEW o, Placed(s, o), NEW b \in 1 .. Len(s), s[Len(s)] = Newline,
           \A k \in b .. Len(s) - 1 : s[k] # Newline
    PROVE  Commented(o + b - 1, o + Len(s))
<1> PICK len : len = Len(s)
  OBVIOUS
<1>1. len \in Nat /\ o \in Nat /\ b \in 1 .. len
  BY DEF Placed
<1>2. At((o + len) - 1) = Newline
  <2>1. len \in 1 .. Len(s) /\ (o + len) - 1 = o + len - 1
    BY <1>1
  <2>2. At(o + len - 1) = Newline
    BY <2>1 DEF Placed
  <2> QED
    BY <2>1, <2>2, Zenon
<1>3. ASSUME NEW r \in o + b - 1 .. (o + len) - 2 PROVE At(r) # Newline
  <2> PICK k : k = r - o + 1
    OBVIOUS
  <2>1. k \in 1 .. len /\ k \in b .. len - 1 /\ o + k - 1 = r
    BY <1>1
  <2>2. At(o + k - 1) = s[k] /\ s[k] # Newline
    BY <2>1 DEF Placed
  <2> QED
    BY <2>1, <2>2, Zenon
<1>4. o + b - 1 \in Nat /\ o + b - 1 < o + len
  BY <1>1
<1>5. Commented(o + b - 1, o + len)
  BY <1>2, <1>3, <1>4 DEF Commented
<1> QED
  BY <1>5, Zenon

LEMMA BlankPlaced ==
    ASSUME NEW s, NEW o, Placed(s, o), NEW a \in Nat, a >= 1, NEW b \in Nat, a <= b, b <= Len(s) + 1,
           Blanks(s, a, b - 1)
    PROVE  Blank(o + a - 1, o + b - 1)
<1> SUFFICES ASSUME NEW r \in o + a - 1 .. (o + b - 1) - 1 PROVE isspace(At(r))
  BY DEF Blank
<1> PICK len, k : len = Len(s) /\ k = r - o + 1
  OBVIOUS
<1>1. len \in Nat /\ o \in Nat
  BY DEF Placed
<1>2. k \in 1 .. len /\ k \in a .. b - 1 /\ o + k - 1 = r
  BY <1>1
<1>3. At(o + k - 1) = s[k] /\ isspace(s[k])
  BY <1>2 DEF Placed, Blanks
<1> QED
  BY <1>2, <1>3, Zenon

\* The rest of a line that is read.
LEMMA EndsResting ==
    ASSUME NEW s, NEW o, Placed(s, o), NEW a \in 1 .. Len(s) + 1, EndsAt(s, a)
    PROVE  Resting(o + a - 1, o + Len(s))
<1> PICK len : len = Len(s)
  OBVIOUS
<1>1. len \in Nat /\ o \in Nat /\ a \in Nat /\ a >= 1 /\ a <= len + 1 /\ o + len = o + (len + 1) - 1
  BY DEF Placed
<1>2. o + a - 1 \in Nat /\ o + a - 1 <= o + len
  BY <1>1
<1>3. CASE Blanks(s, a, len)
  <2>1. len + 1 \in Nat /\ a <= len + 1 /\ len + 1 <= len + 1 /\ (len + 1) - 1 = len
    BY <1>1
  <2>2. Blank(o + a - 1, o + (len + 1) - 1)
    BY <1>1, <1>3, <2>1, BlankPlaced, Zenon
  <2>3. Blank(o + a - 1, o + len)
    BY <1>1, <2>2, Zenon
  <2> QED
    BY <1>2, <2>3, Zenon DEF Resting
<1>4. CASE /\ s[len] = Newline
           /\ \E b \in a .. len : FirstWord(s, a, b) /\ s[b] = "#" /\ \A k \in b .. len - 1 : s[k] # Newline
  <2> PICK b \in a .. len : FirstWord(s, a, b) /\ s[b] = "#" /\ \A k \in b .. len - 1 : s[k] # Newline
    BY <1>4
  <2>1. b \in 1 .. Len(s) /\ b \in Nat /\ a <= b /\ b <= Len(s) + 1
    BY <1>1
  <2>2. Blank(o + a - 1, o + b - 1)
    <3>1. Blanks(s, a, b - 1)
      BY DEF FirstWord
    <3> QED
      BY ONLY Placed(s, o), <1>1, <2>1, <3>1, BlankPlaced, Zenon
  <2>3. Commented(o + b - 1, o + len)
    BY <1>4, <2>1, CommentPlaced, Zenon
  <2>4. At(o + b - 1) = "#"
    BY <2>1 DEF Placed
  <2>5. o + b - 1 \in (o + a - 1) .. (o + len) - 1
    BY <1>1, <2>1
  <2> QED
    BY <1>2, <2>2, <2>3, <2>4, <2>5, Zenon DEF Resting
<1> QED
  BY <1>3, <1>4 DEF EndsAt

\* The first word of a line tells whether the line is a comment.
LEMMA LineBegins ==
    ASSUME NEW l, LineIs(l), l.text \in Seq(STRING)
    PROVE  \/ WithoutOption(l) /\ Blanks(l.text, 1, Len(l.text))
           \/ \E b \in 1 .. Len(l.text) :
                /\ FirstWord(l.text, 1, b)
                /\ \/ /\ WithoutOption(l) /\ l.text[b] = "#" /\ l.text[Len(l.text)] = Newline
                      /\ \A k \in b .. Len(l.text) - 1 : l.text[k] # Newline
                   \/ l.text[b] # "#" /\ OptionAt(l, b)
<1> PICK s, len : s = l.text /\ len = Len(l.text)
  OBVIOUS
<1>1. len \in Nat
  OBVIOUS
<1>2. CASE WithoutOption(l)
  <2>1. \/ Blanks(s, 1, len)
        \/ /\ s[len] = Newline
           /\ \E b \in 1 .. len : FirstWord(s, 1, b) /\ s[b] = "#" /\ \A k \in b .. len - 1 : s[k] # Newline
    BY <1>2, Zenon DEF WithoutOption, EndsAt
  <2> QED
    BY <1>2, <2>1
<1>3. CASE \E a \in 1 .. len : FirstWord(s, 1, a) /\ s[a] # "#" /\ OptionAt(l, a)
  BY <1>3
<1> QED
  BY <1>2, <1>3, Zenon DEF LineIs

\* Where the reader gets to from a position between two options: before the end of line j, in a comment or
\* in front of an option, or at the end.
Landing(j, p) ==
    \/ j = Len(file.lines) /\ p >= Size
    \/ ~(p >= Size) /\ At(p) = "#" /\ Commented(p, Offset(file, j))
    \/ /\ ~(p >= Size) /\ At(p) # "#" /\ j < Len(file.lines)
       /\ \E a \in 1 .. Len(file.lines[j + 1].text) :
            p = Offset(file, j) + a - 1 /\ OptionAt(file.lines[j + 1], a)

\* The lines up to j are read and mean the same as those up to i.
SameTo(i, j) == j \in Nat /\ ReadTo(file, j) /\ Meaning(Upto(file, j)) = Meaning(Upto(file, i))

LEMMA OffsetPlace ==
    ASSUME Whole, NEW i \in Nat, i <= Len(file.lines)
    PROVE  /\ Offset(file, i) \in Nat /\ Offset(file, i) <= Size /\ Size \in Nat /\ Len(file.lines) \in Nat
           /\ Offset(file, Len(file.lines)) = Size
<1>1. file.lines \in Seq(ToSet(file.lines)) /\ Len(file.lines) \in Nat
  BY LinesAre DEF Whole
<1>2. i \in 0 .. Len(file.lines)
  BY <1>1
<1>3. text \in Seq(STRING) /\ text = Contents(file)
  BY OffsetIs DEF Whole
<1>4. Size \in Nat
  BY <1>3 DEF Size
<1>5. Offset(file, i) <= Len(Contents(file)) /\ Offset(file, i) \in Nat
  BY <1>2, OffsetIs, OffsetsGrow DEF Whole
<1>6. Offset(file, Len(file.lines)) = Len(Contents(file))
  BY OffsetIs DEF Whole
<1> QED
  BY <1>1, <1>3, <1>4, <1>5, <1>6, Zenon DEF Size

\* One line without an option more.
LEMMA OneMore ==
    ASSUME Whole, NEW i \in Nat, i < Len(file.lines), ReadTo(file, i), WithoutOption(file.lines[i + 1])
    PROVE  SameTo(i, i + 1)
<1>1. file \in Files /\ Len(file.lines) \in Nat
  BY LinesAre DEF Whole
<1>2. ReadTo(file, i + 1)
  BY <1>1 DEF ReadTo, WithoutOption
<1>3. Meaning(Upto(file, i + 1)) = Meaning(Upto(file, i))
  BY <1>1, <1>2, NothingMore
<1> QED
  BY <1>2, <1>3 DEF SameTo

LEMMA BlankMore ==
    ASSUME NEW p \in Nat, NEW q \in Nat, NEW r \in Nat, Blank(p, q), Blank(q, r)
    PROVE  Blank(p, r)
<1> SUFFICES ASSUME NEW k \in p .. r - 1 PROVE isspace(At(k))
  BY DEF Blank
<1>1. k \in p .. q - 1 \/ k \in q .. r - 1
  OBVIOUS
<1> QED
  BY <1>1 DEF Blank

LEMMA BlankSkipped ==
    ASSUME Size \in Nat, NEW p \in Nat, NEW q \in Nat, p <= q, q <= Size, Blank(p, q),
           q = Size \/ ~isspace(At(q))
    PROVE  Skipped(p) = q
<1>1. \A r \in p .. q - 1 : isspace(At(r))
  BY Zenon DEF Blank
<1> QED
  BY <1>1, SkippedTo

LEMMA HashIsWord == ~isspace("#")
BY DEF isspace, Space, Newline

\* From the end of line i.
LEMMA LandedNext ==
    ASSUME Whole, NEW i \in Nat, i < Len(file.lines), ReadTo(file, i), NEW p \in Nat, p <= Offset(file, i),
           Blank(p, Offset(file, i))
    PROVE  \/ SameTo(i, i + 1) /\ p <= Offset(file, i + 1) /\ Blank(p, Offset(file, i + 1))
           \/ \E j : SameTo(i, j) /\ Landing(j, Skipped(p))
<1> PICK l, s, len, o, e, size :
       /\ l = file.lines[i + 1] /\ s = l.text /\ len = Len(s) /\ o = Offset(file, i)
       /\ e = Offset(file, i + 1) /\ size = Size
  OBVIOUS
<1>1. Placed(s, o) /\ e = o + len
  BY LinePlaced, Zenon
<1>2. LineIs(l) /\ s \in Seq(STRING)
  <2>1. i + 1 \in 1 .. Len(file.lines)
    BY LinesAre DEF Whole
  <2> QED
    BY <2>1, LinesAre DEF Whole
<1>3. len \in Nat /\ o \in Nat /\ size \in Nat /\ o + len <= size
  BY <1>1, Zenon DEF Placed
<1>4. CASE WithoutOption(l) /\ Blanks(s, 1, len)
  <2>1. SameTo(i, i + 1)
    BY <1>4, OneMore, Zenon
  <2>2. Blank(o, e)
    <3>1. 1 \in Nat /\ 1 >= 1 /\ len + 1 \in Nat /\ 1 <= len + 1 /\ len + 1 <= len + 1 /\ (len + 1) - 1 = len
      BY <1>3, SMTT(60)
    <3>2. Blank(o + 1 - 1, o + (len + 1) - 1)
      BY <1>1, <1>4, <3>1, BlankPlaced, Zenon
    <3>3. o + 1 - 1 = o /\ o + (len + 1) - 1 = e
      BY <1>1, <1>3
    <3> QED
      BY <3>2, <3>3, Zenon
  <2>3. e \in Nat /\ p <= e
    BY ONLY <1>1, <1>3, p \in Nat, p <= Offset(file, i), o = Offset(file, i)
  <2>4. Blank(p, e)
    BY <1>3, <2>2, <2>3, BlankMore, Zenon
  <2> QED
    BY <2>1, <2>3, <2>4, Zenon
<1>5. CASE \E b \in 1 .. len :
             /\ FirstWord(s, 1, b)
             /\ \/ /\ WithoutOption(l) /\ s[b] = "#" /\ s[len] = Newline
                   /\ \A k \in b .. len - 1 : s[k] # Newline
                \/ s[b] # "#" /\ OptionAt(l, b)
  <2> PICK b \in 1 .. len :
             /\ FirstWord(s, 1, b)
             /\ \/ /\ WithoutOption(l) /\ s[b] = "#" /\ s[len] = Newline
                   /\ \A k \in b .. len - 1 : s[k] # Newline
                \/ s[b] # "#" /\ OptionAt(l, b)
    BY <1>5
  <2> PICK q : q = o + b - 1
    OBVIOUS
  <2>1. /\ b \in Nat /\ 1 <= b /\ b <= len + 1 /\ q \in Nat /\ o <= q /\ q < size /\ ~(q >= size) /\ q <= size
        /\ p <= q
    BY ONLY <1>3, b \in 1 .. len, q = o + b - 1, p \in Nat, p <= Offset(file, i), o = Offset(file, i)
  <2>2. At(q) = s[b] /\ ~isspace(s[b])
    <3>1. At(o + b - 1) = s[b]
      BY <1>1 DEF Placed
    <3>2. ~isspace(s[b])
      BY Zenon DEF FirstWord
    <3> QED
      BY <3>1, <3>2, Zenon
  <2>3. Blank(p, q)
    <3>1. Blanks(s, 1, b - 1)
      BY Zenon DEF FirstWord
    <3>2. 1 \in Nat /\ 1 >= 1
      OBVIOUS
    <3>3. Blank(o + 1 - 1, o + b - 1)
      BY <1>1, <2>1, <3>1, <3>2, BlankPlaced, Zenon
    <3>4. o + 1 - 1 = o
      BY <1>3
    <3>5. Blank(o, q)
      BY <3>3, <3>4, Zenon
    <3> QED
      BY <1>3, <2>1, <3>5, BlankMore, Zenon
  <2>4. Skipped(p) = q
    BY <1>3, <2>1, <2>2, <2>3, BlankSkipped, Zenon
  <2>5. CASE WithoutOption(l) /\ s[b] = "#" /\ s[len] = Newline /\ \A k \in b .. len - 1 : s[k] # Newline
    <3>1. SameTo(i, i + 1)
      BY <2>5, OneMore, Zenon
    <3>2. Commented(o + b - 1, o + len)
      BY <1>1, <2>5, CommentPlaced, Zenon
    <3>3. Landing(i + 1, q)
      BY <1>1, <2>1, <2>2, <2>5, <3>2, Zenon DEF Landing
    <3> QED
      BY <2>4, <3>1, <3>3, Zenon
  <2>6. CASE s[b] # "#" /\ OptionAt(l, b)
    <3>1. SameTo(i, i)
      BY DEF SameTo
    <3>2. Landing(i, q)
      BY <2>1, <2>2, <2>6, Zenon DEF Landing
    <3> QED
      BY <2>4, <3>1, <3>2, Zenon
  <2> QED
    BY <2>5, <2>6
<1> QED
  BY <1>2, <1>4, <1>5, LineBegins, Zenon

LEMMA Landed ==
    ASSUME Whole, NEW i \in Nat, ReadTo(file, i), NEW p, Resting(p, Offset(file, i))
    PROVE  \E j : SameTo(i, j) /\ Landing(j, Skipped(p))
<1> PICK n, size : n = Len(file.lines) /\ size = Size
  OBVIOUS
<1>1. n \in Nat /\ i <= n /\ size \in Nat /\ p \in Nat
  BY OffsetPlace, LinesAre DEF Whole, ReadTo, Resting
<1> DEFINE Reached(m) == /\ SameTo(i, m) /\ p <= Offset(file, m) /\ Blank(p, Offset(file, m))
           T == {k \in Nat : \/ \E j : SameTo(i, j) /\ Landing(j, Skipped(p))
                             \/ i + k <= n /\ Reached(i + k)}
<1>2. CASE Blank(p, Offset(file, i))
  <2>2. 0 \in T
    <3>1. i + 0 = i /\ p <= Offset(file, i)
      BY <1>1 DEF Resting
    <3>2. SameTo(i, i)
      BY DEF SameTo
    <3>3. Reached(i)
      BY <1>2, <3>1, <3>2
    <3>4. Reached(i + 0) /\ i + 0 <= n
      BY <1>1, <3>1, <3>3, Zenon
    <3> QED
      BY <3>4
  <2>3. ASSUME NEW k \in Nat, k \in T PROVE k + 1 \in T
    <3> SUFFICES ASSUME ~\E j : SameTo(i, j) /\ Landing(j, Skipped(p))
                 PROVE  i + (k + 1) <= n /\ Reached(i + (k + 1))
      OBVIOUS
    <3> PICK m : m = i + k
      OBVIOUS
    <3>1. m \in Nat /\ i + (k + 1) = m + 1 /\ m <= n /\ Reached(m)
      <4>1. i + k \in Nat /\ i + (k + 1) = (i + k) + 1
        BY <1>1
      <4>2. i + k <= n /\ Reached(i + k)
        BY <2>3
      <4> QED
        BY <4>1, <4>2, Zenon
    <3>2. SameTo(i, m) /\ p <= Offset(file, m) /\ Blank(p, Offset(file, m))
      BY <3>1
    <3> HIDE DEF Reached
    <3>3. ReadTo(file, m) /\ Meaning(Upto(file, m)) = Meaning(Upto(file, i))
      BY <3>2, Zenon DEF SameTo
    <3>4. \A j : SameTo(m, j) => SameTo(i, j)
      BY <3>3, Zenon DEF SameTo
    <3>5. CASE m < n
      <4>1. \/ SameTo(m, m + 1) /\ p <= Offset(file, m + 1) /\ Blank(p, Offset(file, m + 1))
            \/ \E j : SameTo(m, j) /\ Landing(j, Skipped(p))
        BY <1>1, <3>1, <3>2, <3>3, <3>5, LandedNext, Zenon
      <4>2. SameTo(i, m + 1) /\ p <= Offset(file, m + 1) /\ Blank(p, Offset(file, m + 1))
        BY <3>4, <4>1, Zenon
      <4>3. Reached(m + 1) /\ m + 1 <= n
        BY <1>1, <3>1, <3>5, <4>2 DEF Reached
      <4> QED
        BY <3>1, <4>3, Zenon
    <3>6. CASE m = n
      <4>1. Offset(file, m) = size
        BY <1>1, <3>1, <3>6, OffsetPlace, Zenon
      <4>2. Skipped(p) = size
        BY <1>1, <3>2, <4>1, BlankSkipped
      <4>3. Landing(m, Skipped(p))
        BY <1>1, <3>6, <4>2 DEF Landing
      <4> QED
        BY <3>2, <4>3
    <3> QED
      BY <1>1, <3>1, <3>5, <3>6
  <2> HIDE DEF T
  <2>4. (n - i) + 1 \in T
    <3>1. (n - i) + 1 \in Nat
      BY <1>1
    <3> QED
      BY <2>2, <2>3, <3>1, Induction
  <2> QED
    BY <1>1, <2>4 DEF T
<1>3. CASE \E c \in p .. Offset(file, i) - 1 : Blank(p, c) /\ At(c) = "#" /\ Commented(c, Offset(file, i))
  <2> PICK c \in p .. Offset(file, i) - 1 : Blank(p, c) /\ At(c) = "#" /\ Commented(c, Offset(file, i))
    BY <1>3
  <2>1. Offset(file, i) \in Nat /\ Offset(file, i) <= size
    BY <1>1, OffsetPlace, Zenon
  <2>2. c \in Nat /\ p <= c /\ c <= size /\ ~(c >= size)
    BY ONLY <1>1, <2>1, c \in p .. Offset(file, i) - 1
  <2>3. Skipped(p) = c
    BY <1>1, <2>2, HashIsWord, BlankSkipped, Zenon
  <2>4. Landing(i, c)
    BY <2>2, Zenon DEF Landing
  <2>5. SameTo(i, i)
    BY DEF SameTo
  <2> QED
    BY <2>3, <2>4, <2>5, Zenon
<1> QED
  BY <1>2, <1>3 DEF Resting

\* A comment ends where the next line begins.
LEMMA CommentSkipped ==
    ASSUME Size \in Nat, NEW o \in Nat, o <= Size, Commented(line_pos, o), SkipComment
    PROVE  pc' = "line" /\ line_pos' = o /\ UNCHANGED <<opt, param, parse_error, input, setting>>
<1> DEFINE stops == {q \in line_pos .. Size : At(q) = Newline}
           first == FirstOf(stops, Size + 1)
<1> PICK q : q = o - 1
  OBVIOUS
<1>1. /\ line_pos \in Nat /\ q \in Nat /\ line_pos <= q /\ q < Size /\ q + 1 = o /\ At(q) = Newline
      /\ \A r \in line_pos .. o - 2 : At(r) # Newline
  BY DEF Commented
<1>2. q \in stops /\ stops \in SUBSET Nat
  BY <1>1
<1>3. \A r \in stops : q <= r
  <2> SUFFICES ASSUME NEW r \in stops, r < q PROVE FALSE
    BY <1>1
  <2>1. r \in line_pos .. o - 2
    BY <1>1
  <2> QED
    BY <1>1, <2>1
<1>4. Goto("line", first + 1) \/ (first > Size /\ Goto("crashed", first))
  BY DEF SkipComment
<1>5. UNCHANGED <<opt, param, parse_error, input, setting>>
  BY Zenon DEF SkipComment
<1> HIDE DEF stops
<1>6. first = q
  BY <1>2, <1>3, FirstAt
<1> HIDE DEF first
<1>7. Goto("line", q + 1)
  BY <1>1, <1>4, <1>6
<1> QED
  BY <1>1, <1>5, <1>7, Zenon DEF Goto

-----------------------------------------------------------------------------
(* config_parser.c: what the reader has read.                               *)

Line(i) == file.lines[i + 1]

\* The lines up to i are read, and their meaning is set.
MeansTo(i) == session = Meaning(Upto(file, i)) /\ entry = NULL

\* The reader is at place a of the line behind them.
AtPlace(i, a) ==
    i < Len(file.lines) /\ a \in 1 .. Len(Line(i).text) + 1 /\ line_pos = Offset(file, i) + a - 1

\* The parts D of its parameter are set, too.
ListedTo(i, D) ==
    /\ opt \in Lists /\ entry = NULL
    /\ session = SessionOf(FeedsIn(Upto(file, i)) \o FeedsOf(opt, D), FiltersIn(Upto(file, i)) \o FiltersOf(opt, D),
                           ValuesIn(Upto(file, i)))
EnteredTo(i, D) ==
    /\ opt \in Entries /\ session = Meaning(Upto(file, i))
    /\ entry = IF D = <<>> THEN NULL ELSE [value |-> Given(D, FieldNames.value), extra |-> Given(D, FieldNames.extra)]

PartsOf(str) == Tokens(shorten(str))

PartsPlace(i) ==
    /\ param \in Seq(STRING) /\ \E a : AtPlace(i, a) /\ Carries(Line(i), opt, param, a)
    /\ parts \in Seq(Seq(Chars)) /\ Rest(parts, PartsOf(param))
    /\ ListedTo(i, Done(parts, PartsOf(param))) \/ EnteredTo(i, Done(parts, PartsOf(param)))

OptionPlace(i) ==
    \E a : /\ AtPlace(i, a)
           /\ \/ pc = "option" /\ a <= Len(Line(i).text) /\ OptionAt(Line(i), a)
              \/ pc = "equals" /\ EqualsAt(Line(i), opt, a)
              \/ pc = "value" /\ ParamAt(Line(i), opt, a)
              \/ pc = "set" /\ param \in Seq(STRING) /\ Carries(Line(i), opt, param, a)

Ended(i) == /\ session = Meaning(Upto(file, i))
            /\ IF parse_error THEN i < Len(file.lines) /\ ~Line(i).readable ELSE i = Len(file.lines)

ReadPlace(i) ==
    \/ pc = "line" /\ MeansTo(i) /\ Resting(line_pos, Offset(file, i))
    \/ pc = "comment" /\ MeansTo(i) /\ Commented(line_pos, Offset(file, i))
    \/ pc \in {"option", "equals", "value", "set"} /\ MeansTo(i) /\ OptionPlace(i)
    \/ pc = "parts" /\ PartsPlace(i)
    \/ pc = "returned" /\ Ended(i)
    \/ pc = "crashed"

ReadInv ==
    /\ file \in Files /\ text = Contents(file)
    /\ text # <<>> /\ file.rest = <<>> => \E i \in Nat : ReadTo(file, i) /\ ReadPlace(i)

LEMMA ReadInit == Init => ReadInv
<1> SUFFICES ASSUME Init, text # <<>>, file.rest = <<>> PROVE \E i \in Nat : ReadTo(file, i) /\ ReadPlace(i)
  BY DEF Init, ReadInv
<1>1. file \in Files /\ text = Contents(file) /\ Whole /\ pc = "line" /\ line_pos = 0 /\ entry = NULL /\ session = session_init
  BY DEF Init, Whole
<1>2. ReadTo(file, 0)
  BY <1>1, LinesAre DEF ReadTo
<1>3. MeansTo(0)
  BY <1>1, InNone DEF MeansTo
<1>4. Offset(file, 0) = 0
  BY <1>1, OffsetIs DEF Whole
<1>5. Resting(0, 0)
  BY DEF Resting, Blank
<1>6. Resting(line_pos, Offset(file, 0))
  BY <1>1, <1>4, <1>5, Zenon
<1> QED
  BY <1>1, <1>2, <1>3, <1>6, Zenon DEF ReadPlace

\* A step leaves the text where it is.
LEMMA StillResting ==
    ASSUME UNCHANGED input, NEW o, NEW p, line_pos' = p, Resting(p, o)
    PROVE  Resting(line_pos, o)'
BY DEF input, Resting, Blank, Commented, At, Size

LEMMA StillCommented ==
    ASSUME UNCHANGED input, NEW o, NEW p, line_pos' = p, Commented(p, o)
    PROVE  Commented(line_pos, o)'
BY DEF input, Commented, At, Size

\* What a step of the reader leads to.
LEMMA SkipCommentReads == ConfigInv /\ ReadInv /\ SkipComment => ReadInv'
<1> SUFFICES ASSUME ConfigInv, ReadInv, SkipComment, text # <<>>, file.rest = <<>>
             PROVE  \E i \in Nat : ReadTo(file, i)' /\ ReadPlace(i)'
  BY DEF ReadInv, SkipComment, input
<1>1. PICK i \in Nat : ReadTo(file, i) /\ ReadPlace(i)
  BY DEF ReadInv
<1>2. Whole /\ UNCHANGED input /\ UNCHANGED setting /\ pc = "comment"
  BY DEF ReadInv, Whole, SkipComment
<1>3. MeansTo(i) /\ Commented(line_pos, Offset(file, i))
  BY <1>1, <1>2 DEF ReadPlace
<1>4. i <= Len(file.lines)
  BY <1>1, <1>2, LinesAre DEF ReadTo, Whole
<1>5. Offset(file, i) \in Nat /\ Offset(file, i) <= Size /\ Size \in Nat
  BY <1>2, <1>4, OffsetPlace
<1>6. pc' = "line" /\ line_pos' = Offset(file, i)
  BY <1>3, <1>5, CommentSkipped
<1>7. Resting(Offset(file, i), Offset(file, i))
  BY <1>5 DEF Resting, Blank
<1>8. Resting(line_pos, Offset(file, i))'
  <2>1. file' = file
    BY <1>2 DEF input
  <2> PICK o : o = Offset(file, i)
    OBVIOUS
  <2>2. Resting(line_pos, o)'
    BY <1>2, <1>6, <1>7, StillResting
  <2>3. Offset(file', i) = o
    BY <2>1
  <2> QED
    BY <2>2, <2>3
<1>9. MeansTo(i)' /\ ReadTo(file, i)'
  BY <1>1, <1>2, <1>3 DEF MeansTo, input, setting, ReadTo
<1> QED
  BY <1>6, <1>8, <1>9 DEF ReadPlace

\* Reading the line behind the i-th.
LineIn(i) == Whole /\ i \in Nat /\ ReadTo(file, i) /\ MeansTo(i) /\ i < Len(file.lines)

LEMMA LineInPlace ==
    ASSUME NEW i, LineIn(i)
    PROVE  Placed(Line(i).text, Offset(file, i))
BY LinePlaced, Zenon DEF LineIn, Line

LEMMA StillMeans ==
    ASSUME NEW i, LineIn(i), UNCHANGED <<input, setting>>
    PROVE  MeansTo(i)' /\ ReadTo(file, i)'
BY DEF LineIn, MeansTo, input, setting, ReadTo

LEMMA FailReads ==
    ASSUME NEW i, LineIn(i), UNCHANGED <<input, setting>>, Failing, ~Line(i).readable
    PROVE  ReadTo(file, i)' /\ ReadPlace(i)'
<1>1. MeansTo(i)' /\ ReadTo(file, i)'
  BY StillMeans
<1>2. pc' = "returned" /\ parse_error' /\ file' = file
  BY DEF Failing, input
<1>3. Ended(i)'
  BY <1>1, <1>2 DEF Ended, LineIn, MeansTo, Line
<1> QED
  BY <1>1, <1>2, <1>3 DEF ReadPlace

LEMMA StillAt ==
    ASSUME NEW i, LineIn(i), UNCHANGED input, NEW a \in 1 .. Len(Line(i).text) + 1,
           line_pos' = Offset(file, i) + a - 1
    PROVE  AtPlace(i, a)' /\ Line(i)' = Line(i)
<1>1. file' = file
  BY DEF input
<1>2. Line(i)' = Line(i)
  BY <1>1 DEF Line
<1> QED
  BY <1>1, <1>2, Zenon DEF AtPlace, LineIn

\* The place of the reader in a line, and what it is to do there.
LEMMA PlaceIn ==
    ASSUME ReadInv, text # <<>>, file.rest = <<>>, pc \in {"option", "equals", "value", "set"}
    PROVE  \E i, a : /\ LineIn(i) /\ AtPlace(i, a) /\ a \in Nat /\ a >= 1
                     /\ \/ pc = "option" /\ a <= Len(Line(i).text) /\ OptionAt(Line(i), a)
                        \/ pc = "equals" /\ EqualsAt(Line(i), opt, a)
                        \/ pc = "value" /\ ParamAt(Line(i), opt, a)
                        \/ pc = "set" /\ param \in Seq(STRING) /\ Carries(Line(i), opt, param, a)
<1>1. PICK i \in Nat : ReadTo(file, i) /\ ReadPlace(i)
  BY DEF ReadInv
<1>2. Whole
  BY DEF ReadInv, Whole
<1>3. MeansTo(i) /\ OptionPlace(i)
  BY <1>1 DEF ReadPlace
<1>4. PICK a : /\ AtPlace(i, a)
               /\ \/ pc = "option" /\ a <= Len(Line(i).text) /\ OptionAt(Line(i), a)
                  \/ pc = "equals" /\ EqualsAt(Line(i), opt, a)
                  \/ pc = "value" /\ ParamAt(Line(i), opt, a)
                  \/ pc = "set" /\ param \in Seq(STRING) /\ Carries(Line(i), opt, param, a)
  BY <1>3, Zenon DEF OptionPlace
<1>5. LineIn(i)
  BY <1>1, <1>2, <1>3, <1>4 DEF LineIn, AtPlace
<1>6. a \in Nat /\ a >= 1
  <2>1. Len(Line(i).text) \in Nat
    BY <1>5, LineInPlace DEF Placed
  <2> QED
    BY <1>4, <2>1 DEF AtPlace
<1> QED
  BY <1>4, <1>5, <1>6, Zenon

LEMMA ReadOptionReads == ConfigInv /\ ReadInv /\ ReadOption => ReadInv'
<1> SUFFICES ASSUME ConfigInv, ReadInv, ReadOption, text # <<>>, file.rest = <<>>
             PROVE  \E i \in Nat : ReadTo(file, i)' /\ ReadPlace(i)'
  BY DEF ReadInv, ReadOption, input
<1>1. pc = "option" /\ UNCHANGED <<input, setting>>
  BY Zenon DEF ReadOption
<1>2. PICK i, a : LineIn(i) /\ AtPlace(i, a) /\ a \in Nat /\ a >= 1 /\ a <= Len(Line(i).text) /\ OptionAt(Line(i), a)
  BY <1>1, PlaceIn
<1> PICK l, o : l = Line(i) /\ o = Offset(file, i)
  OBVIOUS
<1>3. Placed(l.text, o) /\ line_pos = o + a - 1
  BY <1>2, LineInPlace DEF AtPlace
<1>4. \/ pc' = "crashed"
      \/ Failing /\ ~l.readable
      \/ \E b \in 1 .. Len(l.text) : /\ pc' = "equals" /\ line_pos' = o + b - 1
                                     /\ UNCHANGED parse_error /\ EqualsAt(l, opt', b)
  BY <1>2, <1>3, OptionInLine, Zenon
<1>5. i \in Nat /\ MeansTo(i)' /\ ReadTo(file, i)'
  BY <1>1, <1>2, StillMeans DEF LineIn
<1>6. CASE pc' = "crashed"
  BY <1>5, <1>6 DEF ReadPlace
<1>7. CASE Failing /\ ~l.readable
  BY <1>1, <1>2, <1>5, <1>7, FailReads
<1>8. CASE \E b \in 1 .. Len(l.text) : /\ pc' = "equals" /\ line_pos' = o + b - 1
                                       /\ UNCHANGED parse_error /\ EqualsAt(l, opt', b)
  <2>1. PICK b \in 1 .. Len(l.text) : pc' = "equals" /\ line_pos' = o + b - 1 /\ EqualsAt(l, opt', b)
    BY <1>8
  <2>2. b \in 1 .. Len(l.text) + 1
    BY <1>3 DEF Placed
  <2>3. AtPlace(i, b)' /\ Line(i)' = l
    BY <1>1, <1>2, <2>1, <2>2, StillAt
  <2>4. OptionPlace(i)'
    BY <2>1, <2>3, Zenon DEF OptionPlace
  <2> QED
    BY <1>5, <2>1, <2>4 DEF ReadPlace
<1> QED
  BY <1>4, <1>6, <1>7, <1>8

LEMMA ReadEqualsReads == ConfigInv /\ ReadInv /\ ReadEquals => ReadInv'
<1> SUFFICES ASSUME ConfigInv, ReadInv, ReadEquals, text # <<>>, file.rest = <<>>
             PROVE  \E i \in Nat : ReadTo(file, i)' /\ ReadPlace(i)'
  BY DEF ReadInv, ReadEquals, input
<1>1. pc = "equals" /\ UNCHANGED <<input, setting>>
  BY Zenon DEF ReadEquals
<1>2. PICK i, a : LineIn(i) /\ AtPlace(i, a) /\ a \in Nat /\ a >= 1 /\ EqualsAt(Line(i), opt, a)
  BY <1>1, PlaceIn
<1> PICK l, o : l = Line(i) /\ o = Offset(file, i)
  OBVIOUS
<1>3. Placed(l.text, o) /\ line_pos = o + a - 1
  BY <1>2, LineInPlace DEF AtPlace
<1>4. \/ Fail /\ ~l.readable
      \/ \E e \in 2 .. Len(l.text) + 1 : /\ pc' = "value" /\ line_pos' = o + e - 1
                                         /\ UNCHANGED <<opt, parse_error>> /\ ParamAt(l, opt, e)
  BY <1>2, <1>3, EqualsInLine, Zenon
<1>5. i \in Nat /\ MeansTo(i)' /\ ReadTo(file, i)'
  BY <1>1, <1>2, StillMeans DEF LineIn
<1>6. CASE Fail /\ ~l.readable
  BY <1>1, <1>2, <1>5, <1>6, FailReads DEF Fail, Failing
<1>7. CASE \E e \in 2 .. Len(l.text) + 1 : /\ pc' = "value" /\ line_pos' = o + e - 1
                                           /\ UNCHANGED <<opt, parse_error>> /\ ParamAt(l, opt, e)
  <2>1. PICK e \in 2 .. Len(l.text) + 1 : pc' = "value" /\ line_pos' = o + e - 1 /\ opt' = opt /\ ParamAt(l, opt, e)
    BY <1>7
  <2>2. e \in 1 .. Len(l.text) + 1
    OBVIOUS
  <2>3. AtPlace(i, e)' /\ Line(i)' = l
    BY <1>1, <1>2, <2>1, <2>2, StillAt
  <2>4. OptionPlace(i)'
    BY <2>1, <2>3, Zenon DEF OptionPlace
  <2> QED
    BY <1>5, <2>1, <2>4 DEF ReadPlace
<1> QED
  BY <1>4, <1>6, <1>7

LEMMA ReadParamReads == ConfigInv /\ ReadInv /\ ReadParam => ReadInv'
<1> SUFFICES ASSUME ConfigInv, ReadInv, ReadParam, text # <<>>, file.rest = <<>>
             PROVE  \E i \in Nat : ReadTo(file, i)' /\ ReadPlace(i)'
  BY Zenon DEF ReadInv, ReadParam, input
<1>1. pc = "value" /\ UNCHANGED <<input, setting>>
  BY Zenon DEF ReadParam
<1>2. PICK i, a : LineIn(i) /\ AtPlace(i, a) /\ a \in Nat /\ a >= 1 /\ ParamAt(Line(i), opt, a)
  BY <1>1, PlaceIn
<1> PICK l, o : l = Line(i) /\ o = Offset(file, i)
  OBVIOUS
<1>3. Placed(l.text, o) /\ line_pos = o + a - 1
  BY <1>2, LineInPlace DEF AtPlace
<1>4. ParamFound(l, o)
  BY <1>2, <1>3, ParamInLine, Zenon
<1>5. i \in Nat /\ MeansTo(i)' /\ ReadTo(file, i)'
  BY <1>1, <1>2, StillMeans DEF LineIn
<1>6. CASE Fail /\ ~l.readable
  BY <1>1, <1>2, <1>5, <1>6, FailReads DEF Fail, Failing
<1>7. CASE \E w \in 1 .. Len(l.text) + 1 :
             /\ pc' = "set" /\ line_pos' = o + w - 1 /\ UNCHANGED <<opt, parse_error>>
             /\ param' \in Seq(STRING) /\ Carries(l, opt, param', w)
  <2>1. PICK w \in 1 .. Len(l.text) + 1 : /\ pc' = "set" /\ line_pos' = o + w - 1 /\ opt' = opt
                                          /\ param' \in Seq(STRING) /\ Carries(l, opt, param', w)
    BY <1>7, Zenon
  <2>3. AtPlace(i, w)' /\ Line(i)' = l
    BY <1>1, <1>2, <2>1, StillAt
  <2>4. OptionPlace(i)'
    BY <2>1, <2>3, Zenon DEF OptionPlace
  <2> QED
    BY <1>5, <2>1, <2>4 DEF ReadPlace
<1> QED
  BY <1>4, <1>6, <1>7 DEF ParamFound

LEMMA BeginLineReads == ConfigInv /\ ReadInv /\ BeginLine => ReadInv'
<1> SUFFICES ASSUME ConfigInv, ReadInv, BeginLine, text # <<>>, file.rest = <<>>
             PROVE  \E i \in Nat : ReadTo(file, i)' /\ ReadPlace(i)'
  BY Zenon DEF ReadInv, BeginLine, input
<1>1. pc = "line" /\ UNCHANGED <<input, setting>> /\ file' = file /\ session' = session /\ entry' = entry
  BY DEF BeginLine, input, setting
<1>2. Whole
  BY DEF ReadInv, Whole
<1>3. PICK i \in Nat : ReadTo(file, i) /\ MeansTo(i) /\ Resting(line_pos, Offset(file, i))
  BY <1>1 DEF ReadInv, ReadPlace
<1> PICK p : p = Skipped(line_pos)
  OBVIOUS
<1>4. PICK j : SameTo(i, j) /\ Landing(j, p)
  BY <1>2, <1>3, Landed
<1>5. j \in Nat /\ ReadTo(file, j) /\ MeansTo(j)
  BY <1>3, <1>4 DEF SameTo, MeansTo
<1>6. MeansTo(j)' /\ ReadTo(file, j)'
  BY <1>1, <1>5, Zenon DEF MeansTo
<1>7. IF p >= Size
      THEN Return
      ELSE Goto(IF At(p) = "#" THEN "comment" ELSE "option", p) /\ UNCHANGED <<opt, param, parse_error>>
  BY Zenon DEF BeginLine
<1>8. CASE j = Len(file.lines) /\ p >= Size
  <2>1. pc' = "returned" /\ parse_error' = parse_error
    BY <1>7, <1>8 DEF Return, reader
  <2>2. ~parse_error'
    BY <1>1, <2>1, Zenon DEF ConfigInv, ConfigFails
  <2>3. Ended(j)'
    BY <1>1, <1>6, <1>8, <2>2 DEF Ended, MeansTo
  <2> QED
    BY <1>5, <1>6, <2>1, <2>3 DEF ReadPlace
<1>9. CASE ~(p >= Size) /\ At(p) = "#" /\ Commented(p, Offset(file, j))
  <2>1. pc' = "comment" /\ line_pos' = p
    BY <1>7, <1>9, Zenon DEF Goto
  <2> PICK o : o = Offset(file, j)
    OBVIOUS
  <2>2. Commented(line_pos, o)'
    BY <1>1, <1>9, <2>1, StillCommented
  <2>3. Commented(line_pos, Offset(file, j))'
    BY <1>1, <2>2
  <2> QED
    BY <1>5, <1>6, <2>1, <2>3 DEF ReadPlace
<1>10. CASE /\ ~(p >= Size) /\ At(p) # "#" /\ j < Len(file.lines)
            /\ \E a \in 1 .. Len(file.lines[j + 1].text) :
                 p = Offset(file, j) + a - 1 /\ OptionAt(file.lines[j + 1], a)
  <2>1. pc' = "option" /\ line_pos' = p
    BY <1>7, <1>10, Zenon DEF Goto
  <2>2. PICK a \in 1 .. Len(Line(j).text) : p = Offset(file, j) + a - 1 /\ OptionAt(Line(j), a)
    BY <1>10, Zenon DEF Line
  <2>3. LineIn(j)
    BY <1>2, <1>5, <1>10 DEF LineIn
  <2>4. a \in 1 .. Len(Line(j).text) + 1 /\ a <= Len(Line(j).text)
    BY <2>3, LineInPlace DEF Placed
  <2>5. AtPlace(j, a)' /\ Line(j)' = Line(j)
    BY <1>1, <2>1, <2>2, <2>3, <2>4, StillAt
  <2>6. OptionPlace(j)'
    BY <2>1, <2>2, <2>4, <2>5, Zenon DEF OptionPlace
  <2> QED
    BY <1>5, <1>6, <2>1, <2>6 DEF ReadPlace
<1> QED
  BY <1>4, <1>8, <1>9, <1>10, Zenon DEF Landing

-----------------------------------------------------------------------------
(* config_parser.c: what set_option() makes of a line.                      *)

\* The reader in a line, of whose option no field or only the first parts D are set.
SetAt(i) ==
    /\ Whole /\ i \in Nat /\ ReadTo(file, i) /\ param \in Seq(STRING)
    /\ \E a : AtPlace(i, a) /\ Carries(Line(i), opt, param, a)

\* With the option of the line, the line is read.
LEMMA LineRead ==
    ASSUME NEW i, SetAt(i), UNCHANGED <<input, reader>>
    PROVE  /\ i + 1 \in Nat /\ ReadTo(file, i + 1)' /\ Resting(line_pos, Offset(file, i + 1))'
           /\ Meaning(Upto(file, i + 1)) =
                SessionOf(FeedsIn(Upto(file, i)) \o FeedsOf(opt, PartsOf(param)),
                          FiltersIn(Upto(file, i)) \o FiltersOf(opt, PartsOf(param)),
                          Overlaid(ValuesIn(Upto(file, i)), SetsOf(opt, param)))
<1>1. PICK a : AtPlace(i, a) /\ Carries(Line(i), opt, param, a)
  BY DEF SetAt
<1> PICK l, s, o : l = Line(i) /\ s = l.text /\ o = Offset(file, i)
  OBVIOUS
<1>2. i \in Nat /\ Whole /\ i < Len(file.lines) /\ a \in 1 .. Len(s) + 1 /\ line_pos = o + a - 1
  BY <1>1 DEF SetAt, AtPlace
<1>3. Placed(s, o) /\ Offset(file, i + 1) = o + Len(s)
  BY <1>2, LinePlaced, Zenon DEF Line
<1>4. /\ l.readable /\ EndsAt(s, a) /\ l.feeds = FeedsOf(opt, PartsOf(param))
      /\ l.filters = FiltersOf(opt, PartsOf(param)) /\ l.sets = SetsOf(opt, param)
  BY <1>1, Zenon DEF Carries, PartsOf
<1>5. file' = file /\ line_pos' = line_pos /\ UNCHANGED input
  BY DEF input, reader
<1>6. ReadTo(file, i + 1) /\ i + 1 \in Nat
  <2>1. file \in Files /\ Len(file.lines) \in Nat
    BY <1>2, LinesAre DEF Whole
  <2>2. file.lines[i + 1].readable
    BY <1>4, Zenon DEF Line
  <2>3. ReadTo(file, i)
    BY DEF SetAt
  <2> QED
    BY <1>2, <2>1, <2>2, <2>3 DEF ReadTo
<1>7. Resting(o + a - 1, o + Len(s))
  BY <1>2, <1>3, <1>4, EndsResting, Zenon
<1>8. Resting(line_pos, Offset(file, i + 1))'
  <2> PICK p, e : p = line_pos /\ e = o + Len(s)
    OBVIOUS
  <2>1. Resting(p, e) /\ line_pos' = p
    BY <1>2, <1>5, <1>7, Zenon
  <2>2. Resting(line_pos, e)'
    BY <1>5, <2>1, StillResting
  <2>3. Offset(file', i + 1) = e
    BY <1>3, <1>5, Zenon
  <2> QED
    BY <2>2, <2>3
<1>9. Meaning(Upto(file, i + 1)) = SessionOf(FeedsIn(Upto(file, i)) \o l.feeds, FiltersIn(Upto(file, i)) \o l.filters,
                                             Overlaid(ValuesIn(Upto(file, i)), l.sets))
  <2>1. file \in Files
    BY <1>2 DEF Whole
  <2>2. /\ FeedsIn(Upto(file, i + 1)) = FeedsIn(Upto(file, i)) \o l.feeds
        /\ FiltersIn(Upto(file, i + 1)) = FiltersIn(Upto(file, i)) \o l.filters
        /\ ValuesIn(Upto(file, i + 1)) = Overlaid(ValuesIn(Upto(file, i)), l.sets)
    BY <1>2, <1>6, <2>1, InMore, Zenon DEF Line
  <2> QED
    BY <2>2, MeaningIs, Zenon
<1>10. ReadTo(file, i + 1)'
  BY <1>5, <1>6 DEF ReadTo
<1> QED
  BY <1>4, <1>6, <1>8, <1>9, <1>10, Zenon

\* Options that are no lists set no lists, and lists nothing else.
LEMMA NoneOf ==
    ASSUME NEW subs
    PROVE  /\ opt \notin Lists \cup Entries => FeedsOf(opt, subs) = <<>> /\ FiltersOf(opt, subs) = <<>>
           /\ opt \in Lists \cup Entries => SetsOf(opt, param) = <<>>
BY DEF Lists, Entries, FeedsOf, FiltersOf, SetsOf

LEMMA WithNone ==
    ASSUME NEW S, NEW s \in Seq(S)
    PROVE  s \o <<>> = s
OBVIOUS

\* What is set so far, in sequences.
LEMMA SoFar ==
    ASSUME NEW i \in Nat, Whole, ReadTo(file, i)
    PROVE  /\ FeedsIn(Upto(file, i)) \in Seq(FeedSet(file)) /\ FiltersIn(Upto(file, i)) \in Seq(FilterSet(file))
           /\ FeedsIn(Upto(file, i)) \o <<>> = FeedsIn(Upto(file, i))
           /\ FiltersIn(Upto(file, i)) \o <<>> = FiltersIn(Upto(file, i))
<1>1. FeedsIn(Upto(file, i)) \in Seq(FeedSet(file)) /\ FiltersIn(Upto(file, i)) \in Seq(FilterSet(file))
  BY InTyped DEF Whole
<1> QED
  BY <1>1, WithNone, Zenon

LEMMA NoParts ==
    ASSUME NEW name
    PROVE  name \in Lists => FeedsOf(name, <<>>) = <<>> /\ FiltersOf(name, <<>>) = <<>>
<1>1. /\ [i \in DOMAIN <<>> |-> FeedOf(<<>>[i], NULL)] = <<>>
      /\ [i \in DOMAIN <<>> |-> FilterOf(<<>>[i], NULL)] = <<>>
  OBVIOUS
<1>2. name = <<"url">> => FeedsOf(name, <<>>) = <<>> /\ FiltersOf(name, <<>>) = <<>>
  BY <1>1 DEF FeedsOf, FiltersOf
<1>3. name = <<"patterns">> => FeedsOf(name, <<>>) = <<>> /\ FiltersOf(name, <<>>) = <<>>
  BY <1>1 DEF FeedsOf, FiltersOf
<1> QED
  BY <1>2, <1>3 DEF Lists

LEMMA SetOptionReads == ConfigInv /\ ReadInv /\ SetOption => ReadInv'
<1> SUFFICES ASSUME ConfigInv, ReadInv, SetOption, text # <<>>, file.rest = <<>>
             PROVE  \E i \in Nat : ReadTo(file, i)' /\ ReadPlace(i)'
  BY Zenon DEF ReadInv, SetOption, input
<1>1. pc = "set" /\ UNCHANGED <<input, reader, entry>> /\ UNCHANGED <<opt, param, file>>
  BY DEF SetOption, reader, input
<1>2. PICK i, a : LineIn(i) /\ AtPlace(i, a) /\ param \in Seq(STRING) /\ Carries(Line(i), opt, param, a)
  BY <1>1, PlaceIn
<1>3. SetAt(i) /\ i \in Nat /\ Whole /\ ReadTo(file, i) /\ MeansTo(i)
  BY <1>2 DEF SetAt, LineIn
<1> PICK feeds, filters, values :
       feeds = FeedsIn(Upto(file, i)) /\ filters = FiltersIn(Upto(file, i)) /\ values = ValuesIn(Upto(file, i))
  OBVIOUS
<1>4. session = SessionOf(feeds, filters, values) /\ entry = NULL
  BY <1>3, MeaningIs DEF MeansTo
<1>5. feeds \o <<>> = feeds /\ filters \o <<>> = filters
  BY <1>3, SoFar, Zenon
<1>6. SetParameter \/ pc' = "crashed"
  BY Zenon DEF SetOption
<1>7. CASE pc' = "crashed"
  <2>1. ReadTo(file, i)'
    BY <1>1, <1>3 DEF ReadTo
  <2> QED
    BY <1>3, <1>7, <2>1 DEF ReadPlace
<1>8. CASE SetParameter /\ opt \notin Lists \cup Entries
  <2>1. session' = set_option(session) /\ pc' = "line"
    BY <1>8, Zenon DEF SetParameter
  <2>2. Len(param) \in Nat
    BY <1>2
  <2>3. session' = SessionOf(feeds, filters, Overlaid(values, SetsOf(opt, param)))
    BY <1>4, <2>1, <2>2, SessionSet, Zenon
  <2>4. FeedsOf(opt, PartsOf(param)) = <<>> /\ FiltersOf(opt, PartsOf(param)) = <<>>
    BY <1>8, NoneOf, Zenon
  <2>5. session' = Meaning(Upto(file, i + 1))
    BY <1>1, <1>3, <1>5, <2>3, <2>4, LineRead, Zenon
  <2>6. MeansTo(i + 1)'
    BY <1>1, <1>4, <2>5 DEF MeansTo
  <2>7. i + 1 \in Nat /\ ReadTo(file, i + 1)' /\ Resting(line_pos, Offset(file, i + 1))'
    BY <1>1, <1>3, LineRead, Zenon
  <2> QED
    BY <2>1, <2>6, <2>7 DEF ReadPlace
<1>9. CASE SetParameter /\ opt \in Lists \cup Entries
  <2> PICK P : P = PartsOf(param)
    OBVIOUS
  <2>1. parts' = P /\ pc' = "parts" /\ session' = session
    BY <1>9, Zenon DEF SetParameter, PartsOf
  <2>2. P \in Seq(Seq(Chars))
    BY <1>2, PartsTyped DEF PartsOf
  <2>3. Rest(P, P) /\ Done(P, P) = <<>>
    BY <2>2, RestAll
  <2>4. CASE opt \in Lists
    <3>1. session = SessionOf(feeds \o FeedsOf(opt, <<>>), filters \o FiltersOf(opt, <<>>), values)
      BY <1>4, <1>5, <2>4, NoParts, Zenon
    <3>2. ListedTo(i, <<>>)'
      BY <1>1, <1>4, <2>1, <2>4, <3>1 DEF ListedTo
    <3>3. PartsPlace(i)'
      BY <1>1, <1>2, <2>1, <2>2, <2>3, <3>2 DEF PartsPlace, AtPlace, Line, reader
    <3>4. ReadTo(file, i)'
      BY <1>1, <1>3 DEF ReadTo
    <3> QED
      BY <1>3, <2>1, <3>3, <3>4 DEF ReadPlace
  <2>5. CASE opt \in Entries
    <3>2. EnteredTo(i, <<>>)'
      BY <1>1, <1>3, <1>4, <2>1, <2>5 DEF EnteredTo, MeansTo
    <3>3. PartsPlace(i)'
      BY <1>1, <1>2, <2>1, <2>2, <2>3, <3>2 DEF PartsPlace, AtPlace, Line, reader
    <3>4. ReadTo(file, i)'
      BY <1>1, <1>3 DEF ReadTo
    <3> QED
      BY <1>3, <2>1, <3>3, <3>4 DEF ReadPlace
  <2> QED
    BY <1>9, <2>4, <2>5
<1> QED
  BY <1>8, <1>9, <1>6, <1>7

Fed(S) == {FeedOf(x, NULL) : x \in S}
Filtered(S) == {FilterOf(x, NULL) : x \in S}

\* Every part of a list is a feed or a filter.
UrlPart(S, D, h, name) ==
    /\ FeedsOf(name, Append(D, h)) = Append(FeedsOf(name, D), FeedOf(h, NULL))
    /\ FeedsOf(name, D) \in Seq(Fed(S))
    /\ FiltersOf(name, Append(D, h)) = FiltersOf(name, D)
PatternPart(S, D, h, name) ==
    /\ FiltersOf(name, Append(D, h)) = Append(FiltersOf(name, D), FilterOf(h, NULL))
    /\ FiltersOf(name, D) \in Seq(Filtered(S))
    /\ FeedsOf(name, Append(D, h)) = FeedsOf(name, D)

LEMMA PartsMore ==
    ASSUME NEW S, NEW D \in Seq(S), NEW h \in S, NEW name
    PROVE  /\ name = <<"url">> => UrlPart(S, D, h, name)
           /\ name = <<"patterns">> => PatternPart(S, D, h, name)
<1> PICK F, G : F = [x \in S |-> FeedOf(x, NULL)] /\ G = [x \in S |-> FilterOf(x, NULL)]
  OBVIOUS
<1>1. /\ F \in [S -> Fed(S)] /\ G \in [S -> Filtered(S)]
      /\ F[h] = FeedOf(h, NULL) /\ G[h] = FilterOf(h, NULL)
  BY DEF Fed, Filtered
<1>2. ASSUME NEW E \in Seq(S)
      PROVE  /\ [i \in DOMAIN E |-> FeedOf(E[i], NULL)] = Mapped(E, F)
             /\ [i \in DOMAIN E |-> FilterOf(E[i], NULL)] = Mapped(E, G)
  <2>1. \A i \in DOMAIN E : E[i] \in S
    OBVIOUS
  <2> QED
    BY <2>1 DEF Mapped
<1>3. Append(D, h) \in Seq(S)
  OBVIOUS
<1>4. /\ Mapped(Append(D, h), F) = Append(Mapped(D, F), F[h])
      /\ Mapped(Append(D, h), G) = Append(Mapped(D, G), G[h])
      /\ Mapped(D, F) \in Seq(Fed(S)) /\ Mapped(D, G) \in Seq(Filtered(S))
  <2>1. Mapped(Append(D, h), F) = Append(Mapped(D, F), F[h]) /\ Mapped(D, F) \in Seq(Fed(S))
    <3> PICK T : T = Fed(S)
      OBVIOUS
    <3>1. F \in [S -> T] /\ D \in Seq(S) /\ h \in S
      BY <1>1
    <3>2. Mapped(D, F) \in Seq(T)
      BY ONLY <3>1, MappedTyped
    <3>3. Mapped(Append(D, h), F) = Append(Mapped(D, F), F[h])
      BY ONLY <3>1, MappedAppend
    <3> QED
      BY <3>2, <3>3
  <2>2. Mapped(Append(D, h), G) = Append(Mapped(D, G), G[h]) /\ Mapped(D, G) \in Seq(Filtered(S))
    <3> PICK T : T = Filtered(S)
      OBVIOUS
    <3>1. G \in [S -> T] /\ D \in Seq(S) /\ h \in S
      BY <1>1
    <3>2. Mapped(D, G) \in Seq(T)
      BY ONLY <3>1, MappedTyped
    <3>3. Mapped(Append(D, h), G) = Append(Mapped(D, G), G[h])
      BY ONLY <3>1, MappedAppend
    <3> QED
      BY <3>2, <3>3
  <2> QED
    BY <2>1, <2>2
<1>5. <<"url">> # <<"patterns">>
  OBVIOUS
<1>6. ASSUME name = <<"url">>, NEW E \in Seq(S)
      PROVE  FeedsOf(name, E) = Mapped(E, F) /\ FiltersOf(name, E) = <<>>
  <2>1. name # <<"patterns">> /\ name # <<"filter">>
    BY <1>6
  <2> QED
    BY <1>2, <1>6, <2>1, Zenon DEF FeedsOf, FiltersOf
<1>7. ASSUME name = <<"patterns">>, NEW E \in Seq(S)
      PROVE  FiltersOf(name, E) = Mapped(E, G) /\ FeedsOf(name, E) = <<>>
  <2>1. name # <<"url">> /\ name # <<"feed">>
    BY <1>7
  <2> QED
    BY <1>2, <1>7, <2>1, Zenon DEF FeedsOf, FiltersOf
<1> QED
  BY <1>1, <1>3, <1>4, <1>6, <1>7, Zenon DEF UrlPart, PatternPart

\* The place in a parameter of several parts.
LEMMA PartsIn ==
    ASSUME ReadInv, text # <<>>, file.rest = <<>>, pc = "parts"
    PROVE  \E i : /\ SetAt(i) /\ i \in Nat /\ Whole /\ ReadTo(file, i) /\ PartsPlace(i)
                  /\ PartsOf(param) \in Seq(Seq(Chars))
<1>1. PICK i \in Nat : ReadTo(file, i) /\ ReadPlace(i)
  BY DEF ReadInv
<1>2. Whole
  BY DEF ReadInv, Whole
<1>3. PartsPlace(i)
  BY <1>1 DEF ReadPlace
<1>4. SetAt(i)
  BY <1>1, <1>2, <1>3 DEF SetAt, PartsPlace
<1>5. PartsOf(param) \in Seq(Seq(Chars))
  BY <1>3, PartsTyped DEF PartsPlace, PartsOf
<1> QED
  BY <1>1, <1>2, <1>3, <1>4, <1>5, Zenon

LEMMA ListPartReads == ConfigInv /\ ReadInv /\ ListPart => ReadInv'
<1> SUFFICES ASSUME ConfigInv, ReadInv, ListPart, text # <<>>, file.rest = <<>>
             PROVE  \E i \in Nat : ReadTo(file, i)' /\ ReadPlace(i)'
  BY Zenon DEF ReadInv, ListPart, input
<1>1. /\ pc = "parts" /\ parts # <<>> /\ opt \in Lists /\ parts' = Tail(parts)
      /\ UNCHANGED <<pc, input, reader, entry>> /\ UNCHANGED <<opt, param, file, line_pos>>
  BY DEF ListPart, reader, input
<1>2. PICK i : /\ SetAt(i) /\ i \in Nat /\ Whole /\ ReadTo(file, i) /\ PartsPlace(i)
               /\ PartsOf(param) \in Seq(Seq(Chars))
  BY <1>1, PartsIn
<1> PICK P, S : P = PartsOf(param) /\ S = Seq(Chars)
  OBVIOUS
<1> PICK D, h : D = Done(parts, P) /\ h = Head(parts)
  OBVIOUS
<1>3. P \in Seq(S) /\ parts \in Seq(S) /\ Rest(parts, P)
  BY <1>2 DEF PartsPlace
<1>4. parts' \in Seq(S) /\ Rest(parts', P) /\ h \in S /\ D \in Seq(S) /\ Done(parts', P) = Append(D, h)
  BY <1>1, <1>3, RestStep
<1> PICK feeds, filters, values :
       feeds = FeedsIn(Upto(file, i)) /\ filters = FiltersIn(Upto(file, i)) /\ values = ValuesIn(Upto(file, i))
  OBVIOUS
<1>5. ListedTo(i, D)
  <2>1. ListedTo(i, D) \/ EnteredTo(i, D)
    BY <1>2 DEF PartsPlace
  <2>2. opt \notin Entries
    BY <1>1 DEF Lists, Entries
  <2> QED
    BY <2>1, <2>2 DEF EnteredTo
<1>6. /\ entry = NULL
      /\ session = SessionOf(feeds \o FeedsOf(opt, D), filters \o FiltersOf(opt, D), values)
  BY <1>5, Zenon DEF ListedTo
<1>7. feeds \in Seq(FeedSet(file)) /\ filters \in Seq(FilterSet(file))
  BY <1>2, SoFar
<1> PICK FS, GS : /\ FS = FeedSet(file) \cup Fed(S)
                  /\ GS = FilterSet(file) \cup Filtered(S)
  OBVIOUS
<1>8. session' = SessionOf(feeds \o FeedsOf(opt, Append(D, h)), filters \o FiltersOf(opt, Append(D, h)), values)
  <2>1. CASE opt = <<"url">>
    <3> PICK more, feed, before : more = FeedsOf(opt, D) /\ feed = FeedOf(h, NULL) /\ before = feeds \o more
      OBVIOUS
    <3>1. /\ FeedsOf(opt, Append(D, h)) = Append(more, feed) /\ FiltersOf(opt, Append(D, h)) = FiltersOf(opt, D)
          /\ more \in Seq(Fed(S))
      <4>1. UrlPart(S, D, h, opt)
        BY <1>4, <2>1, PartsMore, Zenon
      <4> QED
        BY <4>1, Zenon DEF UrlPart
    <3>2. feeds \in Seq(FS) /\ more \in Seq(FS) /\ feed \in FS
      BY <1>4, <1>7, <3>1 DEF Fed
    <3>3. before \in Seq(FS) /\ feeds \o Append(more, feed) = Append(before, feed)
      BY <3>2, ConcatAppend
    <3>4. session' = [session EXCEPT !.feeds = WithFeed(@, h, NULL)]
      BY <2>1, Zenon DEF ListPart
    <3> PICK s, rest : s = session /\ rest = filters \o FiltersOf(opt, D)
      OBVIOUS
    <3>6. s = SessionOf(before, rest, values) /\ FeedOf(h, NULL) \in FS
      BY <1>6, <3>2, Zenon
    <3>7. [s EXCEPT !.feeds = WithFeed(@, h, NULL)] = SessionOf(Append(before, FeedOf(h, NULL)), rest, values)
      BY ONLY <3>3, <3>6, SessionFeed
    <3>5. session' = SessionOf(Append(before, feed), filters \o FiltersOf(opt, D), values)
      BY <3>4, <3>7, Zenon
    <3> QED
      BY <3>1, <3>3, <3>5, Zenon
  <2>2. CASE opt = <<"patterns">>
    <3> PICK more, filter, before : more = FiltersOf(opt, D) /\ filter = FilterOf(h, NULL) /\ before = filters \o more
      OBVIOUS
    <3>1. /\ FiltersOf(opt, Append(D, h)) = Append(more, filter) /\ FeedsOf(opt, Append(D, h)) = FeedsOf(opt, D)
          /\ more \in Seq(Filtered(S))
      <4>1. PatternPart(S, D, h, opt)
        BY <1>4, <2>2, PartsMore, Zenon
      <4> QED
        BY <4>1, Zenon DEF PatternPart
    <3>2. filters \in Seq(GS) /\ more \in Seq(GS) /\ filter \in GS
      BY <1>4, <1>7, <3>1 DEF Filtered
    <3>3. before \in Seq(GS) /\ filters \o Append(more, filter) = Append(before, filter)
      BY <3>2, ConcatAppend
    <3>4. session' = [session EXCEPT !.filters = WithFilter(@, h, NULL)]
      <4>1. opt # <<"url">>
        BY <2>2
      <4> QED
        BY <4>1, Zenon DEF ListPart
    <3> PICK s, rest : s = session /\ rest = feeds \o FeedsOf(opt, D)
      OBVIOUS
    <3>6. s = SessionOf(rest, before, values) /\ FilterOf(h, NULL) \in GS
      BY <1>6, <3>2, Zenon
    <3>7. [s EXCEPT !.filters = WithFilter(@, h, NULL)] = SessionOf(rest, Append(before, FilterOf(h, NULL)), values)
      BY ONLY <3>3, <3>6, SessionFilter, SMTT(60)
    <3>5. session' = SessionOf(feeds \o FeedsOf(opt, D), Append(before, filter), values)
      BY <3>4, <3>7, Zenon
    <3> QED
      BY <3>1, <3>3, <3>5, Zenon
  <2> QED
    BY <1>1, <2>1, <2>2 DEF Lists
<1>9. ListedTo(i, Append(D, h))'
  <2> PICK E : E = Append(D, h)
    OBVIOUS
  <2>1. ListedTo(i, E)'
    BY <1>1, <1>6, <1>8 DEF ListedTo
  <2> QED
    BY <2>1
<1>10. PartsPlace(i)' /\ ReadTo(file, i)'
  BY <1>1, <1>2, <1>4, <1>9 DEF PartsPlace, AtPlace, Line, ReadTo
<1> QED
  BY <1>1, <1>2, <1>10 DEF ReadPlace

\* What the suboptions give.
EntryOf(D) == [value |-> Given(D, FieldNames.value), extra |-> Given(D, FieldNames.extra)]

LEMMA EntryIsSome == \A D : EntryOf(D) # NULL
<1> SUFFICES ASSUME NEW D PROVE EntryOf(D) # NULL
  OBVIOUS
<1> PICK v, x : v = Given(D, FieldNames.value) /\ x = Given(D, FieldNames.extra)
  OBVIOUS
<1>1. DOMAIN [value |-> v, extra |-> x] = {"value", "extra"} /\ DOMAIN <<"NULL">> = 1 .. 1
  OBVIOUS
<1>2. [value |-> v, extra |-> x] # <<"NULL">>
  BY <1>1
<1> QED
  BY <1>2 DEF EntryOf, NULL

LEMMA EntryPartReads == ConfigInv /\ ReadInv /\ EntryPart => ReadInv'
<1> SUFFICES ASSUME ConfigInv, ReadInv, EntryPart, text # <<>>, file.rest = <<>>
             PROVE  \E i \in Nat : ReadTo(file, i)' /\ ReadPlace(i)'
  BY Zenon DEF ReadInv, EntryPart, input
<1>1. /\ pc = "parts" /\ parts # <<>> /\ opt \in Entries /\ parts' = Tail(parts)
      /\ UNCHANGED <<input, reader, session>> /\ UNCHANGED <<opt, param, file, line_pos>>
  BY Zenon DEF EntryPart, reader, input
<1>2. PICK i : /\ SetAt(i) /\ i \in Nat /\ Whole /\ ReadTo(file, i) /\ PartsPlace(i)
               /\ PartsOf(param) \in Seq(Seq(Chars))
  BY <1>1, PartsIn
<1> PICK P, S : P = PartsOf(param) /\ S = Seq(Chars)
  OBVIOUS
<1> PICK D, h : D = Done(parts, P) /\ h = Head(parts)
  OBVIOUS
<1>3. P \in Seq(S) /\ parts \in Seq(S) /\ Rest(parts, P)
  BY <1>2 DEF PartsPlace
<1>4. parts' \in Seq(S) /\ Rest(parts', P) /\ h \in S /\ D \in Seq(S) /\ Done(parts', P) = Append(D, h)
  BY <1>1, <1>3, RestStep
<1>5. ReadTo(file, i)'
  BY <1>1, <1>2 DEF ReadTo
<1>6. CASE Arrow(h) = 1
  <2>1. pc' = "crashed"
    BY <1>6, Zenon DEF EntryPart
  <2> QED
    BY <1>2, <1>5, <2>1 DEF ReadPlace
<1>7. CASE Arrow(h) # 1
  <2> PICK filled : filled = IF entry = NULL THEN newEntry ELSE entry
    OBVIOUS
  <2>1. /\ pc' = pc
        /\ entry' = [f \in DOMAIN filled |->
                       IF IsSubOption(h, FieldNames[f]) THEN OrNull(shorten(SubParam(h))) ELSE filled[f]]
    BY <1>7, Zenon DEF EntryPart
  <2>2. EnteredTo(i, D)
    <3>1. ListedTo(i, D) \/ EnteredTo(i, D)
      BY <1>2 DEF PartsPlace
    <3>2. opt \notin Lists
      BY <1>1 DEF Lists, Entries
    <3> QED
      BY <3>1, <3>2 DEF ListedTo
  <2>3. filled = EntryOf(D)
    <3>1. CASE D = <<>>
      <4>1. entry = NULL
        BY <2>2, <3>1, Zenon DEF EnteredTo
      <4>2. Given(D, FieldNames.value) = NULL /\ Given(D, FieldNames.extra) = NULL
        BY <3>1, GivenNone, Zenon
      <4> QED
        BY <4>1, <4>2, Zenon DEF newEntry, EntryOf
    <3>2. CASE D # <<>>
      <4>1. entry = EntryOf(D)
        BY <2>2, <3>2, Zenon DEF EnteredTo, EntryOf
      <4> QED
        BY <4>1, EntryIsSome, Zenon
    <3> QED
      BY <3>1, <3>2
  <2> PICK E : E = Append(D, h)
    OBVIOUS
  <2>4. \A name : Given(E, name) = IF IsSubOption(h, name) THEN OrNull(shorten(SubParam(h))) ELSE Given(D, name)
    <3> SUFFICES ASSUME NEW name
                 PROVE  Given(Append(D, h), name) =
                          IF IsSubOption(h, name) THEN OrNull(shorten(SubParam(h))) ELSE Given(D, name)
      OBVIOUS
    <3>1. D \in Seq(S) /\ h \in S
      BY <1>4
    <3> QED
      BY ONLY <3>1, GivenMore
  <2>5. /\ DOMAIN filled = {"value", "extra"} /\ filled["value"] = Given(D, FieldNames["value"])
        /\ filled["extra"] = Given(D, FieldNames["extra"])
    BY <2>3 DEF EntryOf
  <2>6. entry' = [f \in {"value", "extra"} |-> Given(E, FieldNames[f])]
    <3>1. \A f \in {"value", "extra"} :
            (IF IsSubOption(h, FieldNames[f]) THEN OrNull(shorten(SubParam(h))) ELSE filled[f]) = Given(E, FieldNames[f])
      BY <2>4, <2>5, Zenon
    <3>2. entry' = [f \in {"value", "extra"} |->
                      IF IsSubOption(h, FieldNames[f]) THEN OrNull(shorten(SubParam(h))) ELSE filled[f]]
      BY <2>1, <2>5, Zenon
    <3> QED
      BY <3>1, <3>2, Zenon
  <2>7. entry' = EntryOf(E)
    <3>1. EntryOf(E) = [f \in {"value", "extra"} |-> Given(E, FieldNames[f])]
      BY DEF EntryOf
    <3> QED
      BY <2>6, <3>1, Zenon
  <2>8. E # <<>>
    BY <1>4
  <2>9. EnteredTo(i, E)'
    <3>1. EntryOf(E)' = EntryOf(E)
      BY <1>1 DEF EntryOf, FieldNames
    <3> QED
      BY <1>1, <2>2, <2>7, <2>8, <3>1 DEF EnteredTo, EntryOf
  <2>10. PartsPlace(i)'
    BY <1>1, <1>2, <1>4, <2>9 DEF PartsPlace, AtPlace, Line
  <2> QED
    BY <1>1, <1>2, <1>5, <2>1, <2>10 DEF ReadPlace
<1> QED
  BY <1>6, <1>7

LEMMA EndPartsReads == ConfigInv /\ ReadInv /\ EndParts => ReadInv'
<1> SUFFICES ASSUME ConfigInv, ReadInv, EndParts, text # <<>>, file.rest = <<>>
             PROVE  \E i \in Nat : ReadTo(file, i)' /\ ReadPlace(i)'
  BY Zenon DEF ReadInv, EndParts, input
<1>1. /\ pc = "parts" /\ parts = <<>> /\ pc' = "line" /\ entry' = NULL /\ UNCHANGED <<input, reader>> /\ file' = file
  BY Zenon DEF EndParts, input
<1>2. PICK i : /\ SetAt(i) /\ i \in Nat /\ Whole /\ ReadTo(file, i) /\ PartsPlace(i)
               /\ PartsOf(param) \in Seq(Seq(Chars))
  BY <1>1, PartsIn
<1> PICK P, feeds, filters, values :
       /\ P = PartsOf(param)
       /\ feeds = FeedsIn(Upto(file, i)) /\ filters = FiltersIn(Upto(file, i)) /\ values = ValuesIn(Upto(file, i))
  OBVIOUS
<1>3. Done(parts, P) = P
  BY <1>1, <1>2, RestNone
<1>4. ListedTo(i, P) \/ EnteredTo(i, P)
  BY <1>2, <1>3 DEF PartsPlace
<1>5. opt \in Lists \cup Entries
  BY <1>4 DEF ListedTo, EnteredTo
<1>6. /\ i + 1 \in Nat /\ ReadTo(file, i + 1)' /\ Resting(line_pos, Offset(file, i + 1))'
      /\ Meaning(Upto(file, i + 1)) = SessionOf(feeds \o FeedsOf(opt, P), filters \o FiltersOf(opt, P), values)
  <2>1. SetsOf(opt, param) = <<>>
    BY <1>5, NoneOf, Zenon
  <2>2. /\ i + 1 \in Nat /\ ReadTo(file, i + 1)' /\ Resting(line_pos, Offset(file, i + 1))'
        /\ Meaning(Upto(file, i + 1)) =
             SessionOf(feeds \o FeedsOf(opt, P), filters \o FiltersOf(opt, P), Overlaid(values, SetsOf(opt, param)))
    BY <1>1, <1>2, LineRead, Zenon
  <2> PICK fs, gs : fs = feeds \o FeedsOf(opt, P) /\ gs = filters \o FiltersOf(opt, P)
    OBVIOUS
  <2>3. SessionOf(fs, gs, Overlaid(values, <<>>)) = SessionOf(fs, gs, values)
    BY NothingSet, Zenon
  <2> QED
    BY <2>1, <2>2, <2>3, Zenon
<1>7. session' = SessionOf(feeds \o FeedsOf(opt, P), filters \o FiltersOf(opt, P), values)
  <2>1. CASE ListedTo(i, P)
    <3>1. entry = NULL /\ session = SessionOf(feeds \o FeedsOf(opt, P), filters \o FiltersOf(opt, P), values)
      BY <2>1, Zenon DEF ListedTo
    <3>2. session' = session
      BY <3>1, Zenon DEF EndParts
    <3> QED
      BY <3>1, <3>2
  <2>2. CASE EnteredTo(i, P)
    <3>1. /\ session = SessionOf(feeds, filters, values) /\ opt \in Entries
          /\ entry = IF P = <<>> THEN NULL ELSE EntryOf(P)
      BY <2>2, MeaningIs, Zenon DEF EnteredTo, EntryOf
    <3>2. feeds \in Seq(FeedSet(file)) /\ filters \in Seq(FilterSet(file)) /\ feeds \o <<>> = feeds /\ filters \o <<>> = filters
      BY <1>2, SoFar
    <3>3. EntryOf(P).value = Given(P, FieldNames.value) /\ EntryOf(P).extra = Given(P, FieldNames.extra)
          /\ EntryOf(P) # NULL
      BY EntryIsSome DEF EntryOf
    <3>4. CASE Given(P, FieldNames.value) = NULL
      <4>1. entry = NULL \/ entry.value = NULL
        BY <3>1, <3>3, <3>4, Zenon
      <4>2. session' = session
        BY <4>1, Zenon DEF EndParts
      <4>3. FeedsOf(opt, P) = <<>> /\ FiltersOf(opt, P) = <<>>
        BY <3>1, <3>4 DEF FeedsOf, FiltersOf, Entries, FieldNames
      <4> QED
        BY <3>1, <3>2, <4>2, <4>3, Zenon
    <3>5. CASE Given(P, FieldNames.value) # NULL
      <4> PICK v, x : v = Given(P, FieldNames.value) /\ x = Given(P, FieldNames.extra)
        OBVIOUS
      <4>1. P # <<>>
        BY <3>5, GivenNone, Zenon
      <4>2. entry # NULL /\ entry.value = v /\ entry.extra = x /\ entry.value # NULL
        BY <3>1, <3>3, <3>5, <4>1, Zenon
      <4>3. CASE opt = <<"feed">>
        <5>1. session' = [session EXCEPT !.feeds = WithFeed(@, v, x)]
          BY <4>2, <4>3 DEF EndParts
        <5>2. FeedsOf(opt, P) = << FeedOf(v, x) >> /\ FiltersOf(opt, P) = <<>>
          BY <3>5, <4>3 DEF FeedsOf, FiltersOf, FieldNames
        <5> PICK s, S, feed : s = session /\ S = FeedSet(file) \cup {FeedOf(v, x)} /\ feed = FeedOf(v, x)
          OBVIOUS
        <5>3. s = SessionOf(feeds, filters, values) /\ feeds \in Seq(S) /\ FeedOf(v, x) \in S
          BY <3>1, <3>2
        <5>4. [s EXCEPT !.feeds = WithFeed(@, v, x)] = SessionOf(Append(feeds, FeedOf(v, x)), filters, values)
          BY ONLY <5>3, SessionFeed, SMTT(60)
        <5>5. Append(feeds, feed) = feeds \o << feed >>
          BY <5>3
        <5> QED
          BY <3>2, <5>1, <5>2, <5>4, <5>5, Zenon
      <4>4. CASE opt = <<"filter">>
        <5>1. session' = [session EXCEPT !.filters = WithFilter(@, v, x)]
          <6>1. opt # <<"feed">>
            BY <4>4
          <6> QED
            BY <4>2, <6>1 DEF EndParts
        <5>2. FeedsOf(opt, P) = <<>> /\ FiltersOf(opt, P) = << FilterOf(v, x) >>
          BY <3>5, <4>4 DEF FeedsOf, FiltersOf, FieldNames
        <5> PICK s, S, filter : s = session /\ S = FilterSet(file) \cup {FilterOf(v, x)} /\ filter = FilterOf(v, x)
          OBVIOUS
        <5>3. s = SessionOf(feeds, filters, values) /\ filters \in Seq(S) /\ FilterOf(v, x) \in S
          BY <3>1, <3>2
        <5>4. [s EXCEPT !.filters = WithFilter(@, v, x)] = SessionOf(feeds, Append(filters, FilterOf(v, x)), values)
          BY ONLY <5>3, SessionFilter, SMTT(60)
        <5>5. Append(filters, filter) = filters \o << filter >>
          BY <5>3
        <5> QED
          BY <3>2, <5>1, <5>2, <5>4, <5>5, Zenon
      <4> QED
        BY <3>1, <4>3, <4>4 DEF Entries
    <3> QED
      BY <3>4, <3>5
  <2> QED
    BY <1>4, <2>1, <2>2
<1>8. MeansTo(i + 1)'
  BY <1>1, <1>6, <1>7 DEF MeansTo
<1> QED
  BY <1>1, <1>6, <1>8 DEF ReadPlace

LEMMA ReadStutters == ReadInv /\ UNCHANGED vars => ReadInv'
<1> SUFFICES ASSUME ReadInv, UNCHANGED vars PROVE ReadInv'
  OBVIOUS
<1>1. UNCHANGED <<pc, file, text, garbage, line_pos, opt, param, parse_error, parts, entry, session>>
  BY DEF vars, input, reader, setting
<1>2. \A o : Resting(line_pos, o) => Resting(line_pos, o)'
  <2> SUFFICES ASSUME NEW o, Resting(line_pos, o) PROVE Resting(line_pos, o)'
    OBVIOUS
  <2> PICK p : p = line_pos
    OBVIOUS
  <2> QED
    BY <1>1, StillResting DEF input
<1>3. \A o : Commented(line_pos, o) => Commented(line_pos, o)'
  <2> SUFFICES ASSUME NEW o, Commented(line_pos, o) PROVE Commented(line_pos, o)'
    OBVIOUS
  <2> PICK p : p = line_pos
    OBVIOUS
  <2> QED
    BY <1>1, StillCommented DEF input
<1>4. \A i : ReadPlace(i) => ReadPlace(i)'
  <2> SUFFICES ASSUME NEW i, ReadPlace(i) PROVE ReadPlace(i)'
    OBVIOUS
  <2>1. MeansTo(i) => MeansTo(i)'
    BY <1>1 DEF MeansTo
  <2>2. OptionPlace(i) => OptionPlace(i)'
    BY <1>1 DEF OptionPlace, AtPlace, Line
  <2>3. PartsPlace(i) => PartsPlace(i)'
    BY <1>1 DEF PartsPlace, AtPlace, Line, ListedTo, EnteredTo, FieldNames
  <2>4. Ended(i) => Ended(i)'
    BY <1>1 DEF Ended, Line
  <2>5. Offset(file, i)' = Offset(file, i)
    BY <1>1
  <2> QED
    BY <1>1, <1>2, <1>3, <2>1, <2>2, <2>3, <2>4, <2>5 DEF ReadPlace
<1> QED
  BY <1>1, <1>4 DEF ReadInv

LEMMA ReadStepKeeps == ConfigInv /\ ReadInv /\ [Next]_vars => ReadInv'
BY BeginLineReads, SkipCommentReads, ReadOptionReads, ReadEqualsReads, ReadParamReads, SetOptionReads,
   ListPartReads, EntryPartReads, EndPartsReads, ReadStutters DEF Next

\* Whoever returns has read what is readable.
LEMMA ReadEnds == ConfigInv /\ ReadInv => ReadAsWritten
<1> SUFFICES ASSUME ConfigInv, ReadInv, pc = "returned", text # <<>>, file.rest = <<>>,
                    \A l \in ToSet(Readable(file.lines)) : l.sound
             PROVE  /\ session = Meaning(Readable(file.lines))
                    /\ parse_error = (Readable(file.lines) # file.lines)
  BY DEF ReadAsWritten
<1>1. PICK i \in Nat : ReadTo(file, i) /\ Ended(i)
  BY DEF ReadInv, ReadPlace
<1> PICK ls, S : ls = file.lines /\ S = ToSet(file.lines)
  OBVIOUS
<1>2. ls \in Seq(S) /\ Len(ls) \in Nat
  BY LinesAre DEF ReadInv
<1>3. i \in 0 .. Len(ls) /\ \A j \in 1 .. i : ls[j].readable
  BY <1>1 DEF ReadTo
<1>4. /\ i = Len(ls) => Readable(ls) = ls
      /\ i < Len(ls) /\ ~ls[i + 1].readable => Readable(ls) = SubSeq(ls, 1, i) /\ Readable(ls) # ls
  BY <1>2, <1>3, ReadableIs
<1>5. ASSUME parse_error = TRUE
      PROVE  session = Meaning(Readable(ls)) /\ parse_error = (Readable(ls) # ls)
  <2>1. i < Len(ls) /\ ~ls[i + 1].readable /\ session = Meaning(SubSeq(ls, 1, i))
    BY <1>1, <1>5 DEF Ended, Line, Upto
  <2> QED
    BY <1>4, <1>5, <2>1, Zenon
<1>6. ASSUME parse_error = FALSE
      PROVE  session = Meaning(Readable(ls)) /\ parse_error = (Readable(ls) # ls)
  <2>1. i = Len(ls) /\ session = Meaning(SubSeq(ls, 1, i))
    BY <1>1, <1>6 DEF Ended, Upto
  <2>2. SubSeq(ls, 1, i) = ls
    BY <1>2, <2>1
  <2> QED
    BY <1>4, <1>6, <2>1, <2>2, Zenon
<1>7. parse_error = TRUE \/ parse_error = FALSE
  BY Zenon DEF ConfigInv, ConfigFails
<1> QED
  BY <1>5, <1>6, <1>7, Zenon

\* A file of whole lines is read for what is written in it, up to the first line that cannot be read,
\* whatever lines it has and whatever byte is behind it in memory.
THEOREM ConfigReadAsWritten == InputsSpec => []ReadAsWritten
<1> DEFINE Config == input_kind = "config" => ConfigInv
           Reads == IF input_kind = "config" THEN ReadInv ELSE text = <<>>
<1>1. InputsInit => Reads
  <2> SUFFICES ASSUME InputsInit PROVE Reads
    OBVIOUS
  <2>1. CASE input_kind = "config"
    BY <2>1, ReadInit DEF InputsInit
  <2>2. CASE input_kind # "config"
    BY <2>2 DEF InputsInit, ConfigRests
  <2> QED
    BY <2>1, <2>2
<1>2. Config /\ Reads /\ [InputsNext]_allVars => Reads'
  <2> SUFFICES ASSUME Config, Reads, [InputsNext]_allVars PROVE Reads'
    OBVIOUS
  <2>1. input_kind' = input_kind /\ (input_kind = "config" => [Next]_vars) /\ (input_kind # "config" => UNCHANGED vars)
    BY DEF InputsNext, ConfigStep, FeedStep, StateStep, XmlStep, allVars
  <2>2. CASE input_kind = "config"
    BY <2>1, <2>2, ReadStepKeeps
  <2>3. CASE input_kind # "config"
    BY <2>1, <2>3 DEF vars, input
  <2> QED
    BY <2>2, <2>3
<1>3. Config /\ Reads => ReadAsWritten
  <2> SUFFICES ASSUME Config, Reads PROVE ReadAsWritten
    OBVIOUS
  <2>1. CASE input_kind = "config"
    BY <2>1, ReadEnds
  <2>2. CASE input_kind # "config"
    BY <2>2 DEF ReadAsWritten
  <2> QED
    BY <2>1, <2>2
<1>4. InputsSpec => []Config
  BY ConfigInductive
<1> QED
  BY <1>1, <1>2, <1>3, <1>4, PTL DEF InputsSpec
=============================================================================
