---------------------------- MODULE ProgramProofs ----------------------------
(***************************************************************************)
(* Theorems about the programs with a main of their own.  The converters:  *)
(* for directories of any files, with names of any words, that are         *)
(* converted in any order and any number of times.  The three programs of  *)
(* TestPrograms: chains of any length, all ranges, totals and options of   *)
(* printmath, any file at the start of rdwrtest and any number of writes.  *)
(***************************************************************************)
EXTENDS Converters, Chains, PrintMath, RdWrTest, Induction, SequenceTheorems, TLAPS

(* Some numbers below a bound have a greatest one among them. *)
LEMMA GreatestElement ==
  ASSUME NEW w2 \in Nat, NEW T, T \subseteq 1..w2, T # {}
  PROVE  Max(T) \in T /\ \A y \in T : y <= Max(T)
<1> DEFINE U == {w2 - y : y \in T}
<1>1. U \subseteq Nat /\ U # {}
  OBVIOUS
<1>2. PICK x \in U : \A y \in U : x <= y
  <2> HIDE DEF U
  <2> QED BY <1>1, LeastElement
<1>3. PICK m \in T : x = w2 - m
  OBVIOUS
<1>4. ASSUME NEW y \in T PROVE y <= m
  <2>1. w2 - m <= w2 - y
    BY <1>2, <1>3
  <2> QED BY <2>1
<1>5. \E z \in T : \A y \in T : z >= y
  BY <1>4
<1> QED
  BY <1>5 DEF Max

-----------------------------------------------------------------------------
(* What names are made of. *)
Name == Seq(Words)

Dot_h == <<".", "h">>

(* The path of a header: "./" in front, ".h" at the end, no dash. *)
HeaderPath(hp) ==
  /\ hp \in Name /\ Len(hp) >= 4
  /\ hp[1] = "." /\ hp[2] = "/"
  /\ hp[Len(hp) - 1] = "." /\ hp[Len(hp)] = "h"
  /\ \A k \in 1..Len(hp) : hp[k] # "-"

LEMMA FunctionName ==
  ASSUME NEW n \in Nat, NEW f \in [1..n -> Words]
  PROVE  f \in Name /\ Len(f) = n
BY DEF Name

LEMMA Joined ==
  ASSUME NEW w1 \in Name, NEW w2 \in Name
  PROVE  /\ w1 \o w2 \in Name /\ Len(w1 \o w2) = Len(w1) + Len(w2) /\ Len(w1) \in Nat /\ Len(w2) \in Nat
         /\ \A k \in 1..Len(w1) : (w1 \o w2)[k] = w1[k]
         /\ \A k \in 1..Len(w2) : (w1 \o w2)[Len(w1) + k] = w2[k]
<1>1. /\ w1 \o w2 \in Name /\ Len(w1 \o w2) = Len(w1) + Len(w2) /\ Len(w1) \in Nat /\ Len(w2) \in Nat
      /\ \A k \in 1..Len(w1) + Len(w2) : (w1 \o w2)[k] = IF k <= Len(w1) THEN w1[k] ELSE w2[k - Len(w1)]
  BY ConcatProperties, LenProperties DEF Name
<1> QED
  BY <1>1

LEMMA TwoWords ==
  ASSUME NEW w1 \in Words, NEW w2 \in Words
  PROVE  <<w1, w2>> \in Name /\ Len(<<w1, w2>>) = 2 /\ <<w1, w2>>[1] = w1 /\ <<w1, w2>>[2] = w2
BY DEF Name

LEMMA PathName ==
  ASSUME NEW n \in Name
  PROVE  /\ Path(n) \in Name /\ Len(Path(n)) = Len(n) + 2 /\ Len(n) \in Nat
         /\ Path(n)[1] = "." /\ Path(n)[2] = "/"
<1>1. "." \in Words /\ "/" \in Words
  BY DirectoriesAssumption
<1> DEFINE dir == <<".", "/">>
<1>2. dir \in Name /\ Len(dir) = 2 /\ dir[1] = "." /\ dir[2] = "/"
  BY <1>1, TwoWords
<1>3. Path(n) = dir \o n
  BY DEF Path
<1> HIDE DEF dir
<1>4. /\ dir \o n \in Name /\ Len(dir \o n) = Len(dir) + Len(n) /\ Len(n) \in Nat
      /\ \A k \in 1..Len(dir) : (dir \o n)[k] = dir[k]
  BY <1>2, Joined
<1> QED
  BY <1>2, <1>3, <1>4

LEMMA DottedH == Dot_h \in Name /\ Len(Dot_h) = 2 /\ Dot_h[1] = "." /\ Dot_h[2] = "h"
<1>1. "." \in Words /\ "h" \in Words
  BY DirectoriesAssumption
<1> QED
  BY <1>1, TwoWords DEF Dot_h

LEMMA UnderscoredName ==
  ASSUME NEW s \in Name
  PROVE  /\ Underscored(s) \in Name /\ Len(Underscored(s)) = Len(s)
         /\ \A k \in 1..Len(s) : /\ s[k] # "-" => Underscored(s)[k] = s[k]
                                 /\ Underscored(s)[k] # "-"
         /\ (\A k \in 1..Len(s) : s[k] # "-") => Underscored(s) = s
<1>1. DOMAIN s = 1..Len(s) /\ Len(s) \in Nat /\ s \in [1..Len(s) -> Words]
  BY DEF Name
<1>2. Underscored(s) = [k \in 1..Len(s) |-> IF s[k] = "-" THEN "_" ELSE s[k]]
  BY <1>1 DEF Underscored
<1>3. Underscored(s) \in [1..Len(s) -> Words]
  <2>1. \A k \in 1..Len(s) : (IF s[k] = "-" THEN "_" ELSE s[k]) \in Words
    BY <1>1, DirectoriesAssumption
  <2> QED BY <1>2, <2>1
<1>4. Underscored(s) \in Name /\ Len(Underscored(s)) = Len(s)
  BY <1>1, <1>3 DEF Name
<1>5. \A k \in 1..Len(s) : /\ s[k] # "-" => Underscored(s)[k] = s[k]
                           /\ Underscored(s)[k] # "-"
  BY <1>2
<1>6. ASSUME \A k \in 1..Len(s) : s[k] # "-" PROVE Underscored(s) = s
  BY <1>1, <1>2, <1>6
<1> QED
  BY <1>4, <1>5, <1>6

(* What is left before the last dot, which comes after the one of "./". *)
LEMMA StemOfPath ==
  ASSUME NEW n \in Name, Dots(Path(n)) # {1}
  PROVE  /\ Stem(Path(n)) \in Name
         /\ Len(Stem(Path(n))) >= 2
         /\ Stem(Path(n))[1] = "." /\ Stem(Path(n))[2] = "/"
<1> DEFINE hp == Path(n)
<1>1. hp \in Name /\ Len(hp) >= 2 /\ hp[1] = "." /\ hp[2] = "/" /\ Len(hp) \in Nat
  BY PathName
<1> HIDE DEF hp
<1>2. Dots(hp) \subseteq 1..Len(hp) /\ 1 \in Dots(hp) /\ 2 \notin Dots(hp)
  BY <1>1 DEF Dots, Name
<1>3. Max(Dots(hp)) \in Dots(hp) /\ \A y \in Dots(hp) : y <= Max(Dots(hp))
  BY <1>1, <1>2, GreatestElement
<1>4. Max(Dots(hp)) >= 3
  BY <1>2, <1>3 DEF hp
<1>5. Stem(hp) = SubSeq(hp, 1, Max(Dots(hp)) - 1) /\ Max(Dots(hp)) - 1 \in 2..Len(hp)
  BY <1>2, <1>3, <1>4 DEF Stem
<1> DEFINE m == Max(Dots(hp)) - 1
<1>6. Stem(hp) = SubSeq(hp, 1, m) /\ m \in 2..Len(hp)
  BY <1>5
<1> HIDE DEF m
<1>7. SubSeq(hp, 1, m) \in Name /\ Len(SubSeq(hp, 1, m)) = m
      /\ \A k1 \in 1..m : SubSeq(hp, 1, m)[k1] = hp[k1]
  BY <1>1, <1>6, SubSeqProperties DEF Name
<1> QED
  BY <1>1, <1>6, <1>7 DEF hp

LEMMA PathReplaced ==
  ASSUME NEW n \in Name
  PROVE  HeaderPath(replaceadix(Path(n)))
<1> DEFINE u == IF Dots(Path(n)) = {1} THEN Path(n) ELSE Stem(Path(n))
<1>1. u \in Name /\ Len(u) >= 2 /\ u[1] = "." /\ u[2] = "/"
  <2>1. Path(n) \in Name /\ Len(Path(n)) >= 2 /\ Path(n)[1] = "." /\ Path(n)[2] = "/"
    BY PathName
  <2> QED BY <2>1, StemOfPath
<1>2. replaceadix(Path(n)) = Underscored(u \o Dot_h)
  BY DEF replaceadix, Dot_h
<1> HIDE DEF u
<1> DEFINE v == u \o Dot_h
<1>3. v \in Name /\ Len(v) = Len(u) + 2 /\ Len(u) \in Nat
      /\ v[1] = "." /\ v[2] = "/" /\ v[Len(v) - 1] = "." /\ v[Len(v)] = "h"
  <2>1. /\ v \in Name /\ Len(v) = Len(u) + Len(Dot_h) /\ Len(u) \in Nat
        /\ \A k \in 1..Len(u) : v[k] = u[k]
        /\ \A k \in 1..Len(Dot_h) : v[Len(u) + k] = Dot_h[k]
    BY <1>1, DottedH, Joined
  <2> HIDE DEF v
  <2> QED BY <1>1, <2>1, DottedH
<1> HIDE DEF v
<1>4. Len(v) >= 4 /\ Len(v) \in Nat
  BY <1>1, <1>3
<1>5. 1 \in 1..Len(v) /\ 2 \in 1..Len(v) /\ Len(v) - 1 \in 1..Len(v) /\ Len(v) \in 1..Len(v)
  BY <1>4
<1>6. "." # "-" /\ "/" # "-" /\ "h" # "-"
  OBVIOUS
<1>7. /\ Underscored(v) \in Name /\ Len(Underscored(v)) = Len(v)
      /\ \A k \in 1..Len(v) : /\ v[k] # "-" => Underscored(v)[k] = v[k]
                              /\ Underscored(v)[k] # "-"
  BY <1>3, UnderscoredName
<1>8. replaceadix(Path(n)) = Underscored(v)
  BY <1>2 DEF v
<1> QED
  BY <1>3, <1>4, <1>5, <1>6, <1>7, <1>8 DEF HeaderPath

(* A header is its own header. *)
LEMMA HeaderPathStays ==
  ASSUME NEW hp, HeaderPath(hp)
  PROVE  replaceadix(hp) = hp
<1>1. hp \in Name /\ Len(hp) \in Nat /\ Len(hp) >= 4
  BY DEF HeaderPath, Name
<1>2. Dots(hp) \subseteq 1..Len(hp) /\ Len(hp) - 1 \in Dots(hp) /\ Len(hp) \notin Dots(hp)
  BY <1>1 DEF HeaderPath, Dots, Name
<1>3. Max(Dots(hp)) \in Dots(hp) /\ \A y \in Dots(hp) : y <= Max(Dots(hp))
  BY <1>1, <1>2, GreatestElement
<1>4. Max(Dots(hp)) = Len(hp) - 1
  BY <1>1, <1>2, <1>3
<1>5. Dots(hp) # {1}
  BY <1>1, <1>2
<1>6. Stem(hp) = SubSeq(hp, 1, Len(hp) - 2)
  BY <1>1, <1>4 DEF Stem
<1>7. SubSeq(hp, 1, Len(hp) - 2) \in Name /\ Len(SubSeq(hp, 1, Len(hp) - 2)) = Len(hp) - 2
      /\ \A k1 \in 1..Len(hp) - 2 : SubSeq(hp, 1, Len(hp) - 2)[k1] = hp[k1]
  BY <1>1, SubSeqProperties DEF Name
<1> DEFINE v == SubSeq(hp, 1, Len(hp) - 2) \o Dot_h
<1>8. v = hp
  <2> DEFINE s == SubSeq(hp, 1, Len(hp) - 2)
  <2>1. v = s \o Dot_h /\ s \in Name /\ Len(s) = Len(hp) - 2
        /\ \A k1 \in 1..Len(hp) - 2 : s[k1] = hp[k1]
    BY <1>7
  <2> HIDE DEF s, v
  <2>2. /\ v \in Name /\ Len(v) = Len(hp)
        /\ \A k \in 1..Len(hp) - 2 : v[k] = s[k]
        /\ \A k \in 1..2 : v[Len(hp) - 2 + k] = Dot_h[k]
    <3>1. /\ s \o Dot_h \in Name /\ Len(s \o Dot_h) = Len(s) + Len(Dot_h)
          /\ \A k \in 1..Len(s) : (s \o Dot_h)[k] = s[k]
          /\ \A k \in 1..Len(Dot_h) : (s \o Dot_h)[Len(s) + k] = Dot_h[k]
      BY <2>1, DottedH, Joined
    <3> QED BY <3>1, <2>1, <1>1, DottedH
  <2>3. v[Len(hp) - 1] = hp[Len(hp) - 1] /\ v[Len(hp)] = hp[Len(hp)]
    <3>1. v[Len(hp) - 2 + 1] = Dot_h[1] /\ v[Len(hp) - 2 + 2] = Dot_h[2]
      BY <2>2
    <3>2. Len(hp) - 2 + 1 = Len(hp) - 1 /\ Len(hp) - 2 + 2 = Len(hp)
      BY <1>1
    <3> QED BY <3>1, <3>2, DottedH DEF HeaderPath
  <2>4. \A k1 \in 1..Len(hp) : v[k1] = hp[k1]
    BY <2>1, <2>2, <2>3, <1>1
  <2> QED BY <2>2, <2>4, <1>1, SeqEqual DEF Name
<1>9. replaceadix(hp) = Underscored(hp)
  BY <1>5, <1>6, <1>8 DEF replaceadix, Dot_h
<1> QED
  BY <1>1, <1>9, UnderscoredName DEF HeaderPath

(* A name that is the name of its own header. *)
OwnHeader(n) == Target(n) = n /\ IsSuffix(<<".", "h">>, n)

LEMMA NameOfHeader ==
  ASSUME NEW hp, HeaderPath(hp)
  PROVE  SubSeq(hp, 3, Len(hp)) \in Name /\ OwnHeader(SubSeq(hp, 3, Len(hp)))
<1>1. hp \in Name /\ Len(hp) \in Nat /\ Len(hp) >= 4
  BY DEF HeaderPath, Name
<1> DEFINE t == SubSeq(hp, 3, Len(hp))
<1>2. t \in Name /\ Len(t) = Len(hp) - 2 /\ \A k1 \in 1..Len(hp) - 2 : t[k1] = hp[k1 + 2]
  <2>1. \A k1 \in 3..Len(hp) : hp[k1] \in Words
    BY <1>1 DEF Name
  <2>2. /\ t \in Name /\ Len(t) = Len(hp) - 3 + 1
        /\ \A k1 \in 1..Len(hp) - 3 + 1 : t[k1] = hp[3 + k1 - 1]
    BY <1>1, <2>1, SubSeqProperties DEF Name
  <2> HIDE DEF t
  <2>3. Len(hp) - 3 + 1 = Len(hp) - 2 /\ \A k1 \in 1..Len(hp) - 2 : 3 + k1 - 1 = k1 + 2
    BY <1>1
  <2> QED BY <2>2, <2>3
<1> HIDE DEF t
<1>3. Path(t) = hp
  <2>1. Path(t) \in Name /\ Len(Path(t)) = Len(hp) /\ Path(t)[1] = hp[1] /\ Path(t)[2] = hp[2]
    BY <1>1, <1>2, PathName DEF HeaderPath
  <2>2. "." \in Words /\ "/" \in Words
    BY DirectoriesAssumption
  <2>3. <<".", "/">> \in Name /\ Len(<<".", "/">>) = 2
    BY <2>2, TwoWords
  <2>4. \A k \in 1..Len(t) : Path(t)[2 + k] = t[k]
    BY <1>2, <2>3, Joined DEF Path
  <2>5. ASSUME NEW k1 \in 1..Len(hp) PROVE Path(t)[k1] = hp[k1]
    <3>1. CASE k1 \in 1..2
      BY <3>1, <2>1
    <3>2. CASE k1 \in 3..Len(hp)
      <4>1. k1 - 2 \in 1..Len(hp) - 2 /\ 2 + (k1 - 2) = k1 /\ (k1 - 2) + 2 = k1
        BY <3>2, <1>1
      <4>2. Path(t)[2 + (k1 - 2)] = t[k1 - 2] /\ t[k1 - 2] = hp[(k1 - 2) + 2]
        BY <4>1, <1>2, <2>4
      <4> QED BY <4>1, <4>2
    <3> QED BY <3>1, <3>2, <1>1
  <2> QED BY <1>1, <2>1, <2>5, SeqEqual DEF Name
<1>4. Target(t) = t
  BY <1>3, HeaderPathStays DEF Target, t
<1>5. IsSuffix(Dot_h, t)
  <2> DEFINE cut == Reverse(t)
             d == Reverse(Dot_h)
  <2>1. cut \in Name /\ Len(cut) = Len(t) /\ \A k1 \in 1..Len(t) : cut[k1] = t[(Len(t) - k1) + 1]
    <3>1. cut = [k1 \in 1..Len(t) |-> t[(Len(t) - k1) + 1]]
      BY DEF Reverse
    <3>2. \A k1 \in 1..Len(t) : t[(Len(t) - k1) + 1] \in Words
      BY <1>1, <1>2 DEF Name
    <3>3. cut \in [1..Len(t) -> Words] /\ Len(t) \in Nat
      BY <1>1, <1>2, <3>1, <3>2
    <3>4. cut \in Name /\ Len(cut) = Len(t)
      BY <3>3 DEF Name
    <3> QED BY <3>1, <3>4
  <2>2. d \in Name /\ Len(d) = 2 /\ d[1] = "h" /\ d[2] = "."
    <3>1. d = [k1 \in 1..2 |-> Dot_h[(2 - k1) + 1]]
      BY DottedH DEF Reverse
    <3>2. \A k1 \in 1..2 : Dot_h[(2 - k1) + 1] \in Words
      <4>1. \A k1 \in 1..2 : (2 - k1) + 1 \in 1..2
        OBVIOUS
      <4>2. \A k1 \in 1..2 : Dot_h[k1] \in Words
        BY DottedH, ElementOfSeq DEF Name
      <4> QED BY <4>1, <4>2
    <3>3. d \in [1..2 -> Words]
      BY <3>1, <3>2
    <3>4. d \in Name /\ Len(d) = 2
      <4>1. 2 \in Nat
        OBVIOUS
      <4> HIDE DEF d
      <4> QED BY <3>3, <4>1, FunctionName
    <3>5. d[1] = Dot_h[(2 - 1) + 1] /\ d[2] = Dot_h[(2 - 2) + 1]
      BY <3>1
    <3> QED BY <3>4, <3>5, DottedH
  <2>3. cut[1] = "h" /\ cut[2] = "."
    <3>1. Len(t) \in Nat /\ Len(t) >= 2 /\ (Len(t) - 1) + 1 = Len(t) /\ (Len(t) - 2) + 1 = Len(t) - 1
      BY <1>1, <1>2
    <3>2. t[Len(t)] = hp[Len(hp)] /\ t[Len(t) - 1] = hp[Len(hp) - 1]
      <4>1. Len(t) \in 1..Len(hp) - 2 /\ Len(t) - 1 \in 1..Len(hp) - 2
            /\ Len(t) + 2 = Len(hp) /\ Len(t) - 1 + 2 = Len(hp) - 1
        BY <1>1, <1>2
      <4>2. t[Len(t)] = hp[Len(t) + 2] /\ t[Len(t) - 1] = hp[Len(t) - 1 + 2]
        BY <4>1, <1>2
      <4> QED BY <4>1, <4>2
    <3>3. cut[1] = t[(Len(t) - 1) + 1] /\ cut[2] = t[(Len(t) - 2) + 1]
      BY <2>1, <3>1
    <3> QED BY <3>1, <3>2, <3>3 DEF HeaderPath
  <2> HIDE DEF cut, d
  <2>4. SubSeq(d, 1, 2) \in Name /\ Len(SubSeq(d, 1, 2)) = 2
        /\ \A k1 \in 1..2 : SubSeq(d, 1, 2)[k1] = d[k1]
    <3>1. /\ SubSeq(d, 1, 2) \in Name /\ Len(SubSeq(d, 1, 2)) = 2 - 1 + 1
          /\ \A k1 \in 1..2 - 1 + 1 : SubSeq(d, 1, 2)[k1] = d[1 + k1 - 1]
      BY <2>2, SubSeqProperties DEF Name
    <3>2. 2 - 1 + 1 = 2 /\ \A k1 \in 1..2 : 1 + k1 - 1 = k1
      OBVIOUS
    <3> QED BY <3>1, <3>2
  <2>5. SubSeq(cut, 1, 2) \in Name /\ Len(SubSeq(cut, 1, 2)) = 2
        /\ \A k1 \in 1..2 : SubSeq(cut, 1, 2)[k1] = cut[k1]
    <3>1. \A k1 \in 1..2 : cut[k1] \in Words
      BY <1>1, <1>2, <2>1 DEF Name
    <3>2. /\ SubSeq(cut, 1, 2) \in Name /\ Len(SubSeq(cut, 1, 2)) = 2 - 1 + 1
          /\ \A k1 \in 1..2 - 1 + 1 : SubSeq(cut, 1, 2)[k1] = cut[1 + k1 - 1]
      BY <3>1, SubSeqProperties DEF Name
    <3>3. 2 - 1 + 1 = 2 /\ \A k1 \in 1..2 : 1 + k1 - 1 = k1
      OBVIOUS
    <3> QED BY <3>2, <3>3
  <2>6. \A k1 \in 1..2 : SubSeq(d, 1, 2)[k1] = SubSeq(cut, 1, 2)[k1]
    <3>1. \A k1 \in 1..2 : d[k1] = cut[k1]
      BY <2>2, <2>3
    <3> QED BY <3>1, <2>4, <2>5
  <2>7. SubSeq(d, 1, 2) = SubSeq(cut, 1, 2)
    BY <2>4, <2>5, <2>6, SeqEqual DEF Name
  <2>8. Len(d) <= Len(cut)
    BY <1>1, <1>2, <2>1, <2>2
  <2> QED BY <2>2, <2>7, <2>8 DEF IsSuffix, IsPrefix, cut, d
<1> QED
  BY <1>2, <1>4, <1>5 DEF OwnHeader, Dot_h, t

LEMMA TargetOwn ==
  ASSUME NEW n \in Name
  PROVE  Target(n) \in Name /\ OwnHeader(Target(n))
BY PathReplaced, NameOfHeader DEF Target

LEMMA TablesOwn ==
  /\ target_h \in Name /\ OwnHeader(target_h)
  /\ target2_h \in Name /\ OwnHeader(target2_h)
  /\ target_h # target2_h
<1>1. ASSUME NEW w \in Words, w # "-"
      PROVE  <<w, ".", "h">> \in Name /\ OwnHeader(<<w, ".", "h">>)
  <2> DEFINE hp == <<".", "/", w, ".", "h">>
  <2>1. "." \in Words /\ "/" \in Words /\ "h" \in Words
    BY DirectoriesAssumption
  <2>2. hp \in Name /\ Len(hp) = 5 /\ hp[1] = "." /\ hp[2] = "/" /\ hp[3] = w /\ hp[4] = "." /\ hp[5] = "h"
    BY <2>1 DEF Name
  <2>3. SubSeq(hp, 3, 5) = <<w, ".", "h">>
    <3> DEFINE q1 == <<w, ".", "h">>
    <3>1. q1 \in Name /\ Len(q1) = 3 /\ q1[1] = w /\ q1[2] = "." /\ q1[3] = "h"
      BY <2>1 DEF Name
    <3> HIDE DEF hp, q1
    <3>2. \A k1 \in 3..5 : hp[k1] \in Words
      <4>1. \A k1 \in 3..5 : k1 \in 1..5
        OBVIOUS
      <4>2. \A k1 \in 1..5 : hp[k1] \in Words
        BY <2>2, ElementOfSeq DEF Name
      <4> QED BY <4>1, <4>2
    <3>3. /\ SubSeq(hp, 3, 5) \in Name /\ Len(SubSeq(hp, 3, 5)) = 5 - 3 + 1
          /\ \A k1 \in 1..5 - 3 + 1 : SubSeq(hp, 3, 5)[k1] = hp[3 + k1 - 1]
      BY <3>2, SubSeqProperties DEF Name
    <3>4. 5 - 3 + 1 = 3 /\ \A k1 \in 1..3 : 3 + k1 - 1 = k1 + 2
      OBVIOUS
    <3>5. \A k1 \in 1..3 : SubSeq(hp, 3, 5)[k1] = hp[k1 + 2]
      BY <3>3, <3>4
    <3>6. \A k1 \in 1..3 : SubSeq(hp, 3, 5)[k1] = q1[k1]
      BY <2>2, <3>1, <3>5
    <3>7. SubSeq(hp, 3, 5) = q1
      BY <3>1, <3>3, <3>4, <3>6, SeqEqual DEF Name
    <3> QED BY <3>7 DEF q1
  <2> HIDE DEF hp
  <2>4. HeaderPath(hp)
    <3>1. \A k \in 1..5 : hp[k] # "-"
      BY <1>1, <2>2
    <3> QED BY <2>2, <3>1 DEF HeaderPath
  <2> QED BY <2>2, <2>3, <2>4, NameOfHeader
<1>2. "target" \in Words /\ "target2" \in Words
  BY DirectoriesAssumption
<1>3. target_h # target2_h
  BY DEF target_h, target2_h
<1> QED
  BY <1>1, <1>2, <1>3 DEF target_h, target2_h

(* The files of HexToBin are no headers. *)
LEMMA NotOwn ==
  ASSUME NEW n \in Name, Len(n) = 3, n[3] # "h"
  PROVE  ~OwnHeader(n)
<1> SUFFICES ASSUME Target(n) = n PROVE FALSE
  BY DEF OwnHeader
<1> DEFINE hp == replaceadix(Path(n))
<1>1. HeaderPath(hp) /\ SubSeq(hp, 3, Len(hp)) = n
  BY PathReplaced DEF Target
<1> HIDE DEF hp
<1>2. hp \in Name /\ Len(hp) \in Nat /\ Len(hp) >= 4 /\ hp[Len(hp)] = "h"
  BY <1>1 DEF HeaderPath, Name
<1>3. \A k1 \in 3..Len(hp) : hp[k1] \in Words
  BY <1>2 DEF Name
<1> DEFINE t == SubSeq(hp, 3, Len(hp))
<1>4. /\ Len(t) = Len(hp) - 3 + 1
      /\ \A k1 \in 1..Len(hp) - 3 + 1 : t[k1] = hp[3 + k1 - 1]
  BY <1>2, <1>3, SubSeqProperties DEF Name
<1>5. t = n
  BY <1>1
<1> HIDE DEF t
<1>6. Len(hp) = 5
  <2>1. Len(t) = 3
    BY <1>5
  <2>2. Len(hp) - 3 + 1 = 3
    BY <2>1, <1>4
  <2> QED BY <2>2, <1>2
<1>7. t[3] = hp[3 + 3 - 1] /\ 3 + 3 - 1 = 5
  BY <1>4, <1>6
<1> QED
  BY <1>2, <1>5, <1>6, <1>7

LEMMA HexFilesNotOwn ==
  /\ RGB_bmp \in Name /\ ~OwnHeader(RGB_bmp)
  /\ RGB_txt \in Name => ~OwnHeader(RGB_txt)
  /\ RGB_txt # RGB_bmp
<1>1. "RGB" \in Words /\ "." \in Words /\ "bmp" \in Words
  BY DirectoriesAssumption
<1>2. RGB_bmp \in Name /\ Len(RGB_bmp) = 3 /\ RGB_bmp[3] # "h"
  BY <1>1 DEF RGB_bmp, Name
<1>3. Len(RGB_txt) = 3 /\ RGB_txt[3] # "h" /\ RGB_txt[3] # RGB_bmp[3]
  BY DEF RGB_txt, RGB_bmp
<1> QED
  BY <1>2, <1>3, NotOwn

(* The array is named after what stands before the last dot. *)
LEMMA StemOfName ==
  ASSUME NEW n \in Name, Dots(n) # {}
  PROVE  Stem(n) \in Name
<1>1. Dots(n) \subseteq 1..Len(n) /\ Len(n) \in Nat
  BY DEF Dots, Name
<1>2. Max(Dots(n)) \in Dots(n)
  BY <1>1, GreatestElement
<1> DEFINE m == Max(Dots(n)) - 1
<1>3. m \in 0..Len(n)
  BY <1>1, <1>2
<1>4. Stem(n) = SubSeq(n, 1, m)
  BY DEF Stem
<1> HIDE DEF m
<1>5. \A k1 \in 1..m : n[k1] \in Words
  BY <1>1, <1>3, ElementOfSeq DEF Name
<1> QED
  BY <1>3, <1>4, <1>5, SubSeqProperties DEF Name

-----------------------------------------------------------------------------
Declared == [array : Name, file : Name]
File == [bytes : Name, decls : Seq(Declared)]

FilesOK ==
  /\ files \in [DOMAIN files -> File] /\ DOMAIN files \subseteq Name
  /\ dirs \subseteq Name

BinOK ==
  /\ DOMAIN given \subseteq DOMAIN files
  /\ name \in Name /\ pos \in Nat
  /\ had \in [{target_h, target2_h} -> Seq(Declared)]
  /\ at \in {"idle", "walk", "convert", "declare"} /\ pass \in {"bintohex", "createcode"}
  /\ at = "convert" => /\ pass = "bintohex" /\ name \in Present
                       /\ Target(name) \in DOMAIN from /\ from[Target(name)] = name
  /\ at = "declare" => pass = "createcode" /\ Dots(name) # {}

(* No file changes but the headers. *)
Untouched == \A n \in DOMAIN given : ~OwnHeader(n) => files[n] = given[n]

(* A header that was written is one of the file that it was written from;  *)
(* of a directory none is ever finished.                                   *)
FromOK ==
  /\ DOMAIN from \subseteq DOMAIN files
  /\ \A t \in DOMAIN from :
       /\ from[t] \in Present /\ Target(from[t]) = t
       /\ from[t] \in dirs => at = "convert" /\ name = from[t]

(* As far as the loop of bintohex has come. *)
Converted ==
  at # "idle" =>
    \A t \in DOMAIN from :
      IF at = "convert" /\ t = Target(name)
        THEN name \notin dirs =>
               /\ pos <= Len(files[name].bytes)
               /\ files[t].bytes = IF name = t THEN <<>> ELSE SubSeq(files[name].bytes, 1, pos)
        ELSE files[t].bytes = IF from[t] = t THEN <<EofByte>>
                                             ELSE Append(files[from[t]].bytes, EofByte)

BinInv == FilesOK /\ BinOK /\ Untouched /\ FromOK /\ Converted

LEMMA PutWrites ==
  ASSUME FilesOK, NEW w \in Name, NEW fc \in File, files' = Put(w, fc), dirs' = dirs
  PROVE  /\ FilesOK'
         /\ DOMAIN files' = DOMAIN files \cup {w} /\ files'[w] = fc
         /\ \A f \in DOMAIN files \ {w} : files'[f] = files[f]
         /\ Present \subseteq Present'
<1>1. files' = [f \in DOMAIN files \cup {w} |-> IF f = w THEN fc ELSE files[f]]
  BY DEF Put
<1>2. DOMAIN files' = DOMAIN files \cup {w} /\ files'[w] = fc
      /\ \A f \in DOMAIN files \ {w} : files'[f] = files[f]
  BY <1>1
<1>3. \A f \in DOMAIN files' : files'[f] \in File
  BY <1>2 DEF FilesOK
<1>4. files' \in [DOMAIN files' -> File]
  BY <1>1, <1>3
<1> QED
  BY <1>2, <1>4 DEF FilesOK, Present

LEMMA FileFields ==
  ASSUME FilesOK, NEW f \in DOMAIN files
  PROVE  files[f] \in File /\ files[f].bytes \in Name /\ files[f].decls \in Seq(Declared)
         /\ f \in Name
BY DEF FilesOK, File

LEMMA FileOf ==
  ASSUME NEW w2 \in Name, NEW d \in Seq(Declared)
  PROVE  /\ [bytes |-> w2, decls |-> d] \in File
         /\ [bytes |-> w2, decls |-> d].bytes = w2 /\ [bytes |-> w2, decls |-> d].decls = d
BY DEF File

LEMMA DeclsOK ==
  ASSUME FilesOK, NEW n
  PROVE  Decls(n) \in Seq(Declared)
BY FileFields DEF Decls

LEMMA Eof == EofByte \in Words
BY DirectoriesAssumption

LEMMA OneEof == <<EofByte>> \in Name
BY Eof DEF Name

LEMMA EmptyOK == EmptyFile \in File /\ EmptyFile.bytes = <<>> /\ <<>> \in Name
BY DEF EmptyFile, File, Name

LEMMA AppendName ==
  ASSUME NEW s \in Name, NEW e \in Words
  PROVE  Append(s, e) \in Name
BY DEF Name

(* What PutByte writes. *)
LEMMA BytePut ==
  ASSUME FilesOK, NEW w \in DOMAIN files, NEW e \in Words, files' = PutByte(w, e), dirs' = dirs
  PROVE  /\ FilesOK'
         /\ DOMAIN files' = DOMAIN files
         /\ files'[w].bytes = Append(files[w].bytes, e) /\ files'[w].decls = files[w].decls
         /\ \A f \in DOMAIN files \ {w} : files'[f] = files[f]
<1> DEFINE fc == [bytes |-> Append(files[w].bytes, e), decls |-> files[w].decls]
<1>1. files[w].bytes \in Name /\ files[w].decls \in Seq(Declared) /\ w \in Name
  BY FileFields
<1>2. fc \in File /\ fc.bytes = Append(files[w].bytes, e) /\ fc.decls = files[w].decls
  BY <1>1, AppendName, FileOf
<1>3. files' = Put(w, fc)
  BY DEF PutByte
<1> HIDE DEF fc
<1>4. /\ FilesOK'
      /\ DOMAIN files' = DOMAIN files \cup {w} /\ files'[w] = fc
      /\ \A f \in DOMAIN files \ {w} : files'[f] = files[f]
  BY <1>1, <1>2, <1>3, PutWrites
<1> QED
  BY <1>2, <1>4

(* What PutDecl writes. *)
LEMMA DeclPut ==
  ASSUME FilesOK, NEW w \in Name, NEW d \in Declared, files' = PutDecl(w, d), dirs' = dirs
  PROVE  /\ FilesOK'
         /\ DOMAIN files' = DOMAIN files \cup {w}
         /\ w \in DOMAIN files => files'[w].bytes = files[w].bytes
         /\ files'[w].decls = Append(Decls(w), d)
         /\ \A f \in DOMAIN files \ {w} : files'[f] = files[f]
         /\ Present \subseteq Present'
<1> DEFINE w2 == IF w \in DOMAIN files THEN files[w].bytes ELSE <<>>
           ds == Append(Decls(w), d)
           fc == [bytes |-> w2, decls |-> ds]
<1>1. w2 \in Name /\ ds \in Seq(Declared)
  <2>1. w2 \in Name
    BY FileFields, EmptyOK
  <2>2. Decls(w) \in Seq(Declared)
    BY DeclsOK
  <2> QED BY <2>1, <2>2
<1>2. fc \in File /\ fc.bytes = w2 /\ fc.decls = ds
  <2> HIDE DEF w2, ds
  <2> QED BY <1>1, FileOf
<1>3. files' = Put(w, fc)
  BY DEF PutDecl
<1> HIDE DEF fc
<1>4. /\ FilesOK'
      /\ DOMAIN files' = DOMAIN files \cup {w} /\ files'[w] = fc
      /\ \A f \in DOMAIN files \ {w} : files'[f] = files[f]
      /\ Present \subseteq Present'
  BY <1>2, <1>3, PutWrites
<1> QED
  BY <1>2, <1>4

-----------------------------------------------------------------------------
(* Every file but the headers is as it was. *)
Kept ==
  /\ DOMAIN files \subseteq DOMAIN files'
  /\ \A f \in DOMAIN files : ~OwnHeader(f) => files'[f] = files[f]

LEMMA KeptUntouched ==
  ASSUME BinInv, Kept, given' = given
  PROVE  Untouched' /\ DOMAIN given \subseteq DOMAIN files'
BY DEF BinInv, BinOK, Untouched, Kept, OwnHeader

LEMMA NameOfPresent ==
  ASSUME FilesOK, NEW n \in Present
  PROVE  n \in Name
BY DEF FilesOK, Present

LEMMA StartKeeps ==
  ASSUME BinInv, Start, UNCHANGED <<dirs, given>>
  PROVE  BinInv' /\ Kept
<1> USE DEF BinInv, Start, Opendir
<1>1. Kept /\ Untouched'
  BY DEF Kept, Untouched, OwnHeader
<1>2. FilesOK' /\ BinOK'
  BY DEF FilesOK, BinOK
<1>3. from' = <<>> /\ DOMAIN from' = {}
  OBVIOUS
<1>4. FromOK' /\ Converted'
  BY <1>3 DEF FromOK, Converted
<1> QED
  BY <1>1, <1>2, <1>4

(* Nothing is written, and the walk goes on. *)
LEMMA NothingWritten ==
  ASSUME BinInv, at # "convert", at' \in {"idle", "walk"}, at = "idle" => at' = "idle",
         UNCHANGED <<files, dirs, given, from, pos>>,
         name' \in Name, pass' \in {"bintohex", "createcode"},
         had' \in [{target_h, target2_h} -> Seq(Declared)]
  PROVE  BinInv' /\ Kept
<1>1. FilesOK' /\ Untouched' /\ Kept
  BY DEF BinInv, FilesOK, Untouched, Kept, OwnHeader
<1>2. BinOK'
  BY DEF BinInv, BinOK
<1>3. FromOK'
  BY DEF BinInv, FromOK, Present
<1>4. Converted'
  BY DEF BinInv, Converted
<1> QED
  BY <1>1, <1>2, <1>3, <1>4 DEF BinInv

LEMMA WalkKeeps ==
  ASSUME BinInv, UNCHANGED <<dirs, given>>,
         \/ SecondWalk \/ WalksDone
         \/ \E n \in Present : SourceFails(n) \/ HeaderFails(n) \/ NoHeader(n)
  PROVE  BinInv' /\ Kept
<1>1. CASE SecondWalk
  <2>1. had' \in [{target_h, target2_h} -> Seq(Declared)]
    BY <1>1, DeclsOK DEF SecondWalk, Tables, BinInv
  <2>2. name' \in Name /\ pass' \in {"bintohex", "createcode"} /\ at = "walk" /\ at' = at
        /\ UNCHANGED <<files, from, pos>>
    BY <1>1 DEF SecondWalk, Opendir, BinInv, BinOK
  <2> QED BY <2>1, <2>2, NothingWritten
<1>2. CASE WalksDone
  <2>1. had' \in [{target_h, target2_h} -> Seq(Declared)]
        /\ name' \in Name /\ pass' \in {"bintohex", "createcode"} /\ at = "walk" /\ at' = "idle"
        /\ UNCHANGED <<files, from, pos>>
    BY <1>2 DEF WalksDone, walkVars, BinInv, BinOK
  <2> QED BY <2>1, NothingWritten
<1>3. ASSUME NEW n \in Present, SourceFails(n) \/ HeaderFails(n) \/ NoHeader(n)
      PROVE  BinInv' /\ Kept
  <2>1. name' = n /\ pass' = pass /\ at = "walk" /\ at' = at
        /\ UNCHANGED <<files, from, pos, had>>
    BY <1>3 DEF SourceFails, HeaderFails, NoHeader, Reported
  <2>2. n \in Name
    BY NameOfPresent DEF BinInv
  <2> QED BY <2>1, <2>2, NothingWritten DEF BinInv, BinOK
<1> QED
  BY <1>1, <1>2, <1>3

(* What a header was written from is no header, unless it is that header. *)
LEMMA SourceKept ==
  ASSUME BinInv, Kept, NEW t \in DOMAIN from, from[t] # t, from[t] \notin dirs
  PROVE  from[t] \in DOMAIN files /\ files'[from[t]] = files[from[t]]
<1>1. from[t] \in Present /\ Target(from[t]) = t
  BY DEF BinInv, FromOK
<1>2. from[t] \in DOMAIN files
  BY <1>1 DEF Present
<1>3. ~OwnHeader(from[t])
  BY <1>1 DEF OwnHeader
<1> QED
  BY <1>2, <1>3 DEF Kept

(* One header is written: the others hold what they held. *)
LEMMA OthersConverted ==
  ASSUME BinInv, Kept, NEW w,
         \A f \in DOMAIN files \ {w} : files'[f].bytes = files[f].bytes,
         NEW t \in DOMAIN from, t # w, ~(at = "convert" /\ t = Target(name)), at # "idle"
  PROVE  files'[t].bytes = IF from[t] = t THEN <<EofByte>>
                                          ELSE Append(files'[from[t]].bytes, EofByte)
<1>1. t \in DOMAIN files
  BY DEF BinInv, FromOK
<1>2. files[t].bytes = IF from[t] = t THEN <<EofByte>>
                                      ELSE Append(files[from[t]].bytes, EofByte)
  BY DEF BinInv, Converted
<1>3. files'[t].bytes = files[t].bytes
  BY <1>1
<1>4. from[t] \notin dirs
  BY DEF BinInv, FromOK
<1>5. CASE from[t] = t
  BY <1>2, <1>3, <1>5
<1>6. CASE from[t] # t
  <2>1. files'[from[t]] = files[from[t]]
    BY <1>4, <1>6, SourceKept
  <2> QED BY <1>2, <1>3, <1>6, <2>1
<1> QED
  BY <1>5, <1>6

LEMMA OpenBothKeeps ==
  ASSUME BinInv, NEW n \in Present, OpenBoth(n), UNCHANGED <<dirs, given>>
  PROVE  BinInv' /\ Kept
<1> DEFINE w == Target(n)
<1>1. n \in Name /\ w \in Name /\ OwnHeader(w)
  BY NameOfPresent, TargetOwn DEF BinInv
<1> HIDE DEF w
<1>2. /\ at = "walk" /\ at' = "convert" /\ pass = "bintohex" /\ pass' = pass /\ had' = had
      /\ name' = n /\ pos' = 0 /\ files' = Put(w, EmptyFile)
      /\ from' = [t \in DOMAIN from \cup {w} |-> IF t = w THEN n ELSE from[t]]
  BY DEF OpenBoth, Reported, w
<1>3. /\ FilesOK'
      /\ DOMAIN files' = DOMAIN files \cup {w} /\ files'[w] = EmptyFile
      /\ \A f \in DOMAIN files \ {w} : files'[f] = files[f]
      /\ Present \subseteq Present'
  BY <1>1, <1>2, EmptyOK, PutWrites DEF BinInv
<1>4. Kept
  BY <1>1, <1>3 DEF Kept
<1>5. Untouched' /\ DOMAIN given \subseteq DOMAIN files'
  BY <1>4, KeptUntouched
<1>6. DOMAIN from' = DOMAIN from \cup {w} /\ from'[w] = n
      /\ \A t \in DOMAIN from \ {w} : from'[t] = from[t]
  BY <1>2
<1>7. BinOK'
  <2>1. n \in Present'
    BY <1>3
  <2>2. Target(n) = w
    BY DEF w
  <2> QED BY <1>1, <1>2, <1>5, <1>6, <2>1, <2>2 DEF BinInv, BinOK
<1>8. FromOK'
  <2>1. DOMAIN from' \subseteq DOMAIN files'
    BY <1>3, <1>6 DEF BinInv, FromOK
  <2>2. ASSUME NEW t \in DOMAIN from'
        PROVE  /\ from'[t] \in Present' /\ Target(from'[t]) = t
               /\ from'[t] \in dirs' => at' = "convert" /\ name' = from'[t]
    <3>1. CASE t = w
      BY <3>1, <1>2, <1>3, <1>6 DEF w
    <3>2. CASE t # w
      <4>1. t \in DOMAIN from /\ from'[t] = from[t]
        BY <3>2, <1>6
      <4>2. from[t] \in Present /\ Target(from[t]) = t /\ from[t] \notin dirs
        BY <4>1, <1>2 DEF BinInv, FromOK
      <4> QED BY <4>1, <4>2, <1>3
    <3> QED BY <3>1, <3>2
  <2> QED BY <2>1, <2>2 DEF FromOK
<1>9. Converted'
  <2> SUFFICES ASSUME NEW t \in DOMAIN from'
               PROVE  (IF at' = "convert" /\ t = Target(name')
                 THEN name' \notin dirs' =>
                        /\ pos' <= Len(files'[name'].bytes)
                        /\ files'[t].bytes = IF name' = t THEN <<>> ELSE SubSeq(files'[name'].bytes, 1, pos')
                 ELSE files'[t].bytes = IF from'[t] = t THEN <<EofByte>>
                                             ELSE Append(files'[from'[t]].bytes, EofByte))
    BY DEF Converted
  <2>1. CASE t = w
    <3>1. files'[t].bytes = <<>>
      BY <2>1, <1>3, EmptyOK
    <3>2. ASSUME n \notin dirs
          PROVE  0 <= Len(files'[n].bytes) /\ SubSeq(files'[n].bytes, 1, 0) = <<>>
      <4>1. n \in DOMAIN files'
        BY <3>2, <1>3 DEF Present
      <4>2. files'[n].bytes \in Name
        BY <4>1, <1>3 DEF FilesOK, File
      <4>3. Len(files'[n].bytes) \in Nat
        BY <4>2 DEF Name
      <4>4. SubSeq(files'[n].bytes, 1, 0) = <<>>
        BY SubSeqEmpty
      <4> QED BY <4>3, <4>4
    <3>3. t = Target(name')
      BY <2>1, <1>2 DEF w
    <3> QED BY <1>2, <3>1, <3>2, <3>3
  <2>2. CASE t # w
    <3>1. t \in DOMAIN from /\ from'[t] = from[t]
      BY <2>2, <1>6
    <3>2. t # Target(name')
      BY <2>2, <1>2 DEF w
    <3>3. \A f \in DOMAIN files \ {w} : files'[f].bytes = files[f].bytes
      BY <1>3
    <3>4. files'[t].bytes = IF from[t] = t THEN <<EofByte>>
                                          ELSE Append(files'[from[t]].bytes, EofByte)
      BY <1>2, <1>4, <2>2, <3>1, <3>3, OthersConverted
    <3> QED BY <3>1, <3>2, <3>4
  <2> QED BY <2>1, <2>2
<1> QED
  BY <1>3, <1>4, <1>5, <1>7, <1>8, <1>9 DEF BinInv

(* What the header holds that bintohex is at, and what it holds then. *)
TurnWrites(w) ==
  /\ at' = "convert" => \/ name \in dirs
                        \/ /\ pos' <= Len(files'[name].bytes)
                           /\ files'[w].bytes = IF name = w THEN <<>>
                                                ELSE SubSeq(files'[name].bytes, 1, pos')
  /\ at' = "walk" => /\ name \notin dirs
                     /\ files'[w].bytes = IF name = w THEN <<EofByte>>
                                          ELSE Append(files'[name].bytes, EofByte)

LEMMA TurnKeeps ==
  ASSUME BinInv, at = "convert", at' \in {"convert", "walk"}, pos' \in Nat,
         UNCHANGED <<dirs, given, name, from, pass, had>>,
         FilesOK', DOMAIN files' = DOMAIN files,
         \A f \in DOMAIN files \ {Target(name)} : files'[f] = files[f],
         TurnWrites(Target(name))
  PROVE  BinInv' /\ Kept
<1> DEFINE w == Target(name)
<1>1. name \in Name /\ w \in Name /\ OwnHeader(w) /\ w \in DOMAIN from /\ from[w] = name
  BY TargetOwn DEF BinInv, BinOK
<1> HIDE DEF w
<1>2. \A f \in DOMAIN files \ {w} : files'[f] = files[f]
  BY DEF w
<1>3. Kept
  BY <1>1, <1>2 DEF Kept
<1>4. Untouched' /\ DOMAIN given \subseteq DOMAIN files'
  BY <1>3, KeptUntouched
<1>5. BinOK'
  BY <1>4 DEF BinInv, BinOK, Present
<1>6. FromOK'
  <2>1. ASSUME NEW t \in DOMAIN from
        PROVE  /\ from[t] \in Present' /\ Target(from[t]) = t
               /\ from[t] \in dirs => at' = "convert" /\ name = from[t]
    BY DEF BinInv, FromOK, Present, TurnWrites
  <2> QED BY <2>1 DEF BinInv, FromOK
<1>7. Converted'
  <2> SUFFICES ASSUME NEW t \in DOMAIN from
               PROVE  (IF at' = "convert" /\ t = Target(name')
                 THEN name' \notin dirs' =>
                        /\ pos' <= Len(files'[name'].bytes)
                        /\ files'[t].bytes = IF name' = t THEN <<>> ELSE SubSeq(files'[name'].bytes, 1, pos')
                 ELSE files'[t].bytes = IF from'[t] = t THEN <<EofByte>>
                                             ELSE Append(files'[from'[t]].bytes, EofByte))
    BY DEF Converted
  <2>1. CASE t = w
    BY <2>1, <1>1 DEF TurnWrites, w
  <2>2. CASE t # w
    <3>1. t # Target(name)
      BY <2>2 DEF w
    <3>2. \A f \in DOMAIN files \ {w} : files'[f].bytes = files[f].bytes
      BY <1>2
    <3>3. files'[t].bytes = IF from[t] = t THEN <<EofByte>>
                                          ELSE Append(files'[from[t]].bytes, EofByte)
      BY <1>3, <2>2, <3>1, <3>2, OthersConverted
    <3> QED BY <3>1, <3>3
  <2> QED BY <2>1, <2>2
<1> QED
  BY <1>3, <1>4, <1>5, <1>6, <1>7 DEF BinInv

LEMMA ReadByteKeeps ==
  ASSUME BinInv, ReadByte, UNCHANGED <<dirs, given>>
  PROVE  BinInv' /\ Kept
<1> DEFINE w == Target(name)
           w2 == files[name].bytes
<1>1. /\ at = "convert" /\ at' = at /\ name \notin dirs /\ name # w /\ pos < Len(w2)
      /\ files' = PutByte(w, w2[pos + 1]) /\ pos' = pos + 1
      /\ UNCHANGED <<name, from, pass, had>>
  BY DEF ReadByte, walkVars
<1>2. name \in DOMAIN files /\ w \in DOMAIN from /\ w \in DOMAIN files /\ pos \in Nat /\ FilesOK
  BY <1>1 DEF BinInv, BinOK, FromOK, Present
<1>3. files[w].bytes = SubSeq(w2, 1, pos)
  BY <1>1, <1>2 DEF BinInv, Converted
<1>4. w2 \in Name /\ Len(w2) \in Nat
  BY <1>2, FileFields DEF Name
<1> HIDE DEF w, w2
<1>5. pos + 1 \in 1..Len(w2) /\ w2[pos + 1] \in Words
  BY <1>1, <1>2, <1>4, ElementOfSeq DEF Name
<1>6. /\ FilesOK' /\ DOMAIN files' = DOMAIN files
      /\ files'[w].bytes = Append(files[w].bytes, w2[pos + 1])
      /\ \A f \in DOMAIN files \ {w} : files'[f] = files[f]
  BY <1>1, <1>2, <1>5, BytePut
<1>7. files'[w].bytes = SubSeq(w2, 1, pos + 1)
  <2> DEFINE s == SubSeq(w2, 1, pos)
             cut == SubSeq(w2, 1, pos + 1)
  <2>1. s \in Name /\ Len(s) = pos /\ \A k1 \in 1..pos : s[k1] = w2[k1]
    <3>1. \A k1 \in 1..pos : w2[k1] \in Words
      BY <1>2, <1>4, <1>5, ElementOfSeq DEF Name
    <3>2. s \in Name /\ Len(s) = (IF 1 <= pos THEN pos - 1 + 1 ELSE 0)
          /\ \A k1 \in 1..pos - 1 + 1 : s[k1] = w2[1 + k1 - 1]
      BY <1>2, <3>1, SubSeqProperties DEF Name
    <3>3. pos - 1 + 1 = pos /\ \A k1 \in 1..pos : 1 + k1 - 1 = k1
      BY <1>2
    <3> HIDE DEF s
    <3> QED BY <1>2, <3>2, <3>3
  <2>2. cut \in Name /\ Len(cut) = pos + 1 /\ \A k1 \in 1..pos + 1 : cut[k1] = w2[k1]
    <3>1. \A k1 \in 1..pos + 1 : w2[k1] \in Words
      BY <1>2, <1>4, <1>5, ElementOfSeq DEF Name
    <3>2. cut \in Name /\ Len(cut) = (IF 1 <= pos + 1 THEN (pos + 1) - 1 + 1 ELSE 0)
          /\ \A k1 \in 1..(pos + 1) - 1 + 1 : cut[k1] = w2[1 + k1 - 1]
      BY <1>2, <3>1, SubSeqProperties DEF Name
    <3>3. (pos + 1) - 1 + 1 = pos + 1 /\ \A k1 \in 1..pos + 1 : 1 + k1 - 1 = k1
      BY <1>2
    <3> HIDE DEF cut
    <3> QED BY <1>2, <3>2, <3>3
  <2>3. files'[w].bytes = Append(s, w2[pos + 1])
    BY <1>3, <1>6
  <2> HIDE DEF s, cut
  <2>4. Append(s, w2[pos + 1]) \in Name /\ Len(Append(s, w2[pos + 1])) = pos + 1
        /\ \A k1 \in 1..pos + 1 : Append(s, w2[pos + 1])[k1] = cut[k1]
    BY <1>2, <1>5, <2>1, <2>2 DEF Name
  <2>5. Append(s, w2[pos + 1]) = cut
    BY <2>2, <2>4, SeqEqual DEF Name
  <2> QED BY <2>3, <2>5 DEF cut
<1>8. files'[name].bytes = w2
  BY <1>1, <1>2, <1>6 DEF w2
<1>9. TurnWrites(w)
  BY <1>1, <1>5, <1>7, <1>8 DEF TurnWrites
<1>10. pos' \in Nat
  BY <1>1, <1>2
<1> QED
  BY <1>1, <1>6, <1>9, <1>10, TurnKeeps DEF w

LEMMA ReadEndKeeps ==
  ASSUME BinInv, ReadEnd, UNCHANGED <<dirs, given>>
  PROVE  BinInv' /\ Kept
<1> DEFINE w == Target(name)
           w2 == files[name].bytes
<1>1. /\ at = "convert" /\ at' = "walk" /\ name \notin dirs /\ (name = w \/ pos = Len(w2))
      /\ files' = PutByte(w, EofByte)
      /\ UNCHANGED <<name, from, pass, had, pos>>
  BY DEF ReadEnd, AtEnd, walkVars
<1>2. name \in DOMAIN files /\ w \in DOMAIN from /\ w \in DOMAIN files /\ pos \in Nat /\ FilesOK
  BY <1>1 DEF BinInv, BinOK, FromOK, Present
<1>3. files[w].bytes = IF name = w THEN <<>> ELSE SubSeq(w2, 1, pos)
  BY <1>1, <1>2 DEF BinInv, Converted
<1>4. w2 \in Name /\ Len(w2) \in Nat
  BY <1>2, FileFields DEF Name
<1> HIDE DEF w, w2
<1>5. /\ FilesOK' /\ DOMAIN files' = DOMAIN files
      /\ files'[w].bytes = Append(files[w].bytes, EofByte)
      /\ \A f \in DOMAIN files \ {w} : files'[f] = files[f]
  BY <1>1, <1>2, Eof, BytePut
<1>6. files'[w].bytes = IF name = w THEN <<EofByte>> ELSE Append(files'[name].bytes, EofByte)
  <2>1. CASE name = w
    <3>1. Append(<<>>, EofByte) = <<EofByte>>
      OBVIOUS
    <3> QED BY <2>1, <3>1, <1>3, <1>5
  <2>2. CASE name # w
    <3>1. SubSeq(w2, 1, Len(w2)) = w2
      BY <1>4, SubSeqFull DEF Name
    <3>2. files'[name].bytes = w2
      BY <2>2, <1>2, <1>5 DEF w2
    <3> QED BY <2>2, <3>1, <3>2, <1>1, <1>3, <1>5
  <2> QED BY <2>1, <2>2
<1>7. TurnWrites(w)
  BY <1>1, <1>6 DEF TurnWrites
<1> QED
  BY <1>1, <1>2, <1>5, <1>7, TurnKeeps DEF w

LEMMA ReadDirectoryKeeps ==
  ASSUME BinInv, ReadDirectory, UNCHANGED <<dirs, given>>
  PROVE  BinInv' /\ Kept
<1> DEFINE w == Target(name)
           fc == [bytes |-> <<EofByte>>, decls |-> files[w].decls]
<1>1. /\ at = "convert" /\ at' = at /\ name \in dirs /\ files' = Put(w, fc)
      /\ UNCHANGED <<name, from, pass, had, pos>>
  BY DEF ReadDirectory, walkVars
<1>2. w \in DOMAIN files /\ pos \in Nat /\ FilesOK
  BY <1>1 DEF BinInv, BinOK, FromOK
<1>3. fc \in File /\ w \in Name
  BY <1>2, OneEof, FileFields, FileOf
<1> HIDE DEF w, fc
<1>4. /\ FilesOK' /\ DOMAIN files' = DOMAIN files
      /\ \A f \in DOMAIN files \ {w} : files'[f] = files[f]
  BY <1>1, <1>2, <1>3, PutWrites
<1>5. TurnWrites(w)
  BY <1>1 DEF TurnWrites
<1> QED
  BY <1>1, <1>2, <1>4, <1>5, TurnKeeps DEF w

LEMMA DeclarationOK ==
  ASSUME NEW n \in Name, Dots(n) # {}
  PROVE  Declaration(n) \in Declared
BY StemOfName DEF Declaration, Declared

(* A table takes a declaration, or none does. *)
LEMMA TableKeeps ==
  ASSUME BinInv, at \in {"walk", "declare"}, pass = "createcode",
         UNCHANGED <<dirs, given, from, pos, pass, had>>,
         name' \in Name, Dots(name') # {}, at' \in {"walk", "declare"},
         NEW w \in {target_h, target2_h}, NEW d \in Declared,
         files' = PutDecl(w, d)
  PROVE  BinInv' /\ Kept
<1>1. w \in Name /\ OwnHeader(w)
  BY TablesOwn
<1>2. /\ FilesOK'
      /\ DOMAIN files' = DOMAIN files \cup {w}
      /\ w \in DOMAIN files => files'[w].bytes = files[w].bytes
      /\ \A f \in DOMAIN files \ {w} : files'[f] = files[f]
      /\ Present \subseteq Present'
  BY <1>1, DeclPut DEF BinInv
<1>3. Kept
  BY <1>1, <1>2 DEF Kept
<1>4. Untouched' /\ DOMAIN given \subseteq DOMAIN files'
  BY <1>3, KeptUntouched
<1>5. BinOK'
  BY <1>4 DEF BinInv, BinOK
<1>6. FromOK'
  <2>1. ASSUME NEW t \in DOMAIN from
        PROVE  from[t] \in Present' /\ Target(from[t]) = t /\ from[t] \notin dirs
    BY <1>2 DEF BinInv, FromOK
  <2>2. DOMAIN from \subseteq DOMAIN files'
    BY <1>2 DEF BinInv, FromOK
  <2> QED BY <2>1, <2>2 DEF FromOK
<1>7. Converted'
  <2> SUFFICES ASSUME NEW t \in DOMAIN from
               PROVE  files'[t].bytes = IF from[t] = t THEN <<EofByte>>
                                             ELSE Append(files'[from[t]].bytes, EofByte)
    BY DEF Converted
  <2>1. t \in DOMAIN files /\ from[t] \notin dirs
    BY DEF BinInv, FromOK
  <2>2. files'[t].bytes = files[t].bytes
    BY <1>2, <2>1
  <2>3. files[t].bytes = IF from[t] = t THEN <<EofByte>>
                                        ELSE Append(files[from[t]].bytes, EofByte)
    BY DEF BinInv, Converted
  <2>4. CASE from[t] = t
    BY <2>2, <2>3, <2>4
  <2>5. CASE from[t] # t
    <3>1. files'[from[t]] = files[from[t]]
      BY <1>3, <2>1, <2>5, SourceKept
    <3> QED BY <2>2, <2>3, <2>5, <3>1
  <2> QED BY <2>4, <2>5
<1> QED
  BY <1>2, <1>3, <1>4, <1>5, <1>6, <1>7 DEF BinInv

LEMMA DeclareKeeps ==
  ASSUME BinInv, NEW n \in Present, Declare(n), UNCHANGED <<dirs, given>>
  PROVE  BinInv' /\ Kept
<1>1. /\ at = "walk" /\ at' = "declare" /\ pass = "createcode" /\ name' = n
      /\ files' = PutDecl(target_h, Declaration(n))
      /\ UNCHANGED <<from, pos, pass, had>>
  BY DEF Declare, Reported
<1>2. n \in Name
  BY NameOfPresent DEF BinInv
<1>3. Dots(n) # {}
  BY DEF Declare, LooksLikeHeader
<1>4. Declaration(n) \in Declared
  BY <1>2, <1>3, DeclarationOK
<1> QED
  BY <1>1, <1>2, <1>3, <1>4, TableKeeps

LEMMA EnlistKeeps ==
  ASSUME BinInv, Enlist, UNCHANGED <<dirs, given>>
  PROVE  BinInv' /\ Kept
<1>1. /\ at = "declare" /\ at' = "walk" /\ UNCHANGED <<name, from, pos, pass, had>>
  BY DEF Enlist, walkVars
<1>2. pass = "createcode" /\ Dots(name) # {} /\ name \in Name
      /\ had \in [{target_h, target2_h} -> Seq(Declared)]
  BY <1>1 DEF BinInv, BinOK
<1>3. CASE files' = files
  BY <1>1, <1>2, <1>3, NothingWritten
<1>4. CASE files' = PutDecl(target2_h, Declaration(name))
  <2>1. Declaration(name) \in Declared
    BY <1>2, DeclarationOK
  <2> QED BY <1>1, <1>2, <1>4, <2>1, TableKeeps
<1> QED
  BY <1>3, <1>4 DEF Enlist

LEMMA BinStepKeeps ==
  ASSUME BinInv, binNext
  PROVE  BinInv' /\ Kept
<1>1. UNCHANGED <<dirs, given>>
  BY DEF binNext
<1> QED
  BY <1>1, StartKeeps, WalkKeeps, OpenBothKeeps, ReadByteKeeps, ReadEndKeeps, ReadDirectoryKeeps,
     DeclareKeeps, EnlistKeeps DEF binNext

(* What the property says. *)
LEMMA HeadersHoldIn ==
  ASSUME BinInv
  PROVE  HeadersHold
<1>1. ASSUME NEW n \in DOMAIN given
      PROVE  files[n] = given[n] \/ IsSuffix(<<".", "h">>, n)
  BY DEF BinInv, Untouched, OwnHeader
<1>2. ASSUME at # "idle", pass = "createcode", NEW t \in DOMAIN from
      PROVE  files[t].bytes = IF from[t] = t THEN <<EofByte>>
                                             ELSE Append(Original(from[t]), EofByte)
  <2>1. at # "convert"
    BY <1>2 DEF BinInv, BinOK
  <2>2. files[t].bytes = IF from[t] = t THEN <<EofByte>>
                                        ELSE Append(files[from[t]].bytes, EofByte)
    BY <1>2, <2>1 DEF BinInv, Converted
  <2>3. ASSUME from[t] # t PROVE Original(from[t]) = files[from[t]].bytes
    <3>1. ~OwnHeader(from[t])
      BY <2>3, <1>2 DEF BinInv, FromOK, OwnHeader
    <3> QED BY <3>1 DEF BinInv, Untouched, Original
  <2> QED BY <2>2, <2>3
<1> QED
  BY <1>1, <1>2 DEF HeadersHold

-----------------------------------------------------------------------------
(* What createcode has appended to each table. *)
TablesInv ==
  pass = "createcode" =>
    \E A, B \in Seq(Declared) :
      /\ Decls(target_h) = had[target_h] \o A
      /\ Decls(target2_h) = had[target2_h] \o B
      /\ IF OpensToWrite(target2_h, 2)
           THEN IF at = "declare" THEN A = Append(B, Declaration(name)) ELSE A = B
           ELSE B = <<>>

LEMMA AppendToEnd ==
  ASSUME NEW h \in Seq(Declared), NEW A \in Seq(Declared), NEW d \in Declared
  PROVE  /\ Append(h \o A, d) = h \o Append(A, d)
         /\ Append(A, d) \in Seq(Declared)
<1>1. Append(A, d) \in Seq(Declared) /\ h \o A \in Seq(Declared) /\ <<d>> \in Seq(Declared)
  OBVIOUS
<1>2. Append(A, d) = A \o <<d>> /\ Append(h \o A, d) = (h \o A) \o <<d>>
  BY <1>1, AppendIsConcat
<1>3. (h \o A) \o <<d>> = h \o (A \o <<d>>)
  BY <1>1, ConcatAssociative
<1> QED
  BY <1>1, <1>2, <1>3

(* The tables are the same, and can be opened as before. *)
LEMMA TablesSame ==
  ASSUME TablesInv, UNCHANGED <<dirs, leaked, pass, had>>, at # "declare", at' # "declare",
         Decls(target_h)' = Decls(target_h), Decls(target2_h)' = Decls(target2_h)
  PROVE  TablesInv'
BY DEF TablesInv, OpensToWrite, Room

LEMMA TablesStep ==
  ASSUME BinInv, TablesInv, binNext
  PROVE  TablesInv'
<1> SUFFICES ASSUME pass' = "createcode" PROVE TablesInv'
  BY DEF TablesInv
<1>1. UNCHANGED <<dirs, given>>
  BY DEF binNext
<1>2. had \in [{target_h, target2_h} -> Seq(Declared)] /\ FilesOK
  BY DEF BinInv, BinOK
<1>3. CASE SecondWalk
  <2>1. had' = Tables /\ files' = files
    BY <1>3 DEF SecondWalk
  <2>2. had'[target_h] = Decls(target_h) /\ had'[target2_h] = Decls(target2_h)
    BY <2>1 DEF Tables
  <2>3. Decls(target_h) \in Seq(Declared) /\ Decls(target2_h) \in Seq(Declared)
    BY <1>2, DeclsOK
  <2>4. Decls(target_h) \o <<>> = Decls(target_h) /\ Decls(target2_h) \o <<>> = Decls(target2_h)
        /\ <<>> \in Seq(Declared)
    BY <2>3, ConcatEmptySeq
  <2>5. at' # "declare"
    BY <1>3 DEF SecondWalk
  <2>6. Decls(target_h)' = Decls(target_h) /\ Decls(target2_h)' = Decls(target2_h)
    BY <2>1 DEF Decls
  <2> QED BY <2>2, <2>4, <2>5, <2>6 DEF TablesInv
<1>4. CASE WalksDone \/ \E n \in Present : NoHeader(n)
  <2>1. files' = files /\ at # "declare" /\ at' # "declare" /\ UNCHANGED <<leaked, pass, had>>
    BY <1>4 DEF WalksDone, NoHeader, Reported
  <2>2. Decls(target_h)' = Decls(target_h) /\ Decls(target2_h)' = Decls(target2_h)
    BY <2>1 DEF Decls
  <2> QED BY <1>1, <2>1, <2>2, TablesSame
<1>5. ASSUME NEW n \in Present, Declare(n) PROVE TablesInv'
  <2> DEFINE d == Declaration(n)
  <2>1. /\ at = "walk" /\ at' = "declare" /\ pass = "createcode" /\ name' = n
        /\ files' = PutDecl(target_h, d) /\ UNCHANGED <<leaked, had>>
    BY <1>5 DEF Declare, Reported
  <2>2. d \in Declared
    <3>1. n \in Name /\ Dots(n) # {}
      BY <1>5, NameOfPresent DEF BinInv, Declare, LooksLikeHeader
    <3> QED BY <3>1, DeclarationOK
  <2>3. Declaration(name') = d
    BY <2>1
  <2> HIDE DEF d
  <2>4. /\ DOMAIN files' = DOMAIN files \cup {target_h}
        /\ files'[target_h].decls = Append(Decls(target_h), d)
        /\ \A f \in DOMAIN files \ {target_h} : files'[f] = files[f]
    BY <1>1, <1>2, <2>1, <2>2, TablesOwn, DeclPut
  <2>5. Decls(target_h)' = Append(Decls(target_h), d) /\ Decls(target2_h)' = Decls(target2_h)
    BY <2>4, TablesOwn DEF Decls
  <2>6. PICK A \in Seq(Declared), B \in Seq(Declared) :
          /\ Decls(target_h) = had[target_h] \o A
          /\ Decls(target2_h) = had[target2_h] \o B
          /\ IF OpensToWrite(target2_h, 2) THEN A = B ELSE B = <<>>
    BY <2>1 DEF TablesInv
  <2>7. Decls(target_h)' = had'[target_h] \o Append(A, d) /\ Append(A, d) \in Seq(Declared)
    <3>1. had[target_h] \in Seq(Declared)
      BY <1>2
    <3>2. /\ Append(had[target_h] \o A, d) = had[target_h] \o Append(A, d)
          /\ Append(A, d) \in Seq(Declared)
      BY <2>2, <3>1, AppendToEnd
    <3> QED BY <2>1, <2>5, <2>6, <3>2, Zenon
  <2>8. OpensToWrite(target2_h, 2)' = OpensToWrite(target2_h, 2)
    BY <1>1, <2>1 DEF OpensToWrite, Room
  <2>9. IF OpensToWrite(target2_h, 2) THEN Append(A, d) = Append(B, d) ELSE B = <<>>
    BY <2>6
  <2>10. Decls(target2_h)' = had'[target2_h] \o B
    BY <2>1, <2>5, <2>6
  <2> QED BY <2>1, <2>3, <2>7, <2>8, <2>9, <2>10 DEF TablesInv
<1>6. CASE Enlist
  <2> DEFINE d == Declaration(name)
  <2>1. /\ at = "declare" /\ at' = "walk" /\ UNCHANGED <<leaked, had, name, pass>>
        /\ files' = IF OpensToWrite(target2_h, 2) THEN PutDecl(target2_h, d) ELSE files
    BY <1>6 DEF Enlist, walkVars
  <2>2. d \in Declared
    BY <2>1, DeclarationOK DEF BinInv, BinOK
  <2>3. PICK A \in Seq(Declared), B \in Seq(Declared) :
          /\ Decls(target_h) = had[target_h] \o A
          /\ Decls(target2_h) = had[target2_h] \o B
          /\ IF OpensToWrite(target2_h, 2) THEN A = Append(B, d) ELSE B = <<>>
    BY <2>1 DEF TablesInv
  <2> HIDE DEF d
  <2>4. OpensToWrite(target2_h, 2)' = OpensToWrite(target2_h, 2)
    BY <1>1, <2>1 DEF OpensToWrite, Room
  <2>5. CASE OpensToWrite(target2_h, 2)
    <3>1. /\ DOMAIN files' = DOMAIN files \cup {target2_h}
          /\ files'[target2_h].decls = Append(Decls(target2_h), d)
          /\ \A f \in DOMAIN files \ {target2_h} : files'[f] = files[f]
      BY <1>1, <1>2, <2>1, <2>2, <2>5, TablesOwn, DeclPut
    <3>2. Decls(target2_h)' = Append(Decls(target2_h), d) /\ Decls(target_h)' = Decls(target_h)
      BY <3>1, TablesOwn DEF Decls
    <3>3. had[target2_h] \in Seq(Declared)
      BY <1>2
    <3>4. Decls(target2_h)' = had'[target2_h] \o A
      <4>1. Append(had[target2_h] \o B, d) = had[target2_h] \o Append(B, d)
        BY <2>2, <3>3, AppendToEnd
      <4>2. Append(B, d) = A
        BY <2>3, <2>5
      <4> QED BY <2>1, <2>3, <3>2, <4>1, <4>2, Zenon
    <3>5. Decls(target_h)' = had'[target_h] \o A
      BY <2>1, <2>3, <3>2
    <3> QED BY <2>1, <2>4, <2>5, <3>4, <3>5 DEF TablesInv
  <2>6. CASE ~OpensToWrite(target2_h, 2)
    <3>1. files' = files
      BY <2>1, <2>6
    <3>2. Decls(target2_h)' = had'[target2_h] \o B /\ Decls(target_h)' = had'[target_h] \o A
          /\ B = <<>>
      BY <2>1, <2>3, <2>6, <3>1 DEF Decls
    <3> QED BY <2>4, <2>6, <3>2 DEF TablesInv
  <2> QED BY <2>5, <2>6
<1>7. CASE \/ Start \/ ReadByte \/ ReadEnd \/ ReadDirectory
           \/ \E n \in Present : SourceFails(n) \/ HeaderFails(n) \/ OpenBoth(n)
  <2>1. at = "convert" => pass = "bintohex"
    BY DEF BinInv, BinOK
  <2> QED BY <1>7, <2>1 DEF Start, Opendir, ReadByte, ReadEnd, ReadDirectory, SourceFails, HeaderFails, OpenBoth
<1> QED
  BY <1>3, <1>4, <1>5, <1>6, <1>7 DEF binNext

LEMMA AddedIs ==
  ASSUME NEW h \in Seq(Declared), NEW A \in Seq(Declared)
  PROVE  /\ SubSeq(h \o A, Len(h) + 1, Len(h \o A)) = A
         /\ IsPrefix(h, h \o A)
<1>1. Len(h \o A) = Len(h) + Len(A) /\ Len(h) \in Nat /\ Len(A) \in Nat
  OBVIOUS
<1>2. SubSeq(h \o A, Len(h) + 1, Len(h) + Len(A)) = A
  <2>1. CASE Len(A) = 0
    <3>1. A = <<>>
      BY <2>1, EmptySeq
    <3>2. SubSeq(h \o A, Len(h) + 1, Len(h) + Len(A)) = <<>>
      BY <2>1, <1>1, SubSeqEmpty
    <3> QED BY <3>1, <3>2
  <2>2. CASE Len(A) # 0
    <3>1. Len(h) + 1 \in Len(h) + 1..Len(h) + Len(A) /\ Len(h) + Len(A) \in Len(h) + 1..Len(h) + Len(A)
      BY <2>2, <1>1
    <3>2. SubSeq(h \o A, Len(h) + 1, Len(h) + Len(A))
            = SubSeq(A, (Len(h) + 1) - Len(h), (Len(h) + Len(A)) - Len(h))
      BY <3>1, SubSeqOfConcat2
    <3>3. (Len(h) + 1) - Len(h) = 1 /\ (Len(h) + Len(A)) - Len(h) = Len(A)
      BY <1>1
    <3>4. SubSeq(A, 1, Len(A)) = A
      BY SubSeqFull
    <3> QED BY <3>2, <3>3, <3>4
  <2> QED BY <2>1, <2>2
<1>3. SubSeq(h, 1, Len(h)) = SubSeq(h \o A, 1, Len(h))
  <2>1. CASE Len(h) = 0
    <3>1. SubSeq(h, 1, 0) = <<>> /\ SubSeq(h \o A, 1, 0) = <<>>
      BY SubSeqEmpty
    <3> QED BY <2>1, <3>1
  <2>2. CASE Len(h) # 0
    <3>1. 1 \in 1..Len(h) /\ Len(h) \in 1..Len(h)
      BY <2>2, <1>1
    <3> QED BY <3>1, SubSeqOfConcat1
  <2> QED BY <2>1, <2>2
<1> QED
  BY <1>1, <1>2, <1>3 DEF IsPrefix

(* What the property says. *)
LEMMA TablesAgreeIn ==
  ASSUME BinInv, TablesInv
  PROVE  TablesAgree
<1> SUFFICES ASSUME pass = "createcode"
             PROVE  /\ \A n \in {target_h, target2_h} : IsPrefix(had[n], Decls(n))
                    /\ \/ Added(target2_h) = IF at = "declare" THEN Front(Added(target_h)) ELSE Added(target_h)
                       \/ Added(target2_h) = <<>> /\ ~OpensToWrite(target2_h, 2)
  BY DEF TablesAgree
<1>1. PICK A \in Seq(Declared), B \in Seq(Declared) :
        /\ Decls(target_h) = had[target_h] \o A
        /\ Decls(target2_h) = had[target2_h] \o B
        /\ IF OpensToWrite(target2_h, 2)
             THEN IF at = "declare" THEN A = Append(B, Declaration(name)) ELSE A = B
             ELSE B = <<>>
  BY DEF TablesInv
<1>2. had[target_h] \in Seq(Declared) /\ had[target2_h] \in Seq(Declared)
  BY DEF BinInv, BinOK
<1>3. Added(target_h) = A /\ Added(target2_h) = B
      /\ IsPrefix(had[target_h], Decls(target_h)) /\ IsPrefix(had[target2_h], Decls(target2_h))
  <2> DEFINE h == had[target_h]
             g == had[target2_h]
  <2>1. h \in Seq(Declared) /\ g \in Seq(Declared)
    BY <1>2
  <2>2. Added(target_h) = SubSeq(h \o A, Len(h) + 1, Len(h \o A))
        /\ Added(target2_h) = SubSeq(g \o B, Len(g) + 1, Len(g \o B))
    BY <1>1 DEF Added
  <2>3. Decls(target_h) = h \o A /\ Decls(target2_h) = g \o B
    BY <1>1
  <2> HIDE DEF h, g
  <2>4. SubSeq(h \o A, Len(h) + 1, Len(h \o A)) = A /\ IsPrefix(h, h \o A)
    BY <2>1, AddedIs
  <2>5. SubSeq(g \o B, Len(g) + 1, Len(g \o B)) = B /\ IsPrefix(g, g \o B)
    BY <2>1, AddedIs
  <2>6. Added(target_h) = A /\ Added(target2_h) = B
    BY <2>2, <2>4, <2>5, Zenon
  <2>7. IsPrefix(h, Decls(target_h)) /\ IsPrefix(g, Decls(target2_h))
    BY <2>3, <2>4, <2>5, Zenon
  <2> QED BY <2>6, <2>7 DEF h, g
<1>4. ASSUME at = "declare", A = Append(B, Declaration(name)) PROVE Front(A) = B
  <2>1. Declaration(name) \in Declared
    BY <1>4, DeclarationOK DEF BinInv, BinOK
  <2>2. Len(A) = Len(B) + 1 /\ Len(B) \in Nat /\ A = B \o <<Declaration(name)>>
    BY <1>4, <2>1, AppendIsConcat
  <2>3. IsPrefix(B, A)
    <3>1. <<Declaration(name)>> \in Seq(Declared)
      BY <2>1
    <3> QED BY <2>2, <3>1, AddedIs
  <2>4. Front(A) = SubSeq(A, 1, Len(B))
    BY <2>2 DEF Front
  <2>5. SubSeq(B, 1, Len(B)) = B
    BY SubSeqFull
  <2> QED BY <2>3, <2>4, <2>5 DEF IsPrefix
<1> QED
  BY <1>1, <1>3, <1>4

-----------------------------------------------------------------------------
(* As far as the loop of hextobin has come: all numbers so far are written,*)
(* and the local i holds what fwrite returned for the last one.            *)
ScanInv ==
  /\ read \in 0..Len(Numbers) /\ (read = 0 \/ read < Len(Numbers))
  /\ files[RGB_bmp].bytes = SubSeq(Numbers, 1, read)
  /\ \A k \in 1..read : Number(Numbers[k])
  /\ word = IF read = 0 THEN "0" ELSE "1"

HexInv ==
  /\ hexAt \in {"none", "scan", "done", "exited", "endless"}
  /\ hexAt \in {"scan", "done", "exited"} => {RGB_txt, RGB_bmp} \subseteq DOMAIN files
  /\ hexAt = "scan" => ScanInv
  /\ hexAt = "endless" => word \in {"0", "1"}
  /\ WordsWritten

(* The other program writes headers only. *)
LEMMA BinKeepsHex ==
  ASSUME BinInv, HexInv, Kept, hexAt \notin {"scan", "endless"}, UNCHANGED hexVars
  PROVE  HexInv'
<1>1. UNCHANGED <<hexAt, word, read>>
  BY DEF hexVars
<1>2. CASE hexAt = "none"
  BY <1>1, <1>2 DEF HexInv, WordsWritten
<1>3. CASE hexAt # "none"
  <2>1. RGB_txt \in DOMAIN files /\ RGB_bmp \in DOMAIN files
    BY <1>3 DEF HexInv
  <2>2. ~OwnHeader(RGB_txt) /\ ~OwnHeader(RGB_bmp)
    BY <2>1, HexFilesNotOwn DEF BinInv, FilesOK
  <2>3. files'[RGB_txt] = files[RGB_txt] /\ files'[RGB_bmp] = files[RGB_bmp]
        /\ RGB_txt \in DOMAIN files' /\ RGB_bmp \in DOMAIN files'
    BY <2>1, <2>2 DEF Kept
  <2>4. Numbers' = Numbers
    BY <2>3 DEF Numbers
  <2>5. WordsWritten'
    BY <1>1, <2>3, <2>4 DEF HexInv, WordsWritten
  <2> QED BY <1>1, <2>3, <2>5 DEF HexInv
<1> QED
  BY <1>2, <1>3

(* What hextobin writes into RGB.bmp touches nothing else. *)
LEMMA HexWrites ==
  ASSUME BinInv, TablesInv, at = "idle", UNCHANGED <<dirs, binVars>>,
         given' = [n \in DOMAIN given \ {RGB_bmp} |-> given[n]],
         \/ files' = files
         \/ \E fc \in File : files' = Put(RGB_bmp, fc)
  PROVE  BinInv' /\ TablesInv'
<1>1. /\ FilesOK' /\ DOMAIN files \subseteq DOMAIN files' /\ Present \subseteq Present'
      /\ \A f \in DOMAIN files \ {RGB_bmp} : files'[f] = files[f]
      /\ DOMAIN files' \subseteq DOMAIN files \cup {RGB_bmp}
  <2>1. CASE files' = files
    BY <2>1 DEF BinInv, FilesOK, Present
  <2>2. ASSUME NEW fc \in File, files' = Put(RGB_bmp, fc)
        PROVE  <1>1!1 /\ <1>1!2 /\ <1>1!3
    BY <2>2, HexFilesNotOwn, PutWrites DEF BinInv
  <2> QED BY <2>1, <2>2
<1>2. UNCHANGED <<at, pass, name, pos, leaked, from, had>>
  BY DEF binVars, walkVars
<1>3. DOMAIN given' = DOMAIN given \ {RGB_bmp}
      /\ \A n \in DOMAIN given' : given'[n] = given[n]
  OBVIOUS
<1>4. BinOK'
  BY <1>1, <1>2, <1>3 DEF BinInv, BinOK
<1>5. Untouched'
  BY <1>1, <1>3 DEF BinInv, BinOK, Untouched
<1>6. FromOK'
  <2>1. ASSUME NEW t \in DOMAIN from
        PROVE  from[t] \in Present' /\ Target(from[t]) = t /\ from[t] \notin dirs
    BY <1>1 DEF BinInv, FromOK
  <2>2. DOMAIN from \subseteq DOMAIN files'
    BY <1>1 DEF BinInv, FromOK
  <2> QED BY <1>2, <2>1, <2>2 DEF FromOK
<1>7. Converted'
  BY <1>2 DEF Converted
<1>8. target_h # RGB_bmp /\ target2_h # RGB_bmp
  BY TablesOwn, HexFilesNotOwn
<1>9. Decls(target_h)' = Decls(target_h) /\ Decls(target2_h)' = Decls(target2_h)
  BY <1>1, <1>8 DEF Decls
<1>10. TablesInv'
  BY <1>2, <1>9, TablesSame
<1> QED
  BY <1>1, <1>4, <1>5, <1>6, <1>7, <1>10 DEF BinInv

(* What is left to read. *)
LEMMA RestIs ==
  ASSUME NEW s \in Name, NEW cut \in 0..Len(s)
  PROVE  LET rest == SubSeq(s, cut + 1, Len(s))
         IN /\ rest \in Name /\ Len(rest) = Len(s) - cut
            /\ cut < Len(s) => rest # <<>> /\ Head(rest) = s[cut + 1]
            /\ cut = Len(s) => rest = <<>>
<1> DEFINE rest == SubSeq(s, cut + 1, Len(s))
<1>1. Len(s) \in Nat /\ cut \in Nat /\ cut <= Len(s)
  BY DEF Name
<1>2. CASE cut = Len(s)
  <2>1. rest = <<>>
    BY <1>1, <1>2, SubSeqEmpty
  <2>2. Len(<<>>) = 0 /\ <<>> \in Name
    BY DEF Name
  <2> HIDE DEF rest
  <2>3. rest \in Name /\ Len(rest) = Len(s) - cut
    BY <1>1, <1>2, <2>1, <2>2
  <2> QED BY <1>1, <1>2, <2>1, <2>3 DEF rest
<1>3. CASE cut < Len(s)
  <2>1. cut + 1 \in 1..Len(s) /\ Len(s) \in cut + 1..Len(s)
    BY <1>1, <1>3
  <2>2. \A k1 \in cut + 1..Len(s) : s[k1] \in Words
    BY <1>1, ElementOfSeq DEF Name
  <2>3. rest \in Name /\ Len(rest) = (IF cut + 1 <= Len(s) THEN Len(s) - (cut + 1) + 1 ELSE 0)
    BY <1>1, <2>2, SubSeqProperties DEF Name
  <2>4. Head(rest) = s[cut + 1]
    BY <2>1, HeadTailOfSubSeq DEF Name
  <2> HIDE DEF rest
  <2>5. Len(rest) = Len(s) - cut
    BY <1>1, <1>3, <2>3
  <2>6. rest # <<>>
    <3>1. Len(<<>>) = 0
      OBVIOUS
    <3> QED BY <1>1, <1>3, <2>5, <3>1
  <2> QED BY <1>1, <1>3, <2>3, <2>4, <2>5, <2>6 DEF rest
<1> QED
  BY <1>1, <1>2, <1>3

(* One more number is written. *)
LEMMA OneMore ==
  ASSUME NEW s \in Name, NEW cut \in Nat, cut < Len(s)
  PROVE  Append(SubSeq(s, 1, cut), s[cut + 1]) = SubSeq(s, 1, cut + 1)
<1>1. Len(s) \in Nat /\ cut + 1 \in 1..Len(s)
  BY DEF Name
<1>2. SubSeq(s, 1, cut + 1) = SubSeq(s, 1, (cut + 1) - 1) \o <<s[cut + 1]>> /\ (cut + 1) - 1 = cut
  BY <1>1, SubSeqRecursiveSecond DEF Name
<1>3. \A k1 \in 1..cut : s[k1] \in Words
  BY <1>1, ElementOfSeq DEF Name
<1>4. SubSeq(s, 1, cut) \in Seq(Words) /\ s[cut + 1] \in Words
  BY <1>1, <1>3, SubSeqProperties, ElementOfSeq DEF Name
<1>5. Append(SubSeq(s, 1, cut), s[cut + 1]) = SubSeq(s, 1, cut) \o <<s[cut + 1]>>
  BY <1>4, AppendIsConcat
<1> QED
  BY <1>2, <1>5

HexStepOK ==
  /\ HexInv'
  /\ \/ files' = files
     \/ \E fc \in File : files' = Put(RGB_bmp, fc)

LEMMA OpenHexOK ==
  ASSUME FilesOK, HexInv, OpenHex, UNCHANGED dirs
  PROVE  HexStepOK
<1>1. /\ word' = "0" /\ read' = 0 /\ files' = Put(RGB_bmp, EmptyFile)
      /\ hexAt' = IF RGB_txt \in dirs THEN "endless" ELSE "scan"
      /\ RGB_txt \in DOMAIN files \/ RGB_txt \in dirs
  BY DEF OpenHex, Present
<1>2. EmptyFile \in File
  BY EmptyOK
<1>3. /\ FilesOK'
      /\ DOMAIN files' = DOMAIN files \cup {RGB_bmp} /\ files'[RGB_bmp] = EmptyFile
      /\ \A f \in DOMAIN files \ {RGB_bmp} : files'[f] = files[f]
  BY <1>1, <1>2, HexFilesNotOwn, PutWrites
<1>4. hexAt' \in {"scan", "endless"} /\ WordsWritten'
  BY <1>1 DEF WordsWritten
<1>5. CASE RGB_txt \in dirs
  BY <1>1, <1>2, <1>4, <1>5 DEF HexInv, HexStepOK
<1>6. CASE RGB_txt \notin dirs
  <2>1. RGB_txt \in DOMAIN files' /\ files'[RGB_txt].bytes \in Name
    BY <1>1, <1>3, <1>6 DEF FilesOK, File
  <2>2. Len(Numbers') \in Nat
    BY <2>1 DEF Numbers, Name
  <2>3. files'[RGB_bmp].bytes = <<>> /\ SubSeq(Numbers', 1, 0) = <<>>
    BY <1>3, EmptyOK, SubSeqEmpty
  <2>4. ScanInv'
    BY <1>1, <2>2, <2>3 DEF ScanInv
  <2> QED BY <1>1, <1>2, <1>3, <1>4, <1>6, <2>1, <2>4 DEF HexInv, HexStepOK
<1> QED
  BY <1>5, <1>6

LEMMA ScanDirectoryOK ==
  ASSUME FilesOK, HexInv, ScanDirectory
  PROVE  HexStepOK
<1>1. /\ hexAt = "endless" /\ hexAt' = "endless" /\ word' = "1" /\ word \in Words
      /\ files' = Put(RGB_bmp, [bytes |-> <<word>>, decls |-> <<>>])
  BY DirectoriesAssumption DEF ScanDirectory, HexInv
<1>2. <<word>> \in Name /\ <<>> \in Seq(Declared)
  BY <1>1 DEF Name
<1>3. [bytes |-> <<word>>, decls |-> <<>>] \in File
  BY <1>2, FileOf
<1>4. WordsWritten'
  BY <1>1 DEF WordsWritten
<1> QED
  BY <1>1, <1>3, <1>4 DEF HexInv, HexStepOK

(* What both turns that write have in common. *)
LEMMA WordPut ==
  ASSUME FilesOK, HexInv, hexAt = "scan", NEW w \in Words,
         files' = PutByte(RGB_bmp, w), UNCHANGED dirs
  PROVE  /\ {RGB_txt, RGB_bmp} \subseteq DOMAIN files'
         /\ Numbers' = Numbers /\ Numbers \in Name
         /\ files'[RGB_bmp].bytes = Append(SubSeq(Numbers, 1, read), w)
         /\ \E fc \in File : files' = Put(RGB_bmp, fc)
<1>1. {RGB_txt, RGB_bmp} \subseteq DOMAIN files /\ ScanInv
  BY DEF HexInv
<1>2. /\ FilesOK' /\ DOMAIN files' = DOMAIN files
      /\ files'[RGB_bmp].bytes = Append(files[RGB_bmp].bytes, w)
      /\ \A f \in DOMAIN files \ {RGB_bmp} : files'[f] = files[f]
  BY <1>1, BytePut
<1>3. Numbers' = Numbers /\ Numbers \in Name
  BY <1>1, <1>2, HexFilesNotOwn, FileFields DEF Numbers
<1>4. files[RGB_bmp].bytes \in Name /\ files[RGB_bmp].decls \in Seq(Declared)
  BY <1>1, FileFields
<1>5. [bytes |-> Append(files[RGB_bmp].bytes, w), decls |-> files[RGB_bmp].decls] \in File
  BY <1>4, AppendName, FileOf
<1>6. \E fc \in File : files' = Put(RGB_bmp, fc)
  BY <1>5 DEF PutByte
<1> QED
  BY <1>1, <1>2, <1>3, <1>6 DEF ScanInv

LEMMA ScanNumberOK ==
  ASSUME FilesOK, HexInv, ScanNumber, UNCHANGED dirs
  PROVE  HexStepOK
<1> DEFINE s == Numbers
           w == s[read + 1]
<1>1. {RGB_txt, RGB_bmp} \subseteq DOMAIN files /\ ScanInv /\ hexAt = "scan"
  BY DEF HexInv, ScanNumber
<1>2. s \in Name /\ Len(s) \in Nat /\ read \in 0..Len(s)
  BY <1>1, FileFields DEF Numbers, ScanInv, Name
<1>3. Rest = SubSeq(s, read + 1, Len(s))
  BY DEF Rest
<1>4. read < Len(s) /\ Head(Rest) = w /\ Len(Rest) = Len(s) - read
  BY <1>2, <1>3, RestIs DEF ScanNumber
<1>5. /\ Number(w) /\ files' = PutByte(RGB_bmp, w) /\ word' = "1" /\ read' = read + 1
      /\ hexAt' = IF read + 1 = Len(s) THEN "done" ELSE "scan"
  BY <1>2, <1>4 DEF ScanNumber, AfterNumber
<1>6. w \in Words /\ read \in Nat /\ read + 1 \in 1..Len(s)
  BY <1>2, <1>4, ElementOfSeq DEF Name
<1>7. /\ {RGB_txt, RGB_bmp} \subseteq DOMAIN files'
      /\ Numbers' = s
      /\ files'[RGB_bmp].bytes = Append(SubSeq(s, 1, read), w)
      /\ \E fc \in File : files' = Put(RGB_bmp, fc)
  <2> HIDE DEF w
  <2> QED BY <1>1, <1>5, <1>6, WordPut
<1> HIDE DEF s
<1>8. files'[RGB_bmp].bytes = SubSeq(s, 1, read + 1)
  BY <1>2, <1>4, <1>6, <1>7, OneMore
<1>9. \A k \in 1..read + 1 : Number(s[k])
  <2>1. \A k \in 1..read : Number(s[k])
    BY <1>1 DEF ScanInv, s
  <2> QED BY <1>5, <1>6, <2>1
<1>10. CASE read + 1 # Len(s)
  <2>1. ScanInv'
    BY <1>2, <1>4, <1>5, <1>6, <1>7, <1>8, <1>9, <1>10 DEF ScanInv
  <2>2. WordsWritten'
    BY <1>5, <1>10 DEF WordsWritten
  <2> QED BY <1>5, <1>7, <1>10, <2>1, <2>2 DEF HexInv, HexStepOK
<1>11. CASE read + 1 = Len(s)
  <2>1. Last(s) = w /\ w # "ws"
    BY <1>5, <1>11 DEF Last, Number
  <2>2. SubSeq(s, 1, Len(s)) = s
    BY <1>2, SubSeqFull DEF Name
  <2>3. s \o <<>> = s
    BY <1>2, ConcatEmptySeq DEF Name
  <2>4. s # <<>> /\ DOMAIN s = 1..Len(s)
    <3>1. Len(<<>>) = 0
      OBVIOUS
    <3>2. s # <<>>
      BY <3>1, <1>2, <1>4
    <3> QED BY <3>2, <1>2, LenProperties DEF Name
  <2>5. files'[RGB_bmp].bytes = s
    BY <2>2, <1>8, <1>11
  <2>6. WordsWritten'
    BY <2>1, <2>3, <2>4, <2>5, <1>5, <1>7, <1>9, <1>11 DEF WordsWritten
  <2> QED BY <1>5, <1>7, <1>11, <2>6 DEF HexInv, HexStepOK
<1> QED
  BY <1>10, <1>11

LEMMA ScanEndOK ==
  ASSUME FilesOK, HexInv, ScanEnd, UNCHANGED dirs
  PROVE  HexStepOK
<1> DEFINE s == Numbers
<1>1. {RGB_txt, RGB_bmp} \subseteq DOMAIN files /\ ScanInv /\ hexAt = "scan"
  BY DEF HexInv, ScanEnd
<1>2. s \in Name /\ Len(s) \in Nat /\ read \in 0..Len(s)
  BY <1>1, FileFields DEF Numbers, ScanInv, Name
<1>3. Rest = SubSeq(s, read + 1, Len(s))
  BY DEF Rest
<1>4. /\ Rest \in {<<>>, <<"ws">>} /\ files' = PutByte(RGB_bmp, word)
      /\ hexAt' = "done"
  BY DEF ScanEnd
<1>5. word \in Words /\ word = IF read = 0 THEN "0" ELSE "1"
  BY <1>1, DirectoriesAssumption DEF ScanInv
<1>6. /\ {RGB_txt, RGB_bmp} \subseteq DOMAIN files'
      /\ Numbers' = s
      /\ files'[RGB_bmp].bytes = Append(SubSeq(s, 1, read), word)
      /\ \E fc \in File : files' = Put(RGB_bmp, fc)
  BY <1>1, <1>4, <1>5, WordPut
<1>7. (read = 0 \/ read < Len(s)) /\ \A k \in 1..read : Number(s[k])
  BY <1>1 DEF ScanInv
<1> HIDE DEF s
<1>8. Len(Rest) = Len(s) - read /\ (read < Len(s) => Rest # <<>> /\ Head(Rest) = s[read + 1])
  BY <1>2, <1>3, RestIs
<1> DEFINE hp == SubSeq(s, 1, read)
<1>9. hp \in Name /\ Len(hp) = read /\ \A k \in 1..read : hp[k] = s[k]
  <2>1. \A k1 \in 1..read : s[k1] \in Words
    BY <1>2, ElementOfSeq DEF Name
  <2>2. hp \in Name /\ Len(hp) = (IF 1 <= read THEN read - 1 + 1 ELSE 0)
        /\ \A k1 \in 1..read - 1 + 1 : hp[k1] = s[1 + k1 - 1]
    BY <1>2, <2>1, SubSeqProperties DEF Name
  <2>3. read - 1 + 1 = read /\ \A k1 \in 1..read : 1 + k1 - 1 = k1
    BY <1>2
  <2> HIDE DEF hp
  <2> QED BY <1>2, <2>2, <2>3
<1> HIDE DEF hp
<1>10. DOMAIN hp = 1..read /\ (hp = <<>> <=> read = 0)
  <2>1. DOMAIN hp = 1..read
    BY <1>9, LenProperties DEF Name
  <2>2. (hp = <<>>) => read = 0
    BY <1>9
  <2>3. (read = 0) => hp = <<>>
    BY <1>9, EmptySeq DEF Name
  <2> QED BY <2>1, <2>2, <2>3
<1>11. files'[RGB_bmp].bytes = hp \o <<word>>
  BY <1>5, <1>6, <1>9, AppendIsConcat DEF Name, hp
<1> DEFINE numbers == IF s # <<>> /\ Last(s) = "ws" THEN Front(s) ELSE s
<1>12. numbers = hp /\ (hp # <<>> => numbers # s)
  <2>1. CASE Rest = <<>>
    <3>1. Len(Rest) = 0
      BY <2>1
    <3>2. read = 0 /\ Len(s) = 0
      BY <3>1, <1>2, <1>7, <1>8
    <3>3. s = <<>> /\ hp = <<>>
      BY <3>2, <1>2, <1>10, EmptySeq DEF Name
    <3> QED BY <3>3
  <2>2. CASE Rest = <<"ws">>
    <3>1. Len(Rest) = 1 /\ Head(Rest) = "ws"
      BY <2>2
    <3>2. Len(s) = read + 1 /\ s[read + 1] = "ws"
      <4>1. Len(s) = read + 1
        <5>1. Len(s) - read = 1
          BY <3>1, <1>8
        <5> QED BY <5>1, <1>2
      <4>2. Head(Rest) = s[read + 1]
        BY <4>1, <1>2, <1>8
      <4> QED BY <3>1, <4>1, <4>2
    <3>3. Last(s) = "ws" /\ Front(s) = hp
      <4>1. Len(s) - 1 = read
        BY <3>2, <1>2
      <4> QED BY <3>2, <4>1 DEF Last, Front, hp
    <3>4. s # <<>>
      <4>1. Len(<<>>) = 0
        OBVIOUS
      <4> QED BY <4>1, <3>2, <1>2
    <3>5. hp # s
      BY <3>2, <1>2, <1>9
    <3> QED BY <3>3, <3>4, <3>5
  <2> QED BY <1>4, <2>1, <2>2
<1>13. \A k \in DOMAIN hp : Number(hp[k])
  BY <1>7, <1>9, <1>10
<1>14. files'[RGB_bmp].bytes = numbers \o (IF numbers = <<>> THEN <<"0">>
                                 ELSE IF numbers # s THEN <<"1">> ELSE <<>>)
  BY <1>5, <1>10, <1>11, <1>12
<1>15. \A k \in DOMAIN numbers : Number(numbers[k])
  BY <1>12, <1>13
<1>16. WordsWritten'
  BY <1>4, <1>6, <1>14, <1>15 DEF WordsWritten
<1> QED
  BY <1>4, <1>6, <1>16 DEF HexInv, HexStepOK

LEMMA ScanJunkOK ==
  ASSUME FilesOK, HexInv, ScanJunk
  PROVE  HexStepOK
<1>1. {RGB_txt, RGB_bmp} \subseteq DOMAIN files /\ ScanInv /\ hexAt' = "exited" /\ files' = files
  BY DEF HexInv, ScanJunk
<1>2. Numbers \in Name /\ Len(Numbers) \in Nat /\ read \in 0..Len(Numbers)
  BY <1>1, FileFields DEF Numbers, ScanInv, Name
<1>3. read < Len(Numbers) /\ Head(Rest) = Numbers[read + 1]
  BY <1>2, RestIs DEF ScanJunk, Rest
<1> DEFINE hp == SubSeq(Numbers, 1, read)
<1>4. \A k \in 1..read : hp[k] = Numbers[k]
  <2>1. \A k1 \in 1..read : Numbers[k1] \in Words
    BY <1>2, ElementOfSeq DEF Name
  <2>2. \A k1 \in 1..read - 1 + 1 : hp[k1] = Numbers[1 + k1 - 1]
    BY <1>2, <2>1, SubSeqProperties
  <2>3. read - 1 + 1 = read /\ \A k1 \in 1..read : 1 + k1 - 1 = k1
    BY <1>2
  <2> HIDE DEF hp
  <2> QED BY <2>2, <2>3
<1> HIDE DEF hp
<1>5. read \in 0..Len(Numbers) - 1 /\ Numbers[read + 1] = "junk"
      /\ files[RGB_bmp].bytes = hp /\ \A k \in 1..read : Number(hp[k])
  BY <1>1, <1>2, <1>3, <1>4 DEF ScanJunk, ScanInv, hp
<1>6. Numbers' = Numbers
  BY <1>1 DEF Numbers
<1>7. WordsWritten'
  BY <1>1, <1>5, <1>6 DEF WordsWritten, hp
<1> QED
  BY <1>1, <1>7 DEF HexInv, HexStepOK

-----------------------------------------------------------------------------
IInv == BinInv /\ TablesInv /\ HexInv

LEMMA InitOK == ConverterInit => IInv
<1> SUFFICES ASSUME ConverterInit PROVE IInv
  OBVIOUS
<1>1. PICK names \in Directories, input \in HexInputs :
        /\ dirs \subseteq names
        /\ files = [n \in names \ dirs |->
                      [bytes |-> IF n = RGB_txt THEN input ELSE Contents, decls |-> <<>>]]
  BY DEF ConverterInit
<1>2. /\ given = files /\ at = "idle" /\ pass = "bintohex" /\ name = <<>> /\ pos = 0
      /\ from = <<>> /\ had = Tables /\ hexAt = "none"
  BY DEF ConverterInit
<1>3. names \subseteq Name /\ input \in Name /\ Contents \in Name
  BY DirectoriesAssumption DEF Name
<1>4. FilesOK
  <2>1. \A n \in names \ dirs :
          [bytes |-> IF n = RGB_txt THEN input ELSE Contents, decls |-> <<>>] \in File
    <3>1. <<>> \in Seq(Declared)
      OBVIOUS
    <3>2. ASSUME NEW n PROVE (IF n = RGB_txt THEN input ELSE Contents) \in Name
      BY <1>3
    <3> QED BY <3>1, <3>2, FileOf
  <2>2. files \in [names \ dirs -> File] /\ DOMAIN files = names \ dirs
    BY <1>1, <2>1
  <2> QED BY <1>1, <1>3, <2>2 DEF FilesOK
<1>5. had \in [{target_h, target2_h} -> Seq(Declared)]
  BY <1>2, <1>4, DeclsOK DEF Tables
<1>6. BinOK
  BY <1>2, <1>5, EmptyOK DEF BinOK
<1>7. DOMAIN from = {}
  BY <1>2
<1>8. Untouched /\ FromOK /\ Converted
  BY <1>2, <1>7 DEF Untouched, FromOK, Converted
<1>9. TablesInv /\ HexInv
  BY <1>2 DEF TablesInv, HexInv, WordsWritten
<1> QED
  BY <1>4, <1>6, <1>8, <1>9 DEF IInv, BinInv

LEMMA NextOK == IInv /\ [ConverterNext]_converterVars => IInv'
<1> SUFFICES ASSUME IInv, [ConverterNext]_converterVars PROVE IInv'
  OBVIOUS
<1>1. CASE BinToHexRuns
  <2>1. binNext /\ hexAt \notin {"scan", "endless"} /\ UNCHANGED hexVars
    BY <1>1 DEF BinToHexRuns
  <2>2. BinInv' /\ Kept
    BY <2>1, BinStepKeeps DEF IInv
  <2>3. TablesInv'
    BY <2>1, TablesStep DEF IInv
  <2>4. HexInv'
    BY <2>1, <2>2, BinKeepsHex DEF IInv
  <2> QED BY <2>2, <2>3, <2>4 DEF IInv
<1>2. CASE HexToBinRuns
  <2>1. /\ at = "idle" /\ hexNext /\ UNCHANGED <<dirs, binVars>>
        /\ given' = [n \in DOMAIN given \ {RGB_bmp} |-> given[n]]
    BY <1>2 DEF HexToBinRuns
  <2>2. HexStepOK
    <3>1. FilesOK /\ HexInv /\ UNCHANGED dirs
      BY <2>1 DEF IInv, BinInv
    <3> QED BY <2>1, <3>1, OpenHexOK, ScanDirectoryOK, ScanNumberOK, ScanEndOK, ScanJunkOK DEF hexNext
  <2>3. BinInv' /\ TablesInv'
    BY <2>1, <2>2, HexWrites DEF IInv, HexStepOK
  <2> QED BY <2>2, <2>3 DEF IInv, HexStepOK
<1>3. CASE UNCHANGED converterVars
  <2>1. UNCHANGED <<files, dirs, given, at, pass, name, pos, leaked, from, had, hexAt, word, read>>
    BY <1>3 DEF converterVars, binVars, walkVars, hexVars
  <2>2. FilesOK' /\ BinOK' /\ Untouched' /\ FromOK' /\ Converted'
    BY <2>1 DEF IInv, BinInv, FilesOK, BinOK, Untouched, FromOK, Converted, Present
  <2>3. TablesInv'
    BY <2>1 DEF IInv, TablesInv, Decls, OpensToWrite, Room
  <2>4. HexInv'
    BY <2>1 DEF IInv, HexInv, ScanInv, WordsWritten, Numbers
  <2> QED BY <2>2, <2>3, <2>4 DEF IInv, BinInv
<1> QED
  BY <1>1, <1>2, <1>3 DEF ConverterNext

(* Whatever the directory holds, and however often the converters are run: *)
(* names, files and both programs are as far as their loops have come.     *)
THEOREM ConverterInvariance == ConverterSpec => []IInv
BY InitOK, NextOK, PTL DEF ConverterSpec

(* A header holds the bytes of the file that it was written from last, and *)
(* one byte more: no turn of bintohex reads what another turn wrote, but   *)
(* for a header that is its own source.                                    *)
THEOREM HeadersHoldAlways == ConverterSpec => []HeadersHold
<1>1. IInv => HeadersHold
  BY HeadersHoldIn DEF IInv
<1> QED
  BY <1>1, ConverterInvariance, PTL

(* createcode appends the same declarations to both tables, and loses none.*)
THEOREM TablesAgreeAlways == ConverterSpec => []TablesAgree
<1>1. IInv => TablesAgree
  BY TablesAgreeIn DEF IInv
<1> QED
  BY <1>1, ConverterInvariance, PTL

(* hextobin writes the numbers of RGB.txt in order, and then one word more *)
(* if it does not see the end with the last number.                        *)
THEOREM WordsWrittenAlways == ConverterSpec => []WordsWritten
<1>1. IInv => WordsWritten
  BY DEF IInv, HexInv
<1> QED
  BY <1>1, ConverterInvariance, PTL

-----------------------------------------------------------------------------
(* chaintest. *)
Link == Int \cup {Unwritten}

(* Chains with the same links are equal. *)
LEMMA SameLinks ==
  ASSUME NEW f \in [Node -> Link], NEW g \in [Node -> Link],
         \A k \in Node : f[k] = g[k]
  PROVE  f = g
OBVIOUS

(* The two chains are chains, and so is what lies between them. *)
LEMMA ChainTypes ==
  ASSUME ChainsTypeOK
  PROVE  /\ cnt \in Nat
         /\ Up \in [Node -> Link] /\ Down \in [Node -> Link]
         /\ Between(Up, Down) \in [Node -> Link] /\ Between(Down, Up) \in [Node -> Link]
<1>1. cnt \in Nat
  BY CountsAssumption DEF ChainsTypeOK
<1>2. Up \in [Node -> Link] /\ Down \in [Node -> Link]
  BY <1>1 DEF Up, Down, Node, Link, NULL
<1> QED BY <1>1, <1>2 DEF Between

(* No step changes cnt, and with it the chains that are to be built. *)
LEMMA SameLength ==
  ASSUME cnt' = cnt PROVE Node' = Node /\ Up' = Up /\ Down' = Down
BY DEF Node, Up, Down

(* A new chain has its first node only, and no link is built. *)
LEMMA ChainsStart == ChainsInit => ChainsIInv
<1> SUFFICES ASSUME ChainsInit PROVE ChainsIInv
  OBVIOUS
<1>1. cnt \in Nat /\ 0 \in Node
  BY CountsAssumption DEF ChainsInit, Node
<1>2. {next, l, r} \subseteq [Node -> Int \cup {Unwritten}]
  BY DEF ChainsInit
<1>3. ChainsTypeOK
  BY <1>1, <1>2 DEF ChainsInit, ChainsTypeOK
<1>4. Building
  BY <1>1 DEF ChainsInit, Building, Built, Node
<1>5. Reversing /\ Reversed
  BY DEF ChainsInit, Reversing, Reversed
<1> QED BY <1>3, <1>4, <1>5 DEF ChainsIInv

-----------------------------------------------------------------------------
(* Each turn of the building loops links one more node. *)
LEMMA SingleBuilt ==
  ASSUME ChainsIInv, SingleGrow \/ SingleGrown
  PROVE  ChainsIInv'
<1>1. ChainsTypeOK /\ Building /\ cnt' = cnt
  BY DEF ChainsIInv, SingleGrow, SingleGrown
<1>2. Node' = Node /\ Up' = Up /\ Down' = Down /\ cnt \in Nat /\ Up \in [Node -> Link]
  BY <1>1, SameLength, ChainTypes
<1>3. /\ chainAt = "initsinglechain" /\ q \in Node /\ Built(next, Up)
      /\ HEAD_S = 0 /\ HEAD_D = 0
  BY <1>1 DEF Building, SingleGrow, SingleGrown
<1>4. next' \in [Node -> Link]
  BY <1>1, <1>3 DEF SingleGrow, SingleGrown, ChainsTypeOK, Node, Link, NULL
<1>5. CASE SingleGrow
  <2>1. q \in Int /\ q + 1 \in Node
    BY <1>2, <1>3, <1>5 DEF SingleGrow, Node
  <2>2. ChainsTypeOK'
    BY <1>1, <1>2, <1>4, <1>5, <2>1 DEF SingleGrow, ChainsTypeOK, Link
  <2>3. Built(next, Up)'
    BY <1>1, <1>2, <1>3, <1>5, <2>1 DEF SingleGrow, Built, Up, Node, ChainsTypeOK
  <2> QED BY <1>2, <1>3, <1>5, <2>1, <2>2, <2>3
          DEF SingleGrow, ChainsIInv, Building, Reversing, Reversed
<1>6. CASE SingleGrown
  <2>1. \A k \in Node : next'[k] = Up[k]
    BY <1>1, <1>2, <1>3, <1>6 DEF SingleGrown, Built, Up, Node, ChainsTypeOK
  <2>2. next' = Up
    BY <1>2, <1>4, <2>1, SameLinks
  <2>3. 0 \in Node
    BY <1>2 DEF Node
  <2>4. ChainsTypeOK'
    BY <1>1, <1>2, <1>4, <1>6, <2>3 DEF SingleGrown, ChainsTypeOK, Link
  <2>5. Building'
    BY <1>2, <1>3, <1>6, <2>2, <2>3 DEF SingleGrown, Building, Built, Node, NULL
  <2> QED BY <1>6, <2>4, <2>5 DEF SingleGrown, ChainsIInv, Reversing, Reversed
<1> QED BY <1>5, <1>6

LEMMA DoubleBuilt ==
  ASSUME ChainsIInv, DoubleGrow
  PROVE  ChainsIInv'
<1>1. ChainsTypeOK /\ Building /\ cnt' = cnt
  BY DEF ChainsIInv, DoubleGrow
<1>2. Node' = Node /\ Up' = Up /\ Down' = Down /\ cnt \in Nat
  BY <1>1, SameLength, ChainTypes
<1>3. /\ q \in Node /\ p = q - 1 /\ next = Up /\ Built(r, Up) /\ Built(l, Down)
      /\ HEAD_S = 0 /\ HEAD_D = 0
  BY <1>1 DEF Building, DoubleGrow
<1>4. q \in Int /\ q + 1 \in Node
  BY <1>2, <1>3 DEF DoubleGrow, Node
<1>5. r' \in [Node -> Link] /\ l' \in [Node -> Link]
  BY <1>1, <1>3, <1>4 DEF DoubleGrow, ChainsTypeOK, Link
<1>6. ChainsTypeOK'
  BY <1>1, <1>2, <1>3, <1>4, <1>5 DEF DoubleGrow, ChainsTypeOK, Link
<1>7. Built(r, Up)' /\ Built(l, Down)'
  BY <1>1, <1>2, <1>3, <1>4 DEF DoubleGrow, Built, Up, Down, Node, ChainsTypeOK, NULL
<1> QED BY <1>2, <1>3, <1>4, <1>6, <1>7
        DEF DoubleGrow, ChainsIInv, Building, Reversing, Reversed

(* The first node is reversed on the way into inverse_single. *)
LEMMA ChainsDone ==
  ASSUME ChainsIInv, DoubleGrown
  PROVE  ChainsIInv'
<1>1. ChainsTypeOK /\ Building /\ cnt' = cnt
  BY DEF ChainsIInv, DoubleGrown
<1>2. /\ Node' = Node /\ Up' = Up /\ Down' = Down /\ cnt \in Nat /\ 0 \in Node
      /\ Up \in [Node -> Link] /\ Down \in [Node -> Link]
  BY <1>1, SameLength, ChainTypes DEF Node
<1>3. /\ q \in Node /\ p = q - 1 /\ next = Up /\ Built(r, Up) /\ Built(l, Down)
      /\ HEAD_S = 0 /\ HEAD_D = 0
  BY <1>1 DEF Building, DoubleGrown
<1>4. r' \in [Node -> Link] /\ l' \in [Node -> Link] /\ next' \in [Node -> Link]
  BY <1>1, <1>2, <1>3 DEF DoubleGrown, ChainsTypeOK, Node, Link, NULL
<1>5. r' = Up
  <2>1. \A k \in Node : r'[k] = Up[k]
    BY <1>1, <1>2, <1>3 DEF DoubleGrown, Built, Up, Node, ChainsTypeOK
  <2> QED BY <1>2, <1>4, <2>1, SameLinks
<1>6. l' = Down
  <2>1. \A k \in Node : l'[k] = Down[k]
    BY <1>1, <1>2, <1>3 DEF DoubleGrown, Built, Down, Node, ChainsTypeOK, NULL
  <2> QED BY <1>2, <1>4, <2>1, SameLinks
<1>7. p' = 0 /\ q' = Up'[0] /\ q' \in Node \cup {NULL}
  BY <1>2, <1>3 DEF DoubleGrown, Up, Node, NULL
<1>8. ChainsTypeOK'
  BY <1>1, <1>2, <1>3, <1>4, <1>7 DEF DoubleGrown, ChainsTypeOK, Link
<1>9. next' = Between(Down, Up)'
  <2>1. Between(Down, Up)' \in [Node -> Link]
    BY <1>2 DEF Between
  <2>2. \A k \in Node : next'[k] = Between(Down, Up)'[k]
    BY <1>1, <1>2, <1>3, <1>7 DEF DoubleGrown, Between, Up, Down, Node, ChainsTypeOK
  <2> QED BY <1>4, <2>1, <2>2, SameLinks
<1> QED BY <1>2, <1>3, <1>5, <1>6, <1>7, <1>8, <1>9
        DEF DoubleGrown, ChainsIInv, Building, Reversing, Reversed

-----------------------------------------------------------------------------
(* Each turn of the reversing loops moves one node from q to p. *)
LEMMA SingleReversed ==
  ASSUME ChainsIInv, SingleTurn
  PROVE  ChainsIInv'
<1>1. ChainsTypeOK /\ Reversing /\ cnt' = cnt
  BY DEF ChainsIInv, SingleTurn
<1>2. /\ Node' = Node /\ Up' = Up /\ Down' = Down /\ cnt \in Nat
      /\ Up \in [Node -> Link] /\ Down \in [Node -> Link]
  BY <1>1, SameLength, ChainTypes
<1>3. /\ p \in Node /\ q = Up[p] /\ next = Between(Down, Up) /\ r = Up /\ l = Down
      /\ HEAD_D = 0 /\ q # NULL
  BY <1>1 DEF Reversing, SingleTurn
<1>4. p \in Int /\ q = p + 1 /\ q \in Node
  BY <1>2, <1>3 DEF Up, Node
<1>5. p' = q /\ q' = Up'[p'] /\ q' \in Node \cup {NULL}
  BY <1>2, <1>3, <1>4 DEF SingleTurn, Between, Up, Node, NULL
<1>6. next' \in [Node -> Link]
  BY <1>1, <1>4 DEF SingleTurn, ChainsTypeOK, Link, Node
<1>7. next' = Between(Down, Up)'
  <2>1. Between(Down, Up)' \in [Node -> Link]
    BY <1>2 DEF Between
  <2>2. \A k \in Node : next'[k] = Between(Down, Up)'[k]
    BY <1>1, <1>2, <1>3, <1>4, <1>5 DEF SingleTurn, Between, Up, Down, Node, ChainsTypeOK
  <2> QED BY <1>6, <2>1, <2>2, SameLinks
<1>8. ChainsTypeOK'
  BY <1>1, <1>2, <1>4, <1>5, <1>6 DEF SingleTurn, ChainsTypeOK, Link
<1> QED BY <1>2, <1>3, <1>4, <1>5, <1>7, <1>8
        DEF SingleTurn, ChainsIInv, Building, Reversing, Reversed

(* When q has no node left, the other chain is the reversed one. *)
LEMMA AllReversed ==
  ASSUME ChainsTypeOK, p \in Node, Up[p] = NULL
  PROVE  p = cnt /\ Between(Down, Up) = Down /\ Between(Up, Down) = Up
<1>1. cnt \in Nat /\ Up \in [Node -> Link] /\ Down \in [Node -> Link]
  BY ChainTypes
<1>2. p = cnt
  BY <1>1 DEF Up, Node, NULL
<1>3. \A k \in Node : k <= p
  BY <1>1, <1>2 DEF Node
<1> QED BY <1>1, <1>2, <1>3 DEF Between

LEMMA SingleDone ==
  ASSUME ChainsIInv, SingleTurned
  PROVE  ChainsIInv'
<1>1. ChainsTypeOK /\ Reversing /\ cnt' = cnt
  BY DEF ChainsIInv, SingleTurned
<1>2. /\ Node' = Node /\ Up' = Up /\ Down' = Down /\ cnt \in Nat /\ 0 \in Node
      /\ Up \in [Node -> Link] /\ Down \in [Node -> Link]
  BY <1>1, SameLength, ChainTypes DEF Node
<1>3. /\ p \in Node /\ Up[p] = NULL /\ next = Between(Down, Up) /\ r = Up /\ l = Down
      /\ HEAD_D = 0
  BY <1>1 DEF Reversing, SingleTurned
<1>4. p = cnt /\ next = Down
  BY <1>1, <1>3, AllReversed
<1>5. p' = 0 /\ q' = Up'[0] /\ q' \in Node \cup {NULL}
  BY <1>2, <1>3 DEF SingleTurned, Up, Node, NULL
<1>6. r' \in [Node -> Link] /\ l' \in [Node -> Link]
  BY <1>1, <1>2, <1>3, <1>5 DEF SingleTurned, ChainsTypeOK, Node, Link, NULL
<1>7. r' = Between(Down, Up)' /\ l' = Between(Up, Down)'
  <2>1. Between(Down, Up)' \in [Node -> Link] /\ Between(Up, Down)' \in [Node -> Link]
    BY <1>2 DEF Between
  <2>2. \A k \in Node : r'[k] = Between(Down, Up)'[k] /\ l'[k] = Between(Up, Down)'[k]
    BY <1>1, <1>2, <1>3, <1>5 DEF SingleTurned, Between, Up, Down, Node, ChainsTypeOK
  <2> QED BY <1>6, <2>1, <2>2, SameLinks
<1>8. ChainsTypeOK'
  BY <1>1, <1>2, <1>3, <1>5, <1>6 DEF SingleTurned, ChainsTypeOK, Link
<1> QED BY <1>2, <1>4, <1>5, <1>7, <1>8
        DEF SingleTurned, ChainsIInv, Building, Reversing, Reversed

LEMMA DoubleReversed ==
  ASSUME ChainsIInv, DoubleTurn
  PROVE  ChainsIInv'
<1>1. ChainsTypeOK /\ Reversing /\ cnt' = cnt
  BY DEF ChainsIInv, DoubleTurn
<1>2. /\ Node' = Node /\ Up' = Up /\ Down' = Down /\ cnt \in Nat
      /\ Up \in [Node -> Link] /\ Down \in [Node -> Link]
  BY <1>1, SameLength, ChainTypes
<1>3. /\ p \in Node /\ q = Up[p] /\ next = Down /\ HEAD_S = cnt
      /\ r = Between(Down, Up) /\ l = Between(Up, Down) /\ q # NULL
  BY <1>1 DEF Reversing, DoubleTurn
<1>4. p \in Int /\ q = p + 1 /\ q \in Node
  BY <1>2, <1>3 DEF Up, Node
<1>5. p' = q /\ q' = Up'[p'] /\ r[q] = Up[q] /\ q' \in Node \cup {NULL}
  BY <1>2, <1>3, <1>4 DEF DoubleTurn, Between, Up, Node, NULL
<1>6. r' \in [Node -> Link] /\ l' \in [Node -> Link]
  BY <1>1, <1>4, <1>5 DEF DoubleTurn, ChainsTypeOK, Link, Node
<1>7. r' = Between(Down, Up)' /\ l' = Between(Up, Down)'
  <2>1. Between(Down, Up)' \in [Node -> Link] /\ Between(Up, Down)' \in [Node -> Link]
    BY <1>2 DEF Between
  <2>2. \A k \in Node : r'[k] = Between(Down, Up)'[k]
    BY <1>1, <1>2, <1>3, <1>4, <1>5 DEF DoubleTurn, Between, Up, Down, Node, ChainsTypeOK
  <2>3. \A k \in Node : l'[k] = Between(Up, Down)'[k]
    BY <1>1, <1>2, <1>3, <1>4, <1>5 DEF DoubleTurn, Between, Up, Down, Node, ChainsTypeOK
  <2> QED BY <1>6, <2>1, <2>2, <2>3, SameLinks
<1>8. ChainsTypeOK'
  BY <1>1, <1>2, <1>4, <1>5, <1>6 DEF DoubleTurn, ChainsTypeOK, Link
<1> QED BY <1>2, <1>3, <1>4, <1>5, <1>7, <1>8
        DEF DoubleTurn, ChainsIInv, Building, Reversing, Reversed

LEMMA DoubleDone ==
  ASSUME ChainsIInv, DoubleTurned
  PROVE  ChainsIInv'
<1>1. ChainsTypeOK /\ Reversing /\ cnt' = cnt
  BY DEF ChainsIInv, DoubleTurned
<1>2. Node' = Node /\ Up' = Up /\ Down' = Down
  BY <1>1, SameLength
<1>3. /\ p \in Node /\ Up[p] = NULL /\ next = Down /\ HEAD_S = cnt
      /\ r = Between(Down, Up) /\ l = Between(Up, Down)
  BY <1>1 DEF Reversing, DoubleTurned
<1>4. p = cnt /\ r = Down /\ l = Up
  BY <1>1, <1>3, AllReversed
<1>5. ChainsTypeOK'
  BY <1>1, <1>2, <1>3 DEF DoubleTurned, ChainsTypeOK
<1> QED BY <1>2, <1>3, <1>4, <1>5
        DEF DoubleTurned, ChainsIInv, Building, Reversing, Reversed

-----------------------------------------------------------------------------
(* Where each loop of chaintest.c is says what every link is. *)
THEOREM ChainsInvariance == ChainsSpec => []ChainsIInv
<1>1. ChainsIInv /\ [ChainsNext]_chainVars => ChainsIInv'
  <2> SUFFICES ASSUME ChainsIInv, [ChainsNext]_chainVars PROVE ChainsIInv'
    OBVIOUS
  <2>1. CASE UNCHANGED chainVars
    BY <2>1 DEF chainVars, ChainsIInv, ChainsTypeOK, Building, Reversing, Reversed, Built,
                Node, Up, Down, Between
  <2>2. CASE ChainsNext
    BY <2>2, SingleBuilt, DoubleBuilt, ChainsDone, SingleReversed, SingleDone,
       DoubleReversed, DoubleDone DEF ChainsNext
  <2> QED BY <2>1, <2>2
<1> QED BY <1>1, ChainsStart, PTL DEF ChainsSpec

(* Both chains are reversed when main ends, whatever their length. *)
THEOREM ChainsReversed == ChainsSpec => []Reversed
<1>1. ChainsIInv => Reversed
  BY DEF ChainsIInv
<1> QED BY <1>1, ChainsInvariance, PTL

-----------------------------------------------------------------------------
(* printmath. *)
(* A number drawn below what is left of the range leaves the sum in it ... *)
LEMMA SumStays ==
  ASSUME NEW rng \in Int, NEW x \in 0..rng - 1, NEW y \in RandBelow(rng - x)
  PROVE  {x, y, x + y} \subseteq 0..rng - 1
BY DEF RandBelow

(* ... and one drawn below a number in the range leaves the difference.    *)
LEMMA DifferenceStays ==
  ASSUME NEW rng \in Int, NEW x \in 0..rng - 1, NEW y \in RandBelow(x)
  PROVE  {x, y, x - y} \subseteq 0..rng - 1
BY DEF RandBelow

(* Nothing is drawn yet, and nothing printed. *)
LEMMA MathStart == MathInit => MathIInv
BY DEF MathInit, MathIInv, FormatKept, FormatFits

-----------------------------------------------------------------------------
(* A draw leaves numbers in range, and touches no format. *)
LEMMA DrawInRange ==
  ASSUME MathIInv, Draw
  PROVE  MathIInv'
<1>1. UNCHANGED <<range, contiflag, format, i, printformat, printed>>
  BY DEF Draw, entered
<1>2. FormatKept' /\ FormatFits'
  BY <1>1 DEF MathIInv, FormatKept, FormatFits
<1>3. ASSUME range > 0 PROVE {a, b, c}' \subseteq Drawn
  <2>1. range \in Int /\ a' \in 0..range - 1
    BY <1>3 DEF MathIInv, Draw, RandBelow
  <2>2. CASE calc' = 0
    <3>1. b' \in RandBelow(range - a') /\ c' = a' + b'
      BY <2>2 DEF Draw
    <3> QED BY <2>1, <3>1, SumStays, Zenon DEF Drawn
  <2>3. CASE calc' = 1
    <3>1. calc' # 0
      BY <2>3
    <3>2. b' \in RandBelow(a') /\ c' = a' - b'
      BY <3>1 DEF Draw
    <3> QED BY <2>1, <3>2, DifferenceStays, Zenon DEF Drawn
  <2> QED BY <2>2, <2>3 DEF Draw
<1>4. mathAt' = "print" => contiflag' = 2
  BY <1>1 DEF Draw
<1> QED BY <1>1, <1>2, <1>3, <1>4 DEF MathIInv, Drawn, Draw

LEMMA DrawMoreInRange ==
  ASSUME MathIInv, DrawMore
  PROVE  MathIInv'
<1>1. UNCHANGED <<range, contiflag, format, i, a, b, c, printformat, printed>>
  BY DEF DrawMore, entered
<1>2. FormatKept' /\ FormatFits'
  BY <1>1 DEF MathIInv, FormatKept, FormatFits
<1>3. ASSUME range > 0 PROVE {a, b, c} \subseteq Drawn /\ {conti, sum}' \subseteq Drawn
  <2>1. range \in Int /\ {a, b, c} \subseteq Drawn /\ c \in 0..range - 1
    BY <1>3 DEF MathIInv, DrawMore, Drawn
  <2>2. CASE conticalc' = 0
    <3>1. conti' \in RandBelow(range - c) /\ sum' = c + conti'
      BY <2>2 DEF DrawMore
    <3> QED BY <2>1, <3>1, SumStays, Zenon DEF Drawn
  <2>3. CASE conticalc' = 1
    <3>1. conticalc' # 0
      BY <2>3
    <3>2. conti' \in RandBelow(c) /\ sum' = c - conti'
      BY <3>1 DEF DrawMore
    <3> QED BY <2>1, <3>2, DifferenceStays, Zenon DEF Drawn
  <2> QED BY <2>2, <2>3 DEF DrawMore
<1> QED BY <1>1, <1>2, <1>3 DEF MathIInv, Drawn, DrawMore

-----------------------------------------------------------------------------
(* Every line is printed with a format of its own, or the one that was     *)
(* written before the loop.                                                *)
LEMMA LineFits ==
  ASSUME MathIInv, PrintResult \/ PrintOfTwo \/ PrintOfThree
  PROVE  MathIInv'
<1>1. /\ UNCHANGED <<range, contiflag, format>>
      /\ i' = i + 1 /\ mathAt' = "draw"
  BY DEF PrintResult, PrintOfTwo, PrintOfThree, Printf, entered
<1>. range \in Int /\ i \in Nat
  BY DEF MathIInv
<1>5. ASSUME FormatKept', FormatFits' PROVE MathIInv'
  <2>1. range' \in Int /\ ~(mathAt \in {"input", "draw more", "print"})'
    BY <1>1
  <2>2. i' \in Nat
    BY <1>1
  <2> QED BY <1>5, <2>1, <2>2 DEF MathIInv
<1>2. CASE PrintResult
  <2>1. FormatKept'
    BY <1>1, <1>2 DEF MathIInv, PrintResult, Printf, FormatKept
  <2>2. FormatFits'
    <3>1. CASE contiflag = 2
      <4>1. /\ format # 2
            /\ printed' = [fmt |-> printformat, args |-> <<"a", "calc", "b">>]
            /\ printformat = IF range <= Widest THEN <<"d", "c", "d">> ELSE <<>>
        BY <1>2, <3>1 DEF MathIInv, PrintResult, Printf, FormatKept
      <4>2. CASE range > Widest
        <5>1. printformat = <<>>
          BY <4>1, <4>2, InputsAssumption
        <5> QED BY <1>1, <3>1, <4>1, <4>2, <5>1 DEF FormatFits
      <4>3. CASE ~(range > Widest)
        <5>1. printformat = <<"d", "c", "d">>
          BY <4>1, <4>3, InputsAssumption
        <5> QED BY <1>1, <3>1, <4>1, <4>3, <5>1 DEF FormatFits, Conversion
      <4> QED BY <4>2, <4>3
    <3>2. CASE contiflag # 2
      <4>1. printed' = [fmt |-> <<"d", "c", "d", "c", "d">>,
                        args |-> <<"a", "calc", "b", "conticalc", "conti">>]
        BY <1>2, <3>2 DEF MathIInv, PrintResult, Printf, FormatKept
      <4> QED BY <1>1, <3>2, <4>1 DEF FormatFits, Conversion
    <3> QED BY <3>1, <3>2
  <2> QED BY <1>5, <2>1, <2>2
<1>3. CASE PrintOfTwo
  <2>1. FormatKept'
    BY <1>1, <1>3 DEF PrintOfTwo, FormatKept
  <2>2. FormatFits'
    BY <1>1, <1>3 DEF PrintOfTwo, Printf, FormatFits, Conversion
  <2> QED BY <1>5, <2>1, <2>2
<1>4. CASE PrintOfThree
  <2>1. FormatKept'
    BY <1>1, <1>4 DEF PrintOfThree, FormatKept
  <2>2. FormatFits'
    BY <1>1, <1>4 DEF PrintOfThree, Printf, FormatFits, Conversion
  <2> QED BY <1>5, <2>1, <2>2
<1> QED BY <1>2, <1>3, <1>4

-----------------------------------------------------------------------------
(* Numbers are drawn in range and formats are the right ones throughout. *)
THEOREM MathInvariance == MathSpec => []MathIInv
<1>1. MathIInv /\ [MathNext]_mathVars => MathIInv'
  <2> SUFFICES ASSUME MathIInv, [MathNext]_mathVars PROVE MathIInv'
    OBVIOUS
  <2>1. CASE UNCHANGED mathVars
    BY <2>1 DEF mathVars, entered, drawn, MathIInv, Drawn, FormatKept, FormatFits
  <2>2. CASE Input
    <3>1. range' \in Int /\ i = 0 /\ i' = 0 /\ mathAt' = "draw"
      BY <2>2, InputsAssumption DEF Input, MathIInv
    <3> QED BY <2>2, <3>1 DEF Input, FirstFormat, MathIInv, FormatKept, FormatFits
  <2>3. CASE OpenFails \/ Trap \/ Finish
    BY <2>3 DEF OpenFails, Trap, Finish, entered, MathIInv, FormatKept, FormatFits
  <2> QED BY <2>1, <2>2, <2>3, DrawInRange, DrawMoreInRange, LineFits DEF MathNext
<1> QED BY <1>1, MathStart, PTL DEF MathSpec

(* Whatever positive range is entered, every number that may be printed is *)
(* within it.                                                              *)
THEOREM MathInRange == MathSpec => []AnswersInRange
<1>1. MathIInv => AnswersInRange
  BY DEF MathIInv, AnswersInRange
<1> QED BY <1>1, MathInvariance, PTL

(* Formats fit their arguments, but where none was ever written. *)
THEOREM FormatsFit == MathSpec => []FormatFits
<1>1. MathIInv => FormatFits
  BY DEF MathIInv
<1> QED BY <1>1, MathInvariance, PTL

-----------------------------------------------------------------------------
(* rdwrtest. *)
(* The digits follow one another, 0 after 9. *)
LEMMA DigitsFollow ==
  ASSUME NEW n \in Nat, NEW d, d = (n + 1) % 10
  PROVE  /\ d \in 0..9
         /\ (IF d + 1 > 9 THEN 0 ELSE d + 1) = ((n + 1) + 1) % 10
OBVIOUS

(* The file never shrinks. *)
LEMMA FileGrows ==
  ASSUME size \in Nat \cup {Absent}, NEW n \in Nat
  PROVE  AtLeast(n) \in Nat
BY DEF AtLeast, Absent

LEMMA FileStart == FileInit => FileIInv
<1> SUFFICES ASSUME FileInit PROVE FileIInv
  OBVIOUS
<1>1. FileTypeOK
  BY FileAssumption DEF FileInit, FileTypeOK, Content, Old
<1>2. WritesCounted /\ HalvesInOrder /\ ReadInOrder /\ ReadsFresh
  BY DEF FileInit, WritesCounted, HalvesInOrder, ReadInOrder, ReadsFresh, Old, DigitOf
<1> QED BY <1>1, <1>2 DEF FileIInv

(* A block has two halves, and storing one leaves the other. *)
LEMMA TwoHalves ==
  /\ 1 \in 1..2 /\ 2 \in 1..2
  /\ \A h \in 1..2 : h = 1 \/ h = 2
OBVIOUS

LEMMA FirstStored ==
  ASSUME NEW S, NEW f \in [1..2 -> S], NEW e, NEW g, g = [f EXCEPT ![1] = e]
  PROVE  g[1] = e /\ g[2] = f[2]
<1>1. 1 \in DOMAIN f /\ 2 \in DOMAIN f /\ 1 # 2
  BY TwoHalves
<1> QED BY <1>1

LEMMA SecondStored ==
  ASSUME NEW S, NEW f \in [1..2 -> S], NEW e, NEW g, g = [f EXCEPT ![2] = e]
  PROVE  g[2] = e /\ g[1] = f[1]
<1>1. 1 \in DOMAIN f /\ 2 \in DOMAIN f /\ 1 # 2
  BY TwoHalves
<1> QED BY <1>1

(* The end of the block, and the end of its first half. *)
LEMMA BlockEnds == EndOf(Block) \in Nat /\ EndOf(Block) - 1 \in Nat
BY DEF EndOf, Block

(* The numbers in the halves and in the buffer are numbers. *)
LEMMA CountsInNat ==
  ASSUME FileTypeOK
  PROVE  /\ started \in Nat /\ written \in Nat /\ before \in Nat
         /\ half[1].write \in Nat /\ half[2].write \in Nat
         /\ bufwr[1].write \in Nat /\ bufwr[2].write \in Nat
<1>2. half \in [1..2 -> Content] /\ bufwr \in [1..2 -> Content]
  BY DEF FileTypeOK
<1>3. half[1] \in Content /\ half[2] \in Content /\ bufwr[1] \in Content /\ bufwr[2] \in Content
  BY <1>2, TwoHalves
<1>4. \A any \in Content : any.write \in Nat
  BY DEF Content
<1>5. started \in Nat /\ written \in Nat /\ before \in Nat
  BY DEF FileTypeOK
<1> QED BY <1>3, <1>4, <1>5

(* What the invariant says of each half. *)
LEMMA Halves ==
  ASSUME HalvesInOrder
  PROVE  /\ half[1].write \in written..started /\ half[2].write \in written..started
         /\ half[1].digit = DigitOf(half[1].write) /\ half[2].digit = DigitOf(half[2].write)
         /\ half[2].write <= half[1].write
BY TwoHalves DEF HalvesInOrder

-----------------------------------------------------------------------------
(* The steps of the parent. *)
LEMMA ForkKeeps == ASSUME FileIInv, Fork PROVE FileIInv'
BY DEF Fork, FileIInv, FileTypeOK, WritesCounted, HalvesInOrder, ReadInOrder, ReadsFresh

LEMMA OpenToWriteKeeps == ASSUME FileIInv, OpenToWrite PROVE FileIInv'
<1>1. /\ FileTypeOK /\ WritesCounted /\ HalvesInOrder /\ ReadInOrder /\ ReadsFresh
      /\ UNCHANGED <<half, written, rAt, bufwr, before>> /\ wAt = "open"
  BY DEF FileIInv, OpenToWrite, childVars
<1>2. CASE wAt' = "write"
  <2>1. started' = started + 1 /\ started \in Nat /\ started = written
    BY <1>1, <1>2 DEF OpenToWrite, FileTypeOK, WritesCounted
  <2>2. digit' = IF digit + 1 > 9 THEN 0 ELSE digit + 1
    BY <1>2 DEF OpenToWrite
  <2>3. digit = (started + 1) % 10
    BY <1>1 DEF WritesCounted
  <2>4. digit' = ((started + 1) + 1) % 10
    BY <2>1, <2>2, <2>3, DigitsFollow
  <2>5. started' \in Nat
    BY <2>1
  <2>6. digit' = (started' + 1) % 10
    BY <2>1, <2>4
  <2>7. digit' \in 0..9
    BY <2>5, <2>6, DigitsFollow
  <2>8. size' \in Nat
    BY <1>1, <1>2, FileGrows DEF OpenToWrite, FileTypeOK
  <2>9. FileTypeOK'
    BY <1>1, <1>2, <2>5, <2>7, <2>8 DEF FileTypeOK
  <2>10. before <= written /\ written = started /\ written \in Nat /\ before \in Nat
    BY <1>1, <2>1, CountsInNat DEF WritesCounted
  <2>11. WritesCounted'
    BY <1>1, <1>2, <2>1, <2>6, <2>10 DEF WritesCounted
  <2>13. \A m \in Nat : \A n \in m..started : n \in m..started'
    BY <2>1
  <2>14. HalvesInOrder'
    BY <1>1, <1>2, <2>10, <2>13 DEF HalvesInOrder
  <2>15. ReadInOrder' /\ ReadsFresh'
    BY <1>1, <1>2, <2>10, <2>13 DEF ReadInOrder, ReadsFresh
  <2> QED BY <2>9, <2>11, <2>14, <2>15 DEF FileIInv
<1>3. CASE wAt' = "failed"
  <2>1. UNCHANGED <<size, digit, started>>
    BY <1>3 DEF OpenToWrite
  <2> QED BY <1>1, <1>3, <2>1
          DEF FileIInv, FileTypeOK, WritesCounted, HalvesInOrder, ReadInOrder, ReadsFresh
<1> QED BY <1>2, <1>3 DEF OpenToWrite

LEMMA WriteHalfKeeps == ASSUME FileIInv, WriteHalf PROVE FileIInv'
<1>1. /\ FileTypeOK /\ WritesCounted /\ HalvesInOrder /\ ReadInOrder /\ ReadsFresh
      /\ UNCHANGED <<digit, size, started, written, rAt, bufwr, before>>
      /\ wAt = "write" /\ wAt' = "write on"
      /\ half' = [half EXCEPT ![1] = [digit |-> digit, write |-> started]]
  BY DEF FileIInv, WriteHalf, PutHalf, childVars
<1>2. digit \in 0..9 /\ started \in Nat /\ half \in [1..2 -> Content]
  BY <1>1 DEF FileTypeOK
<1>3. [digit |-> digit, write |-> started] \in Content
  BY <1>2 DEF Content
<1>4. half' \in [1..2 -> Content]
  BY <1>1, <1>2, <1>3
<1>5. FileTypeOK'
  BY <1>1, <1>4 DEF FileTypeOK
<1>6. started = written + 1 /\ digit = (started + 1) % 10 /\ written \in Nat
  BY <1>1, CountsInNat DEF WritesCounted
<1>7. WritesCounted'
  BY <1>1, <1>6 DEF WritesCounted
<1>8. half'[1] = [digit |-> digit, write |-> started] /\ half'[2] = half[2]
  <2>1. half' = [half EXCEPT ![1] = [digit |-> digit, write |-> started]]
    BY <1>1
  <2> QED BY <2>1, <1>2, FirstStored
<1>9. digit = DigitOf(started)
  BY <1>6 DEF DigitOf
<1>10. half[2].write \in written..started /\ half[2].digit = DigitOf(half[2].write)
  BY <1>1, Halves
<1>11. HalvesInOrder'
  <2>1. \A h \in 1..2 : h = 1 \/ h = 2
    OBVIOUS
  <2>2. half'[1].write = started /\ half'[1].digit = DigitOf(started)
    BY <1>8, <1>9
  <2>3. started \in written..started /\ half[2].write <= started
    BY <1>2, <1>6, <1>10
  <2>4. UNCHANGED <<started, written>>
    BY <1>1
  <2> QED BY <2>1, <2>2, <2>3, <2>4, <1>8, <1>10 DEF HalvesInOrder, DigitOf
<1>12. ReadInOrder' /\ ReadsFresh'
  BY <1>1, <1>8 DEF ReadInOrder, ReadsFresh, DigitOf
<1> QED BY <1>5, <1>7, <1>11, <1>12 DEF FileIInv

LEMMA WriteRestKeeps == ASSUME FileIInv, WriteRest PROVE FileIInv'
<1>1. /\ FileTypeOK /\ WritesCounted /\ HalvesInOrder /\ ReadInOrder /\ ReadsFresh
      /\ UNCHANGED <<digit, started, rAt, bufwr, before>>
      /\ wAt = "write on" /\ wAt' = "open" /\ written' = started
      /\ half' = [half EXCEPT ![2] = [digit |-> digit, write |-> started]]
      /\ size' = AtLeast(EndOf(Block))
  BY DEF FileIInv, WriteRest, PutHalf, childVars
<1>2. digit \in 0..9 /\ started \in Nat /\ half \in [1..2 -> Content]
  BY <1>1 DEF FileTypeOK
<1>3. [digit |-> digit, write |-> started] \in Content
  BY <1>2 DEF Content
<1>4. half' \in [1..2 -> Content]
  BY <1>1, <1>2, <1>3
<1>5. size' \in Nat
  BY <1>1, FileGrows, BlockEnds DEF FileTypeOK
<1>6. FileTypeOK'
  BY <1>1, <1>2, <1>4, <1>5 DEF FileTypeOK
<1>7. /\ started = written + 1 /\ digit = (started + 1) % 10
      /\ written \in Nat /\ before \in Nat /\ before <= written
  BY <1>1, CountsInNat DEF WritesCounted
<1>8. WritesCounted'
  <2>1. before <= started /\ started <= started + 1
    BY <1>7
  <2> QED BY <1>1, <1>7, <2>1 DEF WritesCounted
<1>9. half'[2] = [digit |-> digit, write |-> started] /\ half'[1] = half[1]
  <2>1. half' = [half EXCEPT ![2] = [digit |-> digit, write |-> started]]
    BY <1>1
  <2> QED BY <2>1, <1>2, SecondStored
<1>10. digit = DigitOf(started)
  BY <1>7 DEF DigitOf
<1>11. half[1].write = started /\ half[1].digit = DigitOf(half[1].write)
  BY <1>1, Halves DEF HalvesInOrder
<1>12. HalvesInOrder'
  <2>1. \A h \in 1..2 : h = 1 \/ h = 2
    OBVIOUS
  <2>2. half'[2].write = started /\ half'[2].digit = DigitOf(started)
    BY <1>9, <1>10
  <2>3. started \in started..started /\ started <= started
    BY <1>2
  <2>4. started' = started /\ written' = started /\ wAt' = "open"
    BY <1>1
  <2> QED BY <2>1, <2>2, <2>3, <2>4, <1>9, <1>11 DEF HalvesInOrder, DigitOf
<1>13. half[2].write \in Nat /\ bufwr[1].write \in Nat /\ half[2].write \in written..started
  BY <1>1, CountsInNat, Halves
<1>14. bufwr[1].write <= half[2].write + 1 => bufwr[1].write <= started + 1
  BY <1>2, <1>7, <1>13
<1>15. half'[2].write = started
  BY <1>9
<1>16. ReadInOrder' /\ ReadsFresh'
  BY <1>1, <1>14, <1>15 DEF ReadInOrder, ReadsFresh, DigitOf
<1> QED BY <1>6, <1>8, <1>12, <1>16 DEF FileIInv

LEMMA WriteFailsKeeps == ASSUME FileIInv, WriteFails PROVE FileIInv'
<1>1. /\ FileTypeOK /\ WritesCounted /\ HalvesInOrder /\ ReadInOrder /\ ReadsFresh
      /\ UNCHANGED <<digit, half, started, written, rAt, bufwr, before>>
      /\ wAt' = "failed"
      /\ size' = IF wAt = "write on" THEN AtLeast(EndOf(Block) - 1) ELSE size
  BY DEF FileIInv, WriteFails, childVars
<1>2. size' \in Nat \cup {Absent}
  BY <1>1, FileGrows, BlockEnds DEF FileTypeOK
<1>3. FileTypeOK'
  BY <1>1, <1>2 DEF FileTypeOK
<1>4. WritesCounted' /\ HalvesInOrder' /\ ReadInOrder' /\ ReadsFresh'
  BY <1>1 DEF WritesCounted, HalvesInOrder, ReadInOrder, ReadsFresh, DigitOf
<1> QED BY <1>3, <1>4 DEF FileIInv

-----------------------------------------------------------------------------
(* The steps of the child. *)
LEMMA OpenToReadKeeps == ASSUME FileIInv, OpenToRead PROVE FileIInv'
<1>1. /\ FileTypeOK /\ WritesCounted /\ HalvesInOrder /\ ReadInOrder
      /\ UNCHANGED <<wAt, digit, size, half, bufwr, started, written>>
      /\ before' = written /\ rAt' \in {"unopened", "read"}
  BY DEF FileIInv, OpenToRead, parentVars
<1>2. written <= written
  BY <1>1, CountsInNat
<1>3. FileTypeOK' /\ WritesCounted'
  BY <1>1, <1>2 DEF FileTypeOK, WritesCounted
<1>4. HalvesInOrder' /\ ReadInOrder' /\ ReadsFresh'
  BY <1>1 DEF HalvesInOrder, ReadInOrder, ReadsFresh, DigitOf
<1> QED BY <1>3, <1>4 DEF FileIInv

LEMMA ReadHalfKeeps == ASSUME FileIInv, ReadHalf PROVE FileIInv'
<1>1. /\ FileTypeOK /\ WritesCounted /\ HalvesInOrder /\ ReadInOrder /\ ReadsFresh
      /\ UNCHANGED <<wAt, digit, size, half, started, written, before>> /\ rAt = "read"
  BY DEF FileIInv, ReadHalf, parentVars
<1>2. CASE size < EndOf(Block)
  <2>1. rAt' = "short" /\ bufwr' = bufwr
    BY <1>2 DEF ReadHalf
  <2>2. FileTypeOK' /\ WritesCounted' /\ HalvesInOrder'
    BY <1>1, <2>1 DEF FileTypeOK, WritesCounted, HalvesInOrder, DigitOf
  <2>3. ReadInOrder' /\ ReadsFresh'
    BY <1>1, <2>1 DEF ReadInOrder, ReadsFresh, DigitOf
  <2> QED BY <2>2, <2>3 DEF FileIInv
<1>3. CASE ~(size < EndOf(Block))
  <2>1. rAt' = "read on" /\ bufwr' = [bufwr EXCEPT ![1] = half[1]]
    BY <1>3 DEF ReadHalf
  <2>2. /\ half \in [1..2 -> Content] /\ bufwr \in [1..2 -> Content]
        /\ half[1] \in Content
    BY <1>1, TwoHalves DEF FileTypeOK
  <2>3. bufwr' \in [1..2 -> Content]
    BY <2>1, <2>2
  <2>4. FileTypeOK' /\ WritesCounted' /\ HalvesInOrder'
    BY <1>1, <2>1, <2>3 DEF FileTypeOK, WritesCounted, HalvesInOrder, DigitOf
  <2>5. bufwr'[1] = half[1] /\ bufwr'[2] = bufwr[2]
    <3>1. bufwr' = [bufwr EXCEPT ![1] = half[1]]
      BY <2>1
    <3> QED BY <3>1, <2>2, FirstStored
  <2>6. /\ half[1].write \in written..started /\ half[2].write \in written..started
        /\ half[1].digit = DigitOf(half[1].write)
    BY <1>1, Halves
  <2>7. /\ before \in Nat /\ written \in Nat /\ started \in Nat
        /\ before <= written /\ started <= written + 1
    BY <1>1, CountsInNat DEF WritesCounted
  <2>8. half[1].write \in before..started /\ half[1].write <= half[2].write + 1
    BY <2>6, <2>7
  <2>9. \A h \in 1..2 : h = 1 \/ h = 2
    OBVIOUS
  <2>10. bufwr[2].digit = DigitOf(bufwr[2].write)
    BY <1>1 DEF ReadInOrder
  <2>11. \A h \in 1..2 : bufwr'[h].digit = DigitOf(bufwr'[h].write)
    BY <2>5, <2>6, <2>9, <2>10
  <2>12. ReadInOrder' /\ ReadsFresh'
    BY <1>1, <2>1, <2>5, <2>8, <2>11 DEF ReadInOrder, ReadsFresh, DigitOf
  <2> QED BY <2>4, <2>12 DEF FileIInv
<1> QED BY <1>2, <1>3

LEMMA ReadRestKeeps == ASSUME FileIInv, ReadRest PROVE FileIInv'
<1>1. /\ FileTypeOK /\ WritesCounted /\ HalvesInOrder /\ ReadInOrder /\ ReadsFresh
      /\ UNCHANGED <<wAt, digit, size, half, started, written, before>> /\ rAt = "read on"
      /\ rAt' = "success" /\ bufwr' = [bufwr EXCEPT ![2] = half[2]]
  BY DEF FileIInv, ReadRest, parentVars
<1>2. /\ half \in [1..2 -> Content] /\ bufwr \in [1..2 -> Content]
      /\ half[2] \in Content
  BY <1>1, TwoHalves DEF FileTypeOK
<1>3. bufwr' \in [1..2 -> Content]
  BY <1>1, <1>2
<1>4. FileTypeOK' /\ WritesCounted' /\ HalvesInOrder'
  BY <1>1, <1>3 DEF FileTypeOK, WritesCounted, HalvesInOrder, DigitOf
<1>5. bufwr'[2] = half[2] /\ bufwr'[1] = bufwr[1]
  <2>1. bufwr' = [bufwr EXCEPT ![2] = half[2]]
    BY <1>1
  <2> QED BY <2>1, <1>2, SecondStored
<1>6. half[2].write \in written..started /\ half[2].digit = DigitOf(half[2].write)
  BY <1>1, Halves
<1>7. /\ before \in Nat /\ written \in Nat /\ started \in Nat
      /\ before <= written
  BY <1>1, CountsInNat DEF WritesCounted
<1>8. half[2].write \in before..started
  BY <1>6, <1>7
<1>9. /\ bufwr[1].digit = DigitOf(bufwr[1].write)
      /\ bufwr[1].write \in before..started /\ bufwr[1].write <= half[2].write + 1
  BY <1>1, TwoHalves DEF ReadInOrder
<1>10. \A h \in 1..2 : h = 1 \/ h = 2
  OBVIOUS
<1>11. \A h \in 1..2 : /\ bufwr'[h].digit = DigitOf(bufwr'[h].write)
                       /\ bufwr'[h].write \in before..started
  BY <1>5, <1>6, <1>8, <1>9, <1>10
<1>12. bufwr'[1].write <= bufwr'[2].write + 1
  BY <1>5, <1>9
<1>13. ReadInOrder' /\ ReadsFresh'
  BY <1>1, <1>11, <1>12 DEF ReadInOrder, ReadsFresh, DigitOf
<1> QED BY <1>4, <1>13 DEF FileIInv

-----------------------------------------------------------------------------
(* Whatever the two processes do and in whatever order, the writes are     *)
(* counted, the halves of the block are in order, and what the child has   *)
(* in its buffer is from a write of its time (rdwrtest.c, main).           *)
THEOREM FileInvariance == FileSpec => []FileIInv
<1>1. FileInit => FileIInv
  BY FileStart
<1>2. FileIInv /\ [FileNext]_fileVars => FileIInv'
  <2> SUFFICES ASSUME FileIInv, [FileNext]_fileVars PROVE FileIInv'
    OBVIOUS
  <2>1. CASE UNCHANGED fileVars
    BY <2>1 DEF fileVars, FileIInv, FileTypeOK, WritesCounted, HalvesInOrder, ReadInOrder,
                ReadsFresh, DigitOf
  <2>2. CASE Fork \/ OpenToWrite \/ WriteHalf \/ WriteRest \/ WriteFails
    BY <2>2, ForkKeeps, OpenToWriteKeeps, WriteHalfKeeps, WriteRestKeeps, WriteFailsKeeps
  <2>3. CASE Child
    BY <2>3, OpenToReadKeeps, ReadHalfKeeps, ReadRestKeeps DEF Child
  <2> QED BY <2>1, <2>2, <2>3 DEF FileNext
<1> QED BY <1>1, <1>2, PTL DEF FileSpec

(* What the child prints is from no write older than the last one that was *)
(* finished when it opened the file, however the two interleave.           *)
THEOREM BlocksFresh == FileSpec => []ReadsFresh
<1>1. FileIInv => ReadsFresh
  BY DEF FileIInv
<1> QED BY <1>1, FileInvariance, PTL
=============================================================================
