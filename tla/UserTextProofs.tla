--------------------------- MODULE UserTextProofs ---------------------------
(***************************************************************************)
(* Theorems of UserText, for settings files and launch lines of any length.   *)
(*                                                                         *)
(* The settings: Layout says what Ini makes of a text that is not refused     *)
(* -- where each old line is found again, what stands between, which lines     *)
(* the section of the mod then has -- and each property follows from that.     *)
(* The launch line: LineOf says what Merge prints, Moved where the tokens of   *)
(* the field are found in it.                                                 *)
(***************************************************************************)
EXTENDS UserText, FiniteSetTheorems, SequenceTheorems, WellFoundedInduction, TLAPS

Keys   == Sections \cup {"sync", "base", "visual", "other", "spin"}
IniLine == [key : Keys, val : 0..2]

TypeInv ==
  /\ ini \in Seq(IniLine) /\ line \in Seq(Tokens)
  /\ installed \in BOOLEAN /\ optimized \in BOOLEAN

\* h is the header of the one NR section, e its last line
IsBody(text, h, e) ==
  /\ Heads(text) = {h} /\ h \in 1..Len(text) /\ e \in h..Len(text)
  /\ \A i \in (h + 1)..e : ~IsHeader(text[i])
  /\ e < Len(text) => IsHeader(text[e + 1])

-----------------------------------------------------------------------------
(* Sets and sequences. *)

\* A set of numbers that has an element has a least one.
LEMMA LeastNumber ==
  ASSUME NEW T \in SUBSET Nat, T # {}
  PROVE  \E x \in T : \A y \in T : x <= y
<1>1. PICK x \in T : \A y \in T : ~ (<<y, x>> \in OpToRel(<, Nat))
  BY NatLessThanWellFounded, WFMin
<1>2. ASSUME NEW y \in T PROVE x <= y
  <2>1. ~(y < x)
    BY <1>1 DEF OpToRel
  <2>. QED  BY <2>1
<1>. QED  BY <1>2

\* A set of places in a text with at most one element is empty or has one.
LEMMA OnePlace ==
  ASSUME NEW n \in Nat, NEW S \in SUBSET (1..n)
  PROVE  /\ IsFiniteSet(S) /\ Cardinality(S) \in Nat
         /\ Cardinality(S) = 1 <=> \E x \in 1..n : S = {x}
         /\ Cardinality(S) > 1 \/ S = {} \/ \E x \in 1..n : S = {x}
<1>1. IsFiniteSet(S)
  <2>1. IsFiniteSet(1..n)
    <3>. 1 \in Int /\ n \in Int
      OBVIOUS
    <3>. QED  BY FS_Interval
  <2>. QED  BY <2>1, FS_Subset
<1>2. Cardinality(S) \in Nat
  BY <1>1, FS_CardinalityType
<1>3. Cardinality(S) = 1 <=> \E x : S = {x}
  BY <1>1, FS_Singleton
<1>4. Cardinality(S) = 0 <=> S = {}
  BY <1>1, FS_EmptySet
<1>. QED  BY <1>1, <1>2, <1>3, <1>4

\* SetToSeq lists each element of a finite set once.
LEMMA SetToSeqIs ==
  ASSUME NEW S, IsFiniteSet(S)
  PROVE  /\ SetToSeq(S) \in Seq(S)
         /\ \A i, j \in 1..Len(SetToSeq(S)) : SetToSeq(S)[i] = SetToSeq(S)[j] => i = j
         /\ \A x \in S : \E i \in 1..Len(SetToSeq(S)) : SetToSeq(S)[i] = x
<1> DEFINE n == Cardinality(S)
           s == SetToSeq(S)
<1>1. n \in Nat /\ \E f \in [1..n -> S] : IsInjective(f)
  BY FS_CardinalityType DEF ExistsBijection, Bijection, Injection
<1>2. s \in [1..n -> S] /\ IsInjective(s)
  BY <1>1 DEF SetToSeq
<1>3. s \in Seq(S) /\ Len(s) = n
  BY <1>1, <1>2
<1>4. s \in Injection(1..n, S)
  BY <1>2 DEF Injection
<1>5. IsFiniteSet(1..n) /\ Cardinality(1..n) = n
  BY <1>1, FS_Interval
<1>6. s \in Surjection(1..n, S)
  BY <1>4, <1>5, FS_Injection
<1>. QED  BY <1>2, <1>3, <1>6 DEF IsInjective, Surjection

\* R is a and then b.
Joins(R, a, b) ==
  LET m == Len(a)
      n == Len(b)
  IN /\ m \in Nat /\ n \in Nat /\ Len(R) = m + n
     /\ \A i \in 1..m : i \in 1..(m + n) /\ R[i] = a[i]
     /\ \A i \in 1..n : m + i \in (m + 1)..(m + n) /\ R[m + i] = b[i]
     /\ \A i \in (m + 1)..(m + n) : i - m \in 1..n /\ R[i] = b[i - m]

\* What stands where in two sequences that are put together.
LEMMA Joined ==
  ASSUME NEW S, NEW a \in Seq(S), NEW b \in Seq(S)
  PROVE  a \o b \in Seq(S) /\ Joins(a \o b, a, b)
BY DEF Joins

\* The second of two sequences that are put together is the end of the whole.
LEMMA JoinedEnd ==
  ASSUME NEW S, NEW a \in Seq(S), NEW b \in Seq(S)
  PROVE  SubSeq(a \o b, Len(a) + 1, Len(a) + Len(b)) = b
<1> DEFINE R == a \o b
           p == Len(a)
           q == Len(a) + Len(b)
           t == SubSeq(R, p + 1, q)
<1>1. /\ R \in Seq(S) /\ p \in Nat /\ q \in Nat /\ Len(b) \in Nat /\ Len(R) = q
      /\ \A i \in 1..Len(b) : p + i \in 1..q /\ R[p + i] = b[i]
  OBVIOUS
<1>2. t \in Seq(S) /\ Len(t) = Len(b) /\ \A i \in 1..Len(t) : t[i] = R[p + i]
  <2> HIDE DEF R
  <2>. QED  BY <1>1
<1>3. \A i \in 1..Len(t) : t[i] = b[i]
  BY <1>1, <1>2
<1> HIDE DEF t
<1>4. t = b
  BY <1>2, <1>3, SeqEqual
<1>. QED  BY <1>4 DEF t

\* R is a, then m, then b.
Parts(R, a, m, b) ==
  LET p == Len(a)
      q == Len(a) + Len(m)
  IN /\ p \in Nat /\ q \in Nat /\ Len(R) = q + Len(b) /\ Len(R) \in Nat
     /\ p <= q /\ q <= Len(R)
     /\ \A i \in 1..p : i \in DOMAIN a /\ R[i] = a[i]
     /\ \A i \in (p + 1)..q : i - p \in 1..Len(m) /\ R[i] = m[i - p]
     /\ \A i \in (q + 1)..Len(R) : i - q \in 1..Len(b) /\ R[i] = b[i - q]
     /\ SubSeq(R, p + 1, q) = m

\* What stands where in three sequences that are put together.
LEMMA Between ==
  ASSUME NEW S, NEW a \in Seq(S), NEW m \in Seq(S), NEW b \in Seq(S)
  PROVE  a \o m \o b \in Seq(S) /\ Parts(a \o m \o b, a, m, b)
<1> DEFINE R == a \o m \o b
           p == Len(a)
           q == Len(a) + Len(m)
<1>1. /\ R \in Seq(S) /\ p \in Nat /\ q \in Nat /\ Len(R) = q + Len(b) /\ Len(R) \in Nat
      /\ Len(b) \in Nat /\ Len(m) \in Nat /\ q = p + Len(m) /\ p <= q /\ q <= Len(R)
  OBVIOUS
<1>2. \A i \in 1..p : i \in DOMAIN a /\ R[i] = a[i]
  OBVIOUS
<1>3. \A i \in (p + 1)..q : i - p \in 1..Len(m) /\ R[i] = m[i - p]
  OBVIOUS
<1>4. \A i \in (q + 1)..Len(R) : i - q \in 1..Len(b) /\ R[i] = b[i - q]
  OBVIOUS
<1>5. SubSeq(R, p + 1, q) = m
  <2> HIDE DEF R, p, q
  <2>1. SubSeq(R, p + 1, q) \in Seq(S) /\ Len(SubSeq(R, p + 1, q)) = Len(m)
    BY <1>1
  <2>2. ASSUME NEW i \in 1..Len(m) PROVE SubSeq(R, p + 1, q)[i] = m[i]
    <3>1. SubSeq(R, p + 1, q)[i] = R[p + i]
      BY <1>1
    <3>2. p + i \in (p + 1)..q /\ p + i - p = i
      BY <1>1
    <3>3. R[p + i] = m[p + i - p]
      BY <1>1, <1>3, <3>2
    <3>. QED  BY <3>1, <3>2, <3>3
  <2> DEFINE t == SubSeq(R, p + 1, q)
  <2>3. t \in Seq(S) /\ Len(t) = Len(m) /\ \A i \in 1..Len(t) : t[i] = m[i]
    BY <2>1, <2>2
  <2> HIDE DEF t
  <2>4. t = m
    BY <2>3, SeqEqual
  <2>. QED  BY <2>4 DEF t
<1>. QED  BY <1>1, <1>2, <1>3, <1>4, <1>5 DEF Parts

-----------------------------------------------------------------------------
(* The section. *)

\* With one NR header, the section has an end.
LEMMA SectionEnds ==
  ASSUME NEW text \in Seq(IniLine), NEW h, Heads(text) = {h}
  PROVE  h \in Nat /\ \E e \in Nat : IsBody(text, h, e)
<1> DEFINE after == {i \in h + 1..Len(text) : IsHeader(text[i])}
<1>1. h \in 1..Len(text)
  BY DEF Heads
<1>4. h \in Nat
  BY <1>1
<1>2. CASE after = {}
  <2>1. IsBody(text, h, Len(text)) /\ Len(text) \in Nat
    BY <1>1, <1>2 DEF IsBody
  <2>. QED  BY <1>4, <2>1, Zenon
<1>3. CASE after # {}
  <2>1. after \in SUBSET Nat
    BY <1>1
  <2>2. PICK x \in after : \A y \in after : x <= y
    BY <1>3, <2>1, LeastNumber
  <2>3. IsBody(text, h, x - 1) /\ x - 1 \in Nat
    BY <1>1, <2>2 DEF IsBody
  <2>. QED  BY <1>4, <2>3, Zenon
<1>. QED  BY <1>2, <1>3

\* What the code finds as the section is the section.
LEMMA SectionFound ==
  ASSUME NEW text \in Seq(IniLine), NEW h \in Nat, NEW e \in Nat, IsBody(text, h, e)
  PROVE  /\ First(text) = h + 1 /\ Last_(text) = e
         /\ \A i : InBody(text, i) <=> i \in (h + 1)..e
         /\ \A i \in 1..Len(text) : Active(text, i) <=> i \in (h + 1)..e
<1>1. First(text) = h + 1
  BY DEF First, IsBody
<1> DEFINE after == {i \in DOMAIN text : i >= First(text) /\ IsHeader(text[i])}
<1>2. /\ h \in Nat /\ e \in Nat /\ Len(text) \in Nat /\ h <= e /\ e <= Len(text)
      /\ DOMAIN text = 1..Len(text)
  BY DEF IsBody
<1> DEFINE least == CHOOSE i \in after : \A j \in after : i <= j
<1>0. Last_(text) = IF after = {} THEN Len(text) ELSE least - 1
  BY DEF Last_
<1>3. Last_(text) = e
  <2>1. CASE e = Len(text)
    <3>1. after = {}
      BY <1>1, <1>2, <2>1 DEF IsBody
    <3>. QED  BY <1>0, <2>1, <3>1
  <2>2. CASE e < Len(text)
    <3>1. e + 1 \in after /\ \A j \in after : e + 1 <= j
      BY <1>1, <1>2, <2>2 DEF IsBody
    <3> HIDE DEF after
    <3>2. \A j \in after : j \in Nat
      BY <1>2 DEF after
    <3>3. least = e + 1
      BY <1>2, <3>1, <3>2
    <3>4. after # {}
      BY <3>1
    <3> HIDE DEF least
    <3>5. least - 1 = e
      BY <3>3
    <3>6. Last_(text) = least - 1
      BY <1>0, <3>4, Zenon
    <3>. QED  BY <3>5, <3>6, Zenon
  <2>3. e = Len(text) \/ e < Len(text)
    <3>1. \A m, n \in Nat : m <= n => m = n \/ m < n
      OBVIOUS
    <3>. QED  BY <1>2, <3>1, Zenon
  <2>. QED  BY <2>1, <2>2, <2>3
<1>4. ASSUME NEW i \in 1..Len(text) PROVE Active(text, i) <=> i \in (h + 1)..e
  <2>1. Active(text, i) <=> h < i /\ \A j \in (h + 1)..i : ~IsHeader(text[j])
    BY DEF Active, IsBody
  <2>. QED  BY <1>2, <2>1 DEF IsBody
<1>. QED  BY <1>1, <1>3, <1>4 DEF InBody

-----------------------------------------------------------------------------
(* The settings that Ini writes. *)

\* the settings of the mod: the required ones and the defaults
Settings(w) == {Key("sync", 1), Key("base", 1), Key("visual", 0), Key("spin", Required("spin", w))}

\* the keys that are in the section after a run
Written(u) == Forced(u) \cup {"base", "visual"}

LEMMA SettingsAre ==
  ASSUME NEW w
  PROVE  /\ IsFiniteSet(Settings(w)) /\ Settings(w) \subseteq IniLine
         /\ \A x, y \in Settings(w) : x.key = y.key => x = y
         /\ \A x \in Settings(w) : x.key \in {"sync", "base", "visual", "spin"} /\ ~IsHeader(x)
         /\ \A k \in {"sync", "base", "visual", "spin"} : \E x \in Settings(w) : x.key = k
         /\ \A u \in BOOLEAN, x \in Settings(w) : x.key \in Forced(u) => x = Key(x.key, Required(x.key, w))
<1>1. IsFiniteSet(Settings(w))
  <2>1. IsFiniteSet({})
    BY FS_EmptySet
  <2>2. IsFiniteSet({} \cup {Key("sync", 1)})
    BY <2>1, FS_AddElement
  <2>3. IsFiniteSet(({} \cup {Key("sync", 1)}) \cup {Key("base", 1)})
    BY <2>2, FS_AddElement
  <2>4. IsFiniteSet((({} \cup {Key("sync", 1)}) \cup {Key("base", 1)}) \cup {Key("visual", 0)})
    BY <2>3, FS_AddElement
  <2>5. IsFiniteSet(((({} \cup {Key("sync", 1)}) \cup {Key("base", 1)}) \cup {Key("visual", 0)})
                    \cup {Key("spin", Required("spin", w))})
    BY <2>4, FS_AddElement
  <2>6. Settings(w) = ((({} \cup {Key("sync", 1)}) \cup {Key("base", 1)}) \cup {Key("visual", 0)})
                    \cup {Key("spin", Required("spin", w))}
    BY DEF Settings
  <2>. QED  BY <2>5, <2>6
<1>2. Settings(w) \subseteq IniLine
  BY DEF Settings, Key, Required, IniLine, Keys
<1>3. \A x, y \in Settings(w) : x.key = y.key => x = y
  BY DEF Settings, Key
<1>4. \A x \in Settings(w) : x.key \in {"sync", "base", "visual", "spin"} /\ ~IsHeader(x)
  BY DEF Settings, Key, IsHeader, Sections
<1>5. \A k \in {"sync", "base", "visual", "spin"} : \E x \in Settings(w) : x.key = k
  BY DEF Settings, Key
<1>6. \A u \in BOOLEAN, x \in Settings(w) : x.key \in Forced(u) => x = Key(x.key, Required(x.key, w))
  BY DEF Settings, Key, Forced, Required
<1>. QED  BY <1>1, <1>2, <1>3, <1>4, <1>5, <1>6

\* the lines of a section, the required ones with their values
KeptLines(body, u, w) ==
  [i \in 1..Len(body) |->
     IF body[i].key \in Forced(u) THEN Key(body[i].key, Required(body[i].key, w)) ELSE body[i]]

\* s lists the settings whose keys the section has not
Completes(s, body, u, w) ==
  /\ \A i \in 1..Len(s) : s[i] \in Settings(w)
  /\ \A i, j \in 1..Len(s) : s[i] = s[j] => i = j
  /\ \A x \in Settings(w) :
       (\E i \in 1..Len(s) : s[i] = x)
       <=> x.key \in Written(u) /\ \A i \in 1..Len(body) : body[i].key # x.key

LEMMA AddedAre ==
  ASSUME NEW body \in Seq(IniLine), NEW u \in BOOLEAN, NEW w
  PROVE  \E s \in Seq(IniLine) :
           NewBody(body, u, w) = KeptLines(body, u, w) \o s /\ Completes(s, body, u, w)
<1> DEFINE missing == {k \in Forced(u) : \A i \in DOMAIN body : body[i].key # k}
           added   == {Key(k, Required(k, w)) : k \in missing}
                      \cup {Default(k) : k \in Absent(body) \ Forced(u)}
           fresh   == {x \in Settings(w) : x.key \in Written(u)
                                           /\ \A i \in 1..Len(body) : body[i].key # x.key}
<1>0. DOMAIN body = 1..Len(body)
  OBVIOUS
<1>1. added = fresh
  <2>1. ASSUME NEW x \in added PROVE x \in fresh
    BY <1>0 DEF Settings, Written, Forced, Key, Default, Absent, Required
  <2>2. ASSUME NEW x \in fresh PROVE x \in added
    <3>1. CASE x.key \in Forced(u)
      BY <1>0, <3>1, SettingsAre
    <3>2. CASE x.key \notin Forced(u)
      <4>1. x.key \in Absent(body) \ Forced(u)
        BY <1>0, <3>2 DEF Written, Absent
      <4>2. x = Default(x.key)
        BY <4>1 DEF Absent, Default, Settings, Key, Required
      <4>. QED  BY <4>1, <4>2
    <3>. QED  BY <3>1, <3>2
  <2>. QED  BY <2>1, <2>2
<1>2. IsFiniteSet(fresh) /\ fresh \subseteq Settings(w)
  BY SettingsAre, FS_Subset
<1>3. NewBody(body, u, w) =
        [i \in DOMAIN body |->
           IF body[i].key \in Forced(u) THEN Key(body[i].key, Required(body[i].key, w))
           ELSE body[i]] \o SetToSeq(added)
  BY DEF NewBody
<1>4. /\ SetToSeq(fresh) \in Seq(fresh)
      /\ \A i, j \in 1..Len(SetToSeq(fresh)) : SetToSeq(fresh)[i] = SetToSeq(fresh)[j] => i = j
      /\ \A x \in fresh : \E i \in 1..Len(SetToSeq(fresh)) : SetToSeq(fresh)[i] = x
  BY <1>2, SetToSeqIs
<1> DEFINE s == SetToSeq(fresh)
<1>5. s \in Seq(IniLine) /\ \A i \in 1..Len(s) : s[i] \in fresh /\ s[i] \in Settings(w)
  <2> HIDE DEF fresh
  <2>1. fresh \subseteq IniLine
    BY <1>2, SettingsAre
  <2>2. SetToSeq(fresh) \in Seq(IniLine)
    BY <1>4, <2>1, SeqMonotonic
  <2>. QED  BY <1>2, <1>4, <2>2
<1>6. \A x \in Settings(w) :
        (\E i \in 1..Len(s) : s[i] = x)
        <=> x.key \in Written(u) /\ \A i \in 1..Len(body) : body[i].key # x.key
  <2>1. ASSUME NEW x \in Settings(w)
        PROVE  (\E i \in 1..Len(s) : s[i] = x) <=> x \in fresh
    <3> HIDE DEF fresh
    <3>. QED  BY <1>4, <1>5
  <2>. QED  BY <2>1
<1>7. NewBody(body, u, w) = KeptLines(body, u, w) \o s
  <2> HIDE DEF added, fresh
  <2>. QED  BY <1>0, <1>1, <1>3 DEF KeptLines
<1>8. Completes(s, body, u, w)
  <2> HIDE DEF fresh
  <2>. QED  BY <1>4, <1>5, <1>6 DEF Completes
<1> HIDE DEF s
<1>. QED  BY <1>5, <1>7, <1>8

\* the section holds each key that a run writes, the required ones once and as required
Filled(body, u, w) ==
  /\ \A k \in Forced(u) : \E i \in 1..Len(body) :
       body[i] = Key(k, Required(k, w)) /\ \A j \in 1..Len(body) : body[j].key = k => j = i
  /\ \A k \in Written(u) : \E i \in 1..Len(body) : body[i].key = k

\* what NewBody makes of a section
NewSectionOf(B, body, u, w) ==
  LET n == Len(body)
  IN /\ B \in Seq(IniLine) /\ Len(B) \in Nat /\ n \in Nat /\ n <= Len(B)
     /\ \A i \in 1..n :
          B[i] = IF body[i].key \in Forced(u) THEN Key(body[i].key, Required(body[i].key, w))
                 ELSE body[i]
     /\ \A j \in (n + 1)..Len(B) :
          ~IsHeader(B[j]) /\ \A i \in 1..n : body[i].key # B[j].key
     /\ Filled(B, u, w)

\* The new section: each line stays in its place, a required one with its value; what
\* follows are keys that it had not; and then it has all.
LEMMA NewBodyIs ==
  ASSUME NEW body \in Seq(IniLine), NEW u \in BOOLEAN, NEW w, ~Twice(body, Forced(u))
  PROVE  NewSectionOf(NewBody(body, u, w), body, u, w)
<1> DEFINE n == Len(body)
           kept == KeptLines(body, u, w)
           B == NewBody(body, u, w)
<1>0. PICK s \in Seq(IniLine) : B = kept \o s /\ Completes(s, body, u, w)
  BY AddedAre
<1>1. /\ B = kept \o s
      /\ \A i \in 1..Len(s) : s[i] \in Settings(w)
      /\ \A i, j \in 1..Len(s) : s[i] = s[j] => i = j
      /\ \A x \in Settings(w) :
           (\E i \in 1..Len(s) : s[i] = x)
           <=> x.key \in Written(u) /\ \A i \in 1..n : body[i].key # x.key
  BY <1>0 DEF Completes
<1>2. n \in Nat /\ Len(s) \in Nat /\ \A j \in 1..Len(s) : s[j] \in Settings(w)
  BY <1>1
<1>3. kept \in Seq(IniLine) /\ Len(kept) = n
  <2>1. \A i \in 1..n : body[i] \in IniLine
    OBVIOUS
  <2>2. \A i \in 1..n :
           IF body[i].key \in Forced(u) THEN Key(body[i].key, Required(body[i].key, w)) \in IniLine
           ELSE body[i] \in IniLine
    <3>1. \A k \in Forced(u) : Key(k, Required(k, w)) \in IniLine
      BY DEF Key, Required, IniLine, Keys, Forced
    <3>. QED  BY <2>1, <3>1
  <2>3. kept \in [1..n -> IniLine]
    <3> HIDE DEF n
    <3>. QED  BY <2>2 DEF n, KeptLines
  <2> HIDE DEF kept
  <2>. QED  BY <1>2, <2>3
<1>4. \A i \in 1..n :
        /\ kept[i] = IF body[i].key \in Forced(u) THEN Key(body[i].key, Required(body[i].key, w))
                      ELSE body[i]
        /\ kept[i].key = body[i].key
  BY DEF Key, KeptLines
<1>5. /\ B \in Seq(IniLine) /\ Len(B) = n + Len(s)
      /\ \A i \in 1..n : B[i] = kept[i]
      /\ \A j \in 1..Len(s) : B[n + j] = s[j]
      /\ \A j \in (n + 1)..Len(B) : j - n \in 1..Len(s) /\ B[j] = s[j - n]
  <2> HIDE DEF kept, B, n
  <2>0. B = kept \o s
    BY <1>1
  <2>1. B \in Seq(IniLine) /\ Joins(B, kept, s)
    BY <2>0, <1>3, Joined
  <2>. QED  BY <1>3, <2>1 DEF Joins
<1>6. ASSUME NEW j \in (n + 1)..Len(B)
      PROVE  ~IsHeader(B[j]) /\ \A i \in 1..n : body[i].key # B[j].key
  <2>1. B[j] \in Settings(w) /\ B[j] = s[j - n] /\ j - n \in 1..Len(s)
    BY <1>2, <1>5
  <2>2. ~IsHeader(B[j])
    BY <2>1, SettingsAre
  <2> HIDE DEF B, n
  <2>. QED  BY <1>1, <2>1, <2>2
<1>7. ASSUME NEW k \in Forced(u)
      PROVE  \E i \in 1..Len(B) :
               B[i] = Key(k, Required(k, w)) /\ \A j \in 1..Len(B) : B[j].key = k => j = i
  <2>1. CASE \E i \in 1..n : body[i].key = k
    <3>1. PICK i \in 1..n : body[i].key = k
      BY <2>1
    <3>2. B[i] = Key(k, Required(k, w)) /\ i \in 1..Len(B)
      <4>1. i \in 1..Len(B)
        <5> HIDE DEF B, n
        <5>. QED  BY <1>2, <1>5, <3>1
      <4>2. B[i] = kept[i] /\ kept[i] = Key(k, Required(k, w))
        <5> HIDE DEF B, n, kept
        <5>. QED  BY <1>4, <1>5, <3>1
      <4>. QED  BY <4>1, <4>2
    <3>3. ASSUME NEW j \in 1..Len(B), B[j].key = k PROVE j = i
      <4>1. j \in 1..n
        <5>1. j \notin (n + 1)..Len(B)
          <6> HIDE DEF B, n
          <6>. QED  BY <1>6, <3>1, <3>3
        <5> HIDE DEF B, n
        <5>. QED  BY <1>2, <1>5, <5>1
      <4>2. body[j].key = k
        BY <1>4, <1>5, <3>3, <4>1
      <4>3. k \in Forced(u) /\ DOMAIN body = 1..n
        OBVIOUS
      <4>. QED  BY <3>1, <4>1, <4>2, <4>3 DEF Twice
    <3>. QED  BY <3>2, <3>3
  <2>2. CASE ~ \E i \in 1..n : body[i].key = k
    <3>1. PICK x \in Settings(w) : x.key = k
      BY SettingsAre DEF Forced
    <3>2. x = Key(k, Required(k, w))
      BY <3>1, SettingsAre
    <3>3. PICK i \in 1..Len(s) : s[i] = x
      BY <1>1, <2>2, <3>1 DEF Written
    <3>4. B[n + i] = Key(k, Required(k, w)) /\ n + i \in 1..Len(B)
      <4> HIDE DEF B, n
      <4>. QED  BY <1>2, <1>5, <3>2, <3>3
    <3>5. ASSUME NEW j \in 1..Len(B), B[j].key = k PROVE j = n + i
      <4>1. j \in (n + 1)..Len(B)
        <5>1. j \notin 1..n
          BY <1>4, <1>5, <2>2, <3>5
        <5> HIDE DEF B, n
        <5>. QED  BY <1>2, <1>5, <5>1
      <4>2. B[j] = s[j - n] /\ j - n \in 1..Len(s)
        BY <1>5, <4>1
      <4>3. s[j - n] = x
        BY <1>2, <3>1, <3>5, <4>2, SettingsAre
      <4>4. j - n = i
        BY <1>1, <3>3, <4>2, <4>3
      <4> HIDE DEF B, n
      <4>. QED  BY <1>2, <1>5, <4>1, <4>4
    <3>. QED  BY <3>4, <3>5
  <2>. QED  BY <2>1, <2>2
<1>8. ASSUME NEW k \in Written(u) PROVE \E i \in 1..Len(B) : B[i].key = k
  <2>1. CASE \E i \in 1..n : body[i].key = k
    <3>1. PICK i \in 1..n : body[i].key = k
      BY <2>1
    <3>2. B[i].key = k
      BY <1>4, <1>5, <3>1
    <3> HIDE DEF B, n
    <3>. QED  BY <1>2, <1>5, <3>2
  <2>2. CASE ~ \E i \in 1..n : body[i].key = k
    <3>1. PICK x \in Settings(w) : x.key = k
      BY SettingsAre DEF Written, Forced
    <3>2. PICK i \in 1..Len(s) : s[i] = x
      BY <1>1, <2>2, <3>1
    <3>3. B[n + i].key = k
      BY <1>5, <3>1, <3>2
    <3> HIDE DEF B, n
    <3>4. n + i \in 1..Len(B)
      BY <1>2, <1>5
    <3>. QED  BY <3>3, <3>4
  <2>. QED  BY <2>1, <2>2
<1>9. n \in Nat /\ Len(B) \in Nat /\ n <= Len(B)
  <2> HIDE DEF B, n
  <2>. QED  BY <1>2, <1>5
<1>10. Filled(B, u, w)
  BY <1>7, <1>8 DEF Filled
<1> HIDE DEF B
<1>. QED  BY <1>4, <1>5, <1>6, <1>9, <1>10 DEF B, NewSectionOf

\* The required keys and their values.
LEMMA ForcedAre ==
  ASSUME NEW u \in BOOLEAN, NEW w, NEW k \in Forced(u)
  PROVE  /\ k \in {"sync", "spin", "base"} /\ Key(k, Required(k, w)) \in IniLine
         /\ ~IsHeader(Key(k, Required(k, w))) /\ Key(k, Required(k, w)).key = k
BY DEF Forced, Key, Required, IniLine, Keys, IsHeader, Sections

\* A line of the text that a run does not rewrite, or the rewritten one.
NowIs(text, i, l, u, w) ==
  l = IF Heads(text) # {} /\ InBody(text, i) /\ text[i].key \in Forced(u)
      THEN Key(text[i].key, Required(text[i].key, w)) ELSE text[i]

\* R is text with its section completed: the lines up to c are where they were, the
\* others after what is added, and the section of R is from h to the last added line.
Layout(text, R, u, w, h, c) ==
  LET n == Len(R) - Len(text)
  IN /\ R \in Seq(IniLine) /\ n \in Nat /\ c \in 0..Len(text) /\ h \in Nat /\ h <= c + n
     /\ IsBody(R, h, c + n)
     /\ \A i \in 1..c : NowIs(text, i, R[i], u, w)
     /\ \A i \in (c + 1)..Len(text) : NowIs(text, i, R[i + n], u, w)
     /\ \A j \in (c + 1)..(c + n) :
          \/ Heads(text) = {} /\ R[j] = Header("NR")
          \/ /\ j \in (h + 1)..(c + n)
             /\ \A i \in 1..Len(text) :
                  Heads(text) # {} /\ InBody(text, i) => text[i].key # R[j].key
     /\ Filled(SubSeq(R, h + 1, c + n), u, w)

\* A text without the section gets it at its end.
LEMMA NewSection ==
  ASSUME NEW text \in Seq(IniLine), NEW u \in BOOLEAN, NEW w, Heads(text) = {}
  PROVE  LET c == Len(text) IN Layout(text, Ini(text, u, w), u, w, c + 1, c)
<1> DEFINE c == Len(text)
           B == NewBody(<<>>, u, w)
           a == text \o <<Header("NR")>>
           R == a \o B \o <<>>
<1>1. /\ B \in Seq(IniLine) /\ Len(B) \in Nat
      /\ \A j \in 1..Len(B) : ~IsHeader(B[j])
      /\ Filled(B, u, w)
  <2>1. << >> \in Seq(IniLine) /\ Len(<< >>) = 0 /\ ~Twice(<< >>, Forced(u))
    BY DEF Twice
  <2>2. NewSectionOf(B, <<>>, u, w)
    BY <2>1, NewBodyIs
  <2> HIDE DEF B
  <2>. QED  BY <2>1, <2>2 DEF NewSectionOf
<1>2. Header("NR") \in IniLine /\ IsHeader(Header("NR")) /\ Header("NR").key = "NR"
  BY DEF Header, IniLine, Keys, Sections, IsHeader
<1>3. /\ a \in Seq(IniLine) /\ Len(a) = c + 1 /\ a[c + 1] = Header("NR") /\ c \in Nat
      /\ \A i \in 1..c : a[i] = text[i]
  BY <1>2
<1>4. Ini(text, u, w) = R
  <2>1. Ini(text, u, w) = a \o B
    BY DEF Ini
  <2>2. a \o B \in Seq(IniLine)
    <3> HIDE DEF a, B
    <3>. QED  BY <1>1, <1>3
  <2> HIDE DEF a, B
  <2>3. (a \o B) \o <<>> = a \o B
    BY <2>2, ConcatEmptySeq
  <2>. QED  BY <2>1, <2>3
<1> HIDE DEF a, B
<1>5. /\ R \in Seq(IniLine) /\ Len(R) = c + 1 + Len(B)
      /\ \A i \in 1..(c + 1) : R[i] = a[i]
      /\ \A i \in (c + 2)..Len(R) : i - (c + 1) \in 1..Len(B) /\ R[i] = B[i - (c + 1)]
      /\ SubSeq(R, c + 2, Len(R)) = B
  <2>1. R = a \o B
    <3>1. a \o B \in Seq(IniLine)
      BY <1>1, <1>3
    <3>. QED  BY <3>1, ConcatEmptySeq
  <2> HIDE DEF c, R
  <2>2. R \in Seq(IniLine) /\ Joins(R, a, B)
    BY <1>1, <1>3, <2>1, Joined
  <2>3. SubSeq(R, Len(a) + 1, Len(a) + Len(B)) = B
    BY <1>1, <1>3, <2>1, JoinedEnd
  <2>. QED  BY <1>1, <1>3, <2>2, <2>3 DEF Joins
<1> HIDE DEF R
<1>6. \A j \in (c + 2)..Len(R) : ~IsHeader(R[j])
  BY <1>1, <1>3, <1>5
<1>7. \A i \in 1..c : R[i] = text[i]
  BY <1>3, <1>5
<1>8. R[c + 1] = Header("NR") /\ c + 1 \in 1..Len(R)
  BY <1>1, <1>3, <1>5
<1>9. IsBody(R, c + 1, Len(R))
  <2>1. ASSUME NEW i \in DOMAIN R, R[i].key = "NR" PROVE i = c + 1
    <3>1. i \in 1..Len(R) /\ IsHeader(R[i])
      BY <1>5, <2>1 DEF IsHeader, Sections
    <3>2. i \notin 1..c
      BY <1>7, <2>1 DEF Heads
    <3>3. i \notin (c + 2)..Len(R)
      BY <1>6, <3>1
    <3>. QED  BY <1>3, <1>5, <3>1, <3>2, <3>3
  <2>2. Heads(R) = {c + 1}
    BY <1>2, <1>5, <1>8, <2>1 DEF Heads
  <2>3. Len(R) \in (c + 1)..Len(R) /\ ~(Len(R) < Len(R)) /\ c + 1 + 1 = c + 2
    BY <1>1, <1>3, <1>5
  <2>. QED  BY <1>6, <1>8, <2>2, <2>3 DEF IsBody
<1>10. Layout(text, R, u, w, c + 1, c)
  <2> DEFINE n == Len(R) - Len(text)
  <2>1. n \in Nat /\ c + n = Len(R) /\ c \in 0..Len(text) /\ c + 1 \in Nat /\ c + 1 <= c + n
        /\ c + 1 + 1 = c + 2
    BY <1>1, <1>3, <1>5
  <2>2. \A i \in 1..c : NowIs(text, i, R[i], u, w)
    BY <1>7 DEF NowIs
  <2>3. (c + 1)..Len(text) = {}
    BY <1>3
  <2>4. ASSUME NEW j \in (c + 1)..(c + n)
        PROVE  R[j] = Header("NR") \/ j \in (c + 2)..(c + n)
    BY <1>3, <1>8, <2>1
  <2> HIDE DEF c, n
  <2>. QED  BY <1>5, <1>9, <1>1, <2>1, <2>2, <2>3, <2>4 DEF Layout, n
<1>. QED  BY <1>4, <1>10

\* The lengths, when the lines h + 1 to c of lt lines give way to lb lines.
LEMMA SpliceLengths ==
  ASSUME NEW h \in Nat, NEW c \in Nat, NEW lt \in Nat, NEW lb \in Nat, NEW lr,
         h <= c, c <= lt, c - h <= lb, lr = h + lb + (lt - c)
  PROVE  /\ lr - lt \in Nat /\ c + (lr - lt) = h + lb /\ lr - lt = lb - (c - h)
         /\ h + lb <= lr /\ lr \in Nat
OBVIOUS

\* A text with the section gets it completed at the section's end.
LEMMA OldSection ==
  ASSUME NEW text \in Seq(IniLine), NEW u \in BOOLEAN, NEW w, NEW h \in Nat, NEW c \in Nat,
         IsBody(text, h, c), ~Refused(text, u, w)
  PROVE  Layout(text, Ini(text, u, w), u, w, h, c)
<1> DEFINE body == SubSeq(text, h + 1, c)
           B    == NewBody(body, u, w)
           a    == SubSeq(text, 1, h)
           b    == SubSeq(text, c + 1, Len(text))
           R    == a \o B \o b
           q    == h + Len(B)
           n    == Len(R) - Len(text)
<1>1. /\ Len(text) \in Nat /\ h \in 1..c /\ c <= Len(text) /\ Heads(text) = {h}
      /\ DOMAIN text = 1..Len(text) /\ c \in h..Len(text)
      /\ \A i \in (h + 1)..c : ~IsHeader(text[i])
      /\ c < Len(text) => IsHeader(text[c + 1])
  BY DEF IsBody
<1>2. First(text) = h + 1 /\ Last_(text) = c /\ \A i : InBody(text, i) <=> i \in (h + 1)..c
  BY SectionFound
<1>3. /\ body \in Seq(IniLine) /\ Len(body) = c - h
      /\ \A i \in 1..(c - h) : body[i] = text[h + i]
  BY <1>1
<1>4. /\ a \in Seq(IniLine) /\ Len(a) = h /\ \A i \in 1..h : a[i] = text[i]
  <2>1. h \in 1..Len(text)
    BY <1>1
  <2>. QED  BY <2>1
<1>5. /\ b \in Seq(IniLine) /\ Len(b) = Len(text) - c
      /\ \A i \in 1..(Len(text) - c) : b[i] = text[c + i]
  <2>1. b \in Seq(IniLine)
    BY <1>1
  <2>2. Len(b) = Len(text) - c
    <3>1. CASE c = Len(text)
      BY <1>1, <3>1
    <3>2. CASE c < Len(text)
      <4>1. c + 1 \in 1..Len(text) /\ Len(text) \in 1..Len(text)
        BY <1>1, <3>2
      <4>. QED  BY <1>1, <4>1
    <3>3. \A k, l \in Nat : k <= l => k = l \/ k < l
      OBVIOUS
    <3>4. c = Len(text) \/ c < Len(text)
      BY <1>1, <3>3, Zenon
    <3>. QED  BY <3>1, <3>2, <3>4
  <2>3. \A i \in 1..(Len(text) - c) : b[i] = text[c + i]
    BY <1>1
  <2>. QED  BY <2>1, <2>2, <2>3
<1>6. NewSectionOf(B, body, u, w)
  <2>1. ~Twice(body, Forced(u))
    BY <1>1, <1>2 DEF Refused
  <2> HIDE DEF body
  <2>. QED  BY <1>3, <2>1, NewBodyIs
<1>7. Ini(text, u, w) = R
  <2>1. h + 1 - 1 = h /\ Heads(text) # {}
    BY <1>1
  <2>2. Ini(text, u, w) =
          SubSeq(text, 1, First(text) - 1)
          \o NewBody(SubSeq(text, First(text), Last_(text)), u, w)
          \o SubSeq(text, Last_(text) + 1, Len(text))
    BY <2>1 DEF Ini
  <2>3. First(text) - 1 = h
    BY <1>2
  <2>. QED  BY <1>2, <2>2, <2>3
<1> HIDE DEF body, B, a, b
<1>8. B \in Seq(IniLine) /\ Len(B) \in Nat /\ c - h \in Nat /\ c - h <= Len(B)
  BY <1>1, <1>3, <1>6 DEF NewSectionOf
<1>9. /\ R \in Seq(IniLine) /\ Len(R) = q + (Len(text) - c) /\ q \in Nat
      /\ \A i \in 1..h : R[i] = text[i]
      /\ \A i \in (h + 1)..q : i - h \in 1..Len(B) /\ R[i] = B[i - h]
      /\ \A i \in (q + 1)..Len(R) : i - q \in 1..(Len(text) - c) /\ R[i] = text[c + (i - q)]
      /\ SubSeq(R, h + 1, q) = B
  <2> HIDE DEF R
  <2>1. R \in Seq(IniLine) /\ Parts(R, a, B, b)
    BY <1>4, <1>5, <1>8, Between DEF R
  <2>. QED  BY <1>1, <1>4, <1>5, <1>8, <2>1 DEF Parts
<1> HIDE DEF R
<1>10. n \in Nat /\ c + n = q /\ n = Len(B) - (c - h) /\ q <= Len(R) /\ Len(R) \in Nat
  <2>1. c \in Nat /\ Len(text) \in Nat /\ h <= c /\ c <= Len(text)
    BY <1>1
  <2>2. Len(B) \in Nat /\ c - h <= Len(B) /\ Len(R) = h + Len(B) + (Len(text) - c)
    BY <1>8, <1>9
  <2>. QED  BY <2>1, <2>2, SpliceLengths
<1> HIDE DEF q, n
<1>11. ASSUME NEW i \in (h + 1)..c
       PROVE  /\ i \in (h + 1)..q
              /\ R[i] = IF text[i].key \in Forced(u) THEN Key(text[i].key, Required(text[i].key, w))
                        ELSE text[i]
  <2>1. i - h \in 1..(c - h) /\ h + (i - h) = i /\ i \in (h + 1)..q
    BY <1>1, <1>8, <1>10
  <2>2. body[i - h] = text[i] /\ R[i] = B[i - h]
    BY <1>3, <1>9, <2>1
  <2>3. B[i - h] = IF body[i - h].key \in Forced(u)
                   THEN Key(body[i - h].key, Required(body[i - h].key, w)) ELSE body[i - h]
    BY <1>3, <1>6, <2>1 DEF NewSectionOf
  <2>. QED  BY <2>1, <2>2, <2>3
<1>12. ASSUME NEW i \in (c + 1)..Len(text)
       PROVE  i + n \in (q + 1)..Len(R) /\ R[i + n] = text[i]
  <2> DEFINE j == i + n
  <2>1. j \in (q + 1)..Len(R) /\ c + (j - q) = i
    <3>1. i \in Nat /\ c + 1 <= i /\ i <= Len(text) /\ Len(text) \in Nat /\ c \in Nat
      BY <1>1
    <3>2. n \in Nat /\ q = c + n /\ Len(R) = Len(text) + n
      BY <1>1, <1>10 DEF n
    <3>. QED  BY <3>1, <3>2
  <2> HIDE DEF j
  <2>2. R[j] = text[c + (j - q)]
    BY <1>9, <2>1
  <2>. QED  BY <2>1, <2>2 DEF j
<1>13. ASSUME NEW j \in (c + 1)..q
       PROVE  /\ j \in (h + 1)..q /\ ~IsHeader(R[j])
              /\ \A i \in (h + 1)..c : text[i].key # R[j].key
  <2>1. j \in (h + 1)..q /\ j - h \in (c - h + 1)..Len(B)
    BY <1>1, <1>8, <1>10 DEF q
  <2>2. R[j] = B[j - h]
    BY <1>9, <2>1
  <2>3. ~IsHeader(R[j]) /\ \A i \in 1..(c - h) : body[i].key # R[j].key
    BY <1>3, <1>6, <2>1, <2>2 DEF NewSectionOf
  <2>4. ASSUME NEW i \in (h + 1)..c PROVE text[i].key # R[j].key
    <3>1. i - h \in 1..(c - h) /\ h + (i - h) = i
      BY <1>1
    <3>2. body[i - h] = text[i]
      BY <1>3, <3>1
    <3>. QED  BY <2>3, <3>1, <3>2
  <2>. QED  BY <2>1, <2>3, <2>4
<1>14. IsBody(R, h, q)
  <2>1. \A i \in (h + 1)..q : ~IsHeader(R[i])
    <3>1. ASSUME NEW i \in (h + 1)..c PROVE ~IsHeader(R[i])
      <4>1. CASE text[i].key \in Forced(u)
        BY <1>11, <4>1, ForcedAre
      <4>2. CASE text[i].key \notin Forced(u)
        BY <1>1, <1>11, <4>2
      <4>. QED  BY <4>1, <4>2
    <3>. QED  BY <1>1, <1>13, <3>1
  <2>2. Heads(R) = {h}
    <3>1. h \in Heads(R)
      <4>1. h \in 1..h /\ h \in 1..Len(R)
        BY <1>1, <1>8, <1>10 DEF q
      <4>2. R[h] = text[h] /\ text[h].key = "NR"
        BY <1>1, <1>9, <4>1 DEF Heads
      <4>. QED  BY <1>9, <4>1, <4>2 DEF Heads
    <3>2. ASSUME NEW i \in Heads(R) PROVE i = h
      <4>1. i \in 1..Len(R) /\ R[i].key = "NR" /\ IsHeader(R[i])
        BY <1>9 DEF Heads, IsHeader, Sections
      <4>2. CASE i \in 1..h
        <5>1. i \in 1..Len(text) /\ R[i] = text[i]
          BY <1>1, <1>9, <4>2
        <5>2. i \in Heads(text)
          BY <1>1, <4>1, <5>1 DEF Heads
        <5>. QED  BY <1>1, <5>2
      <4>3. CASE i \in (q + 1)..Len(R)
        <5>1. c + (i - q) \in 1..Len(text) /\ R[i] = text[c + (i - q)] /\ c + (i - q) > h
          <6>1. i - q \in 1..(Len(text) - c) /\ R[i] = text[c + (i - q)]
            BY <1>9, <4>3
          <6>2. c + (i - q) \in 1..Len(text) /\ c + (i - q) > h
            BY <1>1, <6>1
          <6>. QED  BY <6>1, <6>2
        <5>2. c + (i - q) \in Heads(text)
          BY <1>1, <4>1, <5>1 DEF Heads
        <5>. QED  BY <1>1, <5>1, <5>2
      <4>4. i \notin (h + 1)..q
        BY <2>1, <4>1
      <4>. QED  BY <1>1, <1>9, <1>10, <4>1, <4>2, <4>3, <4>4
    <3>. QED  BY <3>1, <3>2
  <2>3. h \in 1..Len(R) /\ q \in h..Len(R)
    BY <1>1, <1>8, <1>9, <1>10 DEF q
  <2>4. ASSUME q < Len(R) PROVE IsHeader(R[q + 1])
    <3>1. q + 1 \in (q + 1)..Len(R) /\ c + (q + 1 - q) = c + 1 /\ c < Len(text)
      BY <1>1, <1>8, <1>9, <1>10, <2>4
    <3>. QED  BY <1>1, <1>9, <3>1
  <2>. QED  BY <2>1, <2>2, <2>3, <2>4 DEF IsBody
<1>15. ASSUME NEW i \in 1..c PROVE NowIs(text, i, R[i], u, w)
  <2>1. CASE i \in 1..h
    <3>1. ~InBody(text, i) /\ R[i] = text[i]
      BY <1>1, <1>2, <1>9, <2>1
    <3>. QED  BY <3>1 DEF NowIs
  <2>2. CASE i \in (h + 1)..c
    BY <1>1, <1>2, <1>11, <2>2 DEF NowIs
  <2>. QED  BY <1>1, <2>1, <2>2
<1>16. ASSUME NEW i \in (c + 1)..Len(text) PROVE NowIs(text, i, R[i + n], u, w)
  <2>1. ~InBody(text, i)
    BY <1>1, <1>2
  <2>. QED  BY <1>12, <2>1 DEF NowIs
<1>17. Layout(text, R, u, w, h, c)
  <2>1. \A j \in (c + 1)..q :
          /\ j \in (h + 1)..q
          /\ \A i \in 1..Len(text) : InBody(text, i) => text[i].key # R[j].key
    BY <1>2, <1>13
  <2>2. Filled(SubSeq(R, h + 1, q), u, w)
    BY <1>6, <1>9 DEF NewSectionOf
  <2>3. c \in 0..Len(text) /\ h <= q
    BY <1>1, <1>8, <1>9 DEF q
  <2>. QED  BY <1>9, <1>10, <1>14, <1>15, <1>16, <2>1, <2>2, <2>3 DEF Layout, n
<1>. QED  BY <1>7, <1>17

\* What Ini makes of a text that is not refused.
LEMMA IniLayout ==
  ASSUME NEW text \in Seq(IniLine), NEW u \in BOOLEAN, NEW w, ~Refused(text, u, w)
  PROVE  \E h, c \in Nat : Layout(text, Ini(text, u, w), u, w, h, c)
<1>1. CASE Heads(text) = {}
  <2>1. Len(text) \in Nat /\ Len(text) + 1 \in Nat
    OBVIOUS
  <2>2. Layout(text, Ini(text, u, w), u, w, Len(text) + 1, Len(text))
    BY <1>1, NewSection
  <2>. QED  BY <2>1, <2>2
<1>2. CASE Heads(text) # {}
  <2>1. Len(text) \in Nat /\ Heads(text) \in SUBSET (1..Len(text))
    BY DEF Heads
  <2>2. ~(Cardinality(Heads(text)) > 1)
    BY DEF Refused
  <2>3. PICK h \in 1..Len(text) : Heads(text) = {h}
    BY <1>2, <2>1, <2>2, OnePlace
  <2>4. PICK c \in Nat : h \in Nat /\ IsBody(text, h, c)
    BY <2>3, SectionEnds
  <2>5. Layout(text, Ini(text, u, w), u, w, h, c)
    BY <2>4, OldSection
  <2>. QED  BY <2>4, <2>5
<1>. QED  BY <1>1, <1>2

\* R has one section, from h to e, and in it what a run writes.
Settled(R, u, w, h, e) ==
  /\ R \in Seq(IniLine) /\ h \in Nat /\ e \in Nat /\ IsBody(R, h, e)
  /\ Filled(SubSeq(R, h + 1, e), u, w)
  /\ \A k \in Forced(u) : \E i \in (h + 1)..e :
       R[i] = Key(k, Required(k, w)) /\ \A j \in (h + 1)..e : R[j].key = k => j = i

LEMMA IniSettles ==
  ASSUME NEW text \in Seq(IniLine), NEW u \in BOOLEAN, NEW w, NEW R, NEW h \in Nat, NEW c \in Nat,
         Layout(text, R, u, w, h, c)
  PROVE  \E e \in Nat : Settled(R, u, w, h, e)
<1>1. PICK e \in Nat : R \in Seq(IniLine) /\ IsBody(R, h, e) /\ Filled(SubSeq(R, h + 1, e), u, w)
  <2>1. c + (Len(R) - Len(text)) \in Nat
    BY DEF Layout
  <2>. QED  BY <2>1 DEF Layout
<1>2. h \in 1..Len(R) /\ e \in h..Len(R) /\ Len(R) \in Nat
  BY <1>1 DEF IsBody
<1> DEFINE body == SubSeq(R, h + 1, e)
<1>3. Len(body) = e - h /\ \A i \in 1..(e - h) : body[i] = R[h + i]
  BY <1>1, <1>2
<1>4. ASSUME NEW k \in Forced(u)
      PROVE  \E i \in (h + 1)..e :
               R[i] = Key(k, Required(k, w)) /\ \A j \in (h + 1)..e : R[j].key = k => j = i
  <2>1. PICK i \in 1..Len(body) :
          body[i] = Key(k, Required(k, w)) /\ \A j \in 1..Len(body) : body[j].key = k => j = i
    BY <1>1 DEF Filled
  <2> HIDE DEF body
  <2>2. h + i \in (h + 1)..e /\ R[h + i] = Key(k, Required(k, w))
    BY <1>2, <1>3, <2>1
  <2>3. ASSUME NEW j \in (h + 1)..e, R[j].key = k PROVE j = h + i
    <3>1. j - h \in 1..Len(body) /\ h + (j - h) = j
      BY <1>2, <1>3
    <3>2. body[j - h] = R[j]
      BY <1>3, <3>1
    <3>3. j - h = i
      BY <2>1, <2>3, <3>1, <3>2
    <3>. QED  BY <1>2, <3>1, <3>3
  <2>. QED  BY <2>2, <2>3
<1>. QED  BY <1>1, <1>4 DEF Settled

\* The method of the text is the one that the run wrote.
LEMMA WaitWritten ==
  ASSUME NEW R, NEW u \in BOOLEAN, NEW w \in {"compute", "graphics"}, NEW h, NEW e, Settled(R, u, w, h, e)
  PROVE  SelectWait(R, "none") = w
<1>1. /\ R \in Seq(IniLine) /\ h \in Nat /\ e \in Nat /\ IsBody(R, h, e)
      /\ h \in 1..Len(R) /\ e \in h..Len(R) /\ Len(R) \in Nat
  BY DEF Settled, IsBody
<1>2. PICK i \in (h + 1)..e : R[i] = Key("spin", Required("spin", w))
                              /\ \A j \in (h + 1)..e : R[j].key = "spin" => j = i
  BY DEF Settled, Forced
<1>3. \A j \in 1..Len(R) : Active(R, j) <=> j \in (h + 1)..e
  BY <1>1, SectionFound
<1>4. Spins(R) = {i}
  <2>1. i \in Spins(R)
    BY <1>1, <1>2, <1>3 DEF Spins, Key
  <2>2. ASSUME NEW j \in Spins(R) PROVE j = i
    BY <1>1, <1>2, <1>3 DEF Spins
  <2>. QED  BY <2>1, <2>2
<1>5. (CHOOSE j \in Spins(R) : \A k \in Spins(R) : j <= k) = i
  BY <1>1, <1>2, <1>4
<1>6. R[i].val = IF w = "graphics" THEN 1 ELSE 0
  BY <1>2 DEF Key, Required
<1>. QED  BY <1>4, <1>5, <1>6 DEF SelectWait

\* A further run finds all as it writes it.
LEMMA RunAgain ==
  ASSUME NEW R, NEW u \in BOOLEAN, NEW w \in {"compute", "graphics"}, NEW h, NEW e, Settled(R, u, w, h, e)
  PROVE  ~Refused(R, TRUE, w) /\ Ini(R, TRUE, w) = R
<1> DEFINE body == SubSeq(R, h + 1, e)
<1>1. /\ R \in Seq(IniLine) /\ h \in Nat /\ e \in Nat /\ IsBody(R, h, e) /\ Filled(body, u, w)
      /\ h \in 1..Len(R) /\ e \in h..Len(R) /\ Len(R) \in Nat /\ Heads(R) = {h}
  BY DEF Settled, IsBody
<1>2. First(R) = h + 1 /\ Last_(R) = e
  BY <1>1, SectionFound
<1>3. body \in Seq(IniLine) /\ DOMAIN body = 1..Len(body) /\ Len(body) \in Nat
  BY <1>1
<1>4. Forced(TRUE) \subseteq Forced(u) /\ Written(TRUE) = Written(u)
  BY DEF Forced, Written
<1>5. ~Twice(body, Forced(TRUE))
  <2> HIDE DEF body
  <2>. QED  BY <1>1, <1>3, <1>4 DEF Twice, Filled
<1>6. ~Refused(R, TRUE, w)
  <2>1. Cardinality(Heads(R)) = 1
    BY <1>1, FS_Singleton
  <2>2. ~(Cardinality(Heads(R)) > 1) /\ w # "error"
    BY <2>1
  <2>. QED  BY <1>2, <1>5, <2>2 DEF Refused
<1>7. NewBody(body, TRUE, w) = body
  <2> HIDE DEF body
  <2>1. PICK s \in Seq(IniLine) :
          NewBody(body, TRUE, w) = KeptLines(body, TRUE, w) \o s /\ Completes(s, body, TRUE, w)
    BY <1>3, AddedAre
  <2>2. \A i \in 1..Len(s) : FALSE
    <3>1. ASSUME NEW i \in 1..Len(s) PROVE FALSE
      <4>1. s[i] \in Settings(w) /\ s[i].key \in Written(TRUE)
            /\ \A j \in 1..Len(body) : body[j].key # s[i].key
        BY <2>1 DEF Completes
      <4>. QED  BY <1>1, <1>4, <4>1 DEF Filled
    <3>. QED  BY <3>1
  <2>3. s = <<>>
    BY <2>2
  <2>4. KeptLines(body, TRUE, w) = body
    <3>1. ASSUME NEW i \in 1..Len(body), body[i].key \in Forced(TRUE)
          PROVE  body[i] = Key(body[i].key, Required(body[i].key, w))
      BY <1>1, <1>4, <3>1 DEF Filled
    <3>2. body = [i \in 1..Len(body) |-> body[i]]
      BY <1>3
    <3>. QED  BY <3>1, <3>2 DEF KeptLines
  <2>. QED  BY <1>3, <2>1, <2>3, <2>4, ConcatEmptySeq
<1>8. Ini(R, TRUE, w) = R
  <2> DEFINE a == SubSeq(R, 1, h)
             b == SubSeq(R, e + 1, Len(R))
  <2>1. Ini(R, TRUE, w) = SubSeq(R, 1, First(R) - 1)
                          \o NewBody(SubSeq(R, First(R), Last_(R)), TRUE, w)
                          \o SubSeq(R, Last_(R) + 1, Len(R))
    BY <1>1 DEF Ini
  <2>2. First(R) - 1 = h
    BY <1>1, <1>2
  <2>3. Ini(R, TRUE, w) = a \o body \o b
    BY <1>2, <1>7, <2>1, <2>2
  <2>0. 1 \in 1..(Len(R) + 1) /\ h \in 0..Len(R) /\ e \in 0..Len(R) /\ Len(R) \in e..Len(R) /\ 1 - 1 = 0
    BY <1>1
  <2>4. a \o body = SubSeq(R, 1, e)
    BY <1>1, <2>0, ConcatAdjacentSubSeq
  <2>5. SubSeq(R, 1, e) \o b = SubSeq(R, 1, Len(R))
    BY <1>1, <2>0, ConcatAdjacentSubSeq
  <2>6. SubSeq(R, 1, Len(R)) = R
    BY <1>1, SubSeqFull
  <2> HIDE DEF a, b, body
  <2>. QED  BY <2>3, <2>4, <2>5, <2>6
<1>. QED  BY <1>6, <1>8

-----------------------------------------------------------------------------
(* The properties of the settings. *)

LEMMA MandatoryIsForced ==
  ASSUME NEW u \in BOOLEAN
  PROVE  Mandatory(u) = Forced(u)
BY DEF Mandatory, Forced

\* A settled text has one section, and in it each required key once, with its value.
LEMMA SettledRequired ==
  ASSUME NEW R, NEW u \in BOOLEAN, NEW w, NEW h, NEW e, Settled(R, u, w, h, e)
  PROVE  /\ Cardinality(Heads(R)) = 1
         /\ \A k \in Mandatory(u) : Cardinality({i \in DOMAIN R : InBody(R, i) /\ R[i].key = k}) = 1
         /\ \A i \in DOMAIN R : InBody(R, i) /\ R[i].key \in Mandatory(u) \ {"spin"} => R[i].val = 1
<1>1. /\ R \in Seq(IniLine) /\ h \in Nat /\ e \in Nat /\ IsBody(R, h, e) /\ DOMAIN R = 1..Len(R)
      /\ h \in 1..Len(R) /\ e \in h..Len(R) /\ Len(R) \in Nat /\ Heads(R) = {h}
  BY DEF Settled, IsBody
<1>2. \A i : InBody(R, i) <=> i \in (h + 1)..e
  BY <1>1, SectionFound
<1>3. Cardinality(Heads(R)) = 1
  BY <1>1, FS_Singleton
<1>4. ASSUME NEW k \in Mandatory(u)
      PROVE  \E i \in (h + 1)..e :
               R[i] = Key(k, Required(k, w)) /\ \A j \in (h + 1)..e : R[j].key = k => j = i
  BY MandatoryIsForced DEF Settled
<1>5. ASSUME NEW k \in Mandatory(u)
      PROVE  Cardinality({i \in DOMAIN R : InBody(R, i) /\ R[i].key = k}) = 1
  <2>1. PICK i \in (h + 1)..e :
          R[i] = Key(k, Required(k, w)) /\ \A j \in (h + 1)..e : R[j].key = k => j = i
    BY <1>4
  <2>2. R[i].key = k /\ i \in DOMAIN R
    BY <1>1, <2>1 DEF Key
  <2>3. {j \in DOMAIN R : InBody(R, j) /\ R[j].key = k} = {i}
    BY <1>2, <2>1, <2>2
  <2>. QED  BY <2>3, FS_Singleton
<1>6. ASSUME NEW i \in DOMAIN R, InBody(R, i), R[i].key \in Mandatory(u) \ {"spin"}
      PROVE  R[i].val = 1
  <2>1. PICK j \in (h + 1)..e :
          /\ R[j] = Key(R[i].key, Required(R[i].key, w))
          /\ \A l \in (h + 1)..e : R[l].key = R[i].key => l = j
    BY <1>4, <1>6
  <2>2. i = j
    BY <1>2, <1>6, <2>1
  <2>. QED  BY <1>6, <2>1, <2>2 DEF Key, Required
<1>. QED  BY <1>3, <1>5, <1>6

\* what UserSettingsKept says of a text and what a run made of it
SettingsKept(text, R, u) ==
  \E d \in 0..Len(text) :
    LET n       == Len(R) - Len(text)
        own(i)  == Heads(text) # {} /\ InBody(text, i)
        mine(i) == own(i) /\ text[i].key \in Mandatory(u)
        now(i)  == R[IF i <= d THEN i ELSE i + n]
    IN /\ Len(text) <= Len(R)
       /\ \A i \in DOMAIN text :
            now(i).key = text[i].key /\ (~mine(i) => now(i) = text[i])
       /\ \A j \in (d + 1)..(d + n) :
            \/ Heads(text) = {} /\ R[j] = Header("NR")
            \/ InBody(R, j) /\ \A i \in DOMAIN text : own(i) => text[i].key # R[j].key

\* The layout keeps what is the user's.
LEMMA LayoutKeeps ==
  ASSUME NEW text \in Seq(IniLine), NEW R, NEW u \in BOOLEAN, NEW w, NEW h \in Nat, NEW c \in Nat,
         Layout(text, R, u, w, h, c)
  PROVE  SettingsKept(text, R, u)
<1> DEFINE n       == Len(R) - Len(text)
           own(i)  == Heads(text) # {} /\ InBody(text, i)
           mine(i) == own(i) /\ text[i].key \in Mandatory(u)
           now(i)  == R[IF i <= c THEN i ELSE i + n]
<1>1. /\ R \in Seq(IniLine) /\ n \in Nat /\ c \in 0..Len(text) /\ IsBody(R, h, c + n)
      /\ c + n \in Nat /\ Len(text) \in Nat /\ Len(R) \in Nat /\ DOMAIN text = 1..Len(text)
  BY DEF Layout
<1>2. Len(text) <= Len(R)
  BY <1>1
<1>3. \A i : InBody(R, i) <=> i \in (h + 1)..(c + n)
  <2> HIDE DEF n
  <2>. QED  BY <1>1, SectionFound
<1>4. ASSUME NEW i \in DOMAIN text
      PROVE  now(i).key = text[i].key /\ (~mine(i) => now(i) = text[i])
  <2>1. NowIs(text, i, now(i), u, w)
    <3>1. CASE i <= c
      <4>1. i \in 1..c
        BY <1>1, <3>1
      <4>2. NowIs(text, i, R[i], u, w)
        BY <4>1 DEF Layout
      <4>. QED  BY <3>1, <4>2
    <3>2. CASE ~(i <= c)
      <4>1. i \in (c + 1)..Len(text)
        BY <1>1, <3>2
      <4>2. NowIs(text, i, R[i + n], u, w)
        BY <4>1 DEF Layout
      <4>. QED  BY <3>2, <4>2
    <3>. QED  BY <3>1, <3>2
  <2> HIDE DEF now
  <2>2. now(i) = IF mine(i) THEN Key(text[i].key, Required(text[i].key, w)) ELSE text[i]
    BY <2>1, MandatoryIsForced DEF NowIs
  <2>. QED  BY <2>2 DEF Key
<1>5. ASSUME NEW j \in (c + 1)..(c + n)
      PROVE  \/ Heads(text) = {} /\ R[j] = Header("NR")
             \/ InBody(R, j) /\ \A i \in DOMAIN text : own(i) => text[i].key # R[j].key
  <2>1. \/ Heads(text) = {} /\ R[j] = Header("NR")
        \/ /\ j \in (h + 1)..(c + n)
           /\ \A i \in 1..Len(text) : own(i) => text[i].key # R[j].key
    BY DEF Layout
  <2>. QED  BY <1>1, <1>3, <2>1
<1>6. c \in 0..Len(text)
  BY <1>1
<1>. QED  BY <1>2, <1>4, <1>5, <1>6 DEF SettingsKept

\* What one run writes.
LEMMA RunWrites ==
  ASSUME TypeInv, NEW request \in Requests, InstallIni(request), Wrote'
  PROVE  /\ ini' = Ini(ini, installed, Wait(request)) /\ before' = ini /\ asked' = request
         /\ ran' = IF installed THEN "update" ELSE "install"
         /\ (ran' = "update") = installed
         /\ ~Refused(ini, installed, Wait(request))
         /\ Wait(request) \in {"compute", "graphics"}
         /\ Wait(request) = IF request # "none" THEN request
                            ELSE IF installed THEN SelectWait(ini, "none") ELSE "compute"
<1>1. ~Refused(ini, installed, Wait(request))
  BY DEF InstallIni, Wrote
<1>2. /\ ini' = Ini(ini, installed, Wait(request)) /\ before' = ini /\ asked' = request
      /\ ran' = IF installed THEN "update" ELSE "install"
  BY <1>1 DEF InstallIni
<1>3. (ran' = "update") = installed
  BY <1>2 DEF TypeInv
<1>4. \A text, r : SelectWait(text, r) \in {r, "compute", "graphics", "error"}
  BY DEF SelectWait
<1>5. Wait(request) # "error"
  BY <1>1 DEF Refused
<1>6. Wait(request) = IF request # "none" THEN request
                      ELSE IF installed THEN SelectWait(ini, "none") ELSE "compute"
  <2>1. CASE request # "none"
    BY <2>1 DEF Wait, SelectWait
  <2>2. CASE request = "none" /\ installed
    BY <2>2 DEF Wait
  <2>3. CASE request = "none" /\ ~installed
    <3>1. Spins(<<>>) = {}
      BY DEF Spins
    <3>. QED  BY <2>3, <3>1 DEF Wait, SelectWait
  <2>. QED  BY <2>1, <2>2, <2>3
<1>7. Wait(request) \in {"compute", "graphics"}
  <2>1. \A text : SelectWait(text, "none") \in {"compute", "graphics", "error"}
    BY DEF SelectWait
  <2>2. request \in {"none", "compute", "graphics"}
    BY DEF Requests
  <2>. QED  BY <1>5, <1>6, <2>1, <2>2
<1>. QED  BY <1>1, <1>2, <1>3, <1>6, <1>7

IniProperties ==
  RequiredSettingsHold /\ UserSettingsKept /\ WaitChoiceSurvives /\ UpdateIsIdempotent

\* A run that is not refused leaves all four as stated.
LEMMA RunKeepsPromises ==
  ASSUME TypeInv, NEW request \in Requests, InstallIni(request), Wrote'
  PROVE  IniProperties' /\ ini' \in Seq(IniLine)
<1> DEFINE u == installed
           w == Wait(request)
<1>1. /\ before' = ini /\ asked' = request /\ (ran' = "update") = u
      /\ ~Refused(ini, u, w) /\ w \in {"compute", "graphics"} /\ ini' = Ini(ini, u, w)
      /\ w = IF request # "none" THEN request
             ELSE IF u THEN SelectWait(ini, "none") ELSE "compute"
  BY RunWrites
<1>2. PICK R : R = Ini(ini, u, w)
  OBVIOUS
<1>3. u \in BOOLEAN /\ ini \in Seq(IniLine) /\ ini' = R
  BY <1>1, <1>2 DEF TypeInv
<1> HIDE DEF u, w
<1>4. PICK h, c \in Nat : Layout(ini, R, u, w, h, c)
  BY <1>1, <1>2, <1>3, IniLayout
<1>5. PICK e \in Nat : Settled(R, u, w, h, e)
  BY <1>3, <1>4, IniSettles
<1>6. RequiredSettingsHold'
  <2>1. /\ Cardinality(Heads(R)) = 1
        /\ \A k \in Mandatory(u) : Cardinality({i \in DOMAIN R : InBody(R, i) /\ R[i].key = k}) = 1
        /\ \A i \in DOMAIN R : InBody(R, i) /\ R[i].key \in Mandatory(u) \ {"spin"} => R[i].val = 1
    BY <1>3, <1>5, SettledRequired
  <2>. QED  BY <1>1, <1>3, <2>1 DEF RequiredSettingsHold
<1>7. UserSettingsKept'
  <2>1. SettingsKept(ini, R, u)
    BY <1>3, <1>4, LayoutKeeps
  <2>2. SettingsKept(before', ini', ran' = "update")
    BY <1>1, <1>3, <2>1
  <2>. QED  BY <2>2 DEF UserSettingsKept, SettingsKept
<1>8. SelectWait(R, "none") = w
  BY <1>1, <1>3, <1>5, WaitWritten
<1>9. WaitChoiceSurvives'
  BY <1>1, <1>3, <1>8 DEF WaitChoiceSurvives
<1>10. UpdateIsIdempotent'
  <2>1. ~Refused(R, TRUE, w) /\ Ini(R, TRUE, w) = R
    BY <1>1, <1>3, <1>5, RunAgain
  <2>. QED  BY <1>3, <1>8, <2>1 DEF UpdateIsIdempotent
<1>11. R \in Seq(IniLine)
  BY <1>5 DEF Settled
<1>. QED  BY <1>3, <1>6, <1>7, <1>9, <1>10, <1>11 DEF IniProperties

-----------------------------------------------------------------------------
(* The launch line. *)

\* the launcher at k and %command% at c are where Steam and the next run look for them
LineOf(l, opt, k, c) ==
  /\ l \in Seq(Tokens) /\ c \in 1..Len(l) /\ k \in 1..Len(l) /\ k < c
  /\ Places(l, "cmd") = {c} /\ l[k] = Launcher(opt) /\ Places(l, "unquoted") = {}
  /\ \A i \in 1..c : l[i] \in Managed => i = k

\* the tokens of a, moved up by up, make b together with what is the installer's
MovedBy(a, b, up) ==
  /\ up \in [DOMAIN a -> 0..(Len(b) - Len(a))]
  /\ \A i, j \in DOMAIN a : i < j => up[i] <= up[j]
  /\ \A i \in DOMAIN a :
       LET now == b[i + up[i]]
       IN now = a[i] \/ {now, a[i]} \subseteq Managed
  /\ \A j \in DOMAIN b :
       b[j] \in Managed \cup {"cmd"} \/ \E i \in DOMAIN a : j = i + up[i]

Moved(a, b) == \E up : MovedBy(a, b, up)

LEMMA LauncherIs ==
  ASSUME NEW opt \in BOOLEAN
  PROVE  Launcher(opt) \in Managed /\ Launcher(opt) \in Tokens /\ Managed \subseteq Tokens
         /\ "cmd" \notin Managed /\ "unquoted" \notin Managed /\ "cmd" \in Tokens
BY DEF Launcher, Managed, Tokens

\* The next run accepts such a line and prints it again.
LEMMA LineStays ==
  ASSUME NEW l, NEW opt \in BOOLEAN, NEW k, NEW c, LineOf(l, opt, k, c)
  PROVE  /\ Cardinality(Places(l, "cmd")) = 1
         /\ k \in DOMAIN l /\ l[k] = Launcher(opt)
         /\ \A d \in Places(l, "cmd") : {i \in 1..d : l[i] \in Managed} = {k}
         /\ Normalised(l) = l /\ ~Unmergeable(l, opt) /\ Merge(l, opt) = l
<1>1. /\ l \in Seq(Tokens) /\ Len(l) \in Nat /\ DOMAIN l = 1..Len(l) /\ c \in 1..Len(l)
      /\ k \in 1..Len(l) /\ k < c /\ Places(l, "cmd") = {c} /\ l[k] = Launcher(opt)
      /\ Places(l, "unquoted") = {} /\ \A i \in 1..c : l[i] \in Managed => i = k
  BY DEF LineOf
<1>2. Cardinality(Places(l, "cmd")) = 1
  BY <1>1, FS_Singleton
<1>3. {i \in 1..c : l[i] \in Managed} = {k}
  BY <1>1, LauncherIs
<1>4. Known(l, opt) = {k}
  <2>1. Known(l, opt) = {i \in 1..Len(l) : l[i] \in Managed /\ i < c}
    BY <1>1 DEF Known
  <2>2. l[k] \in Managed
    BY <1>1, LauncherIs
  <2>3. ASSUME NEW i \in 1..Len(l), l[i] \in Managed, i < c PROVE i = k
    <3>1. i \in 1..c
      BY <1>1, <2>3
    <3>. QED  BY <1>1, <2>3, <3>1
  <2>. QED  BY <1>1, <2>1, <2>2, <2>3
<1>5. Normalised(l) = l
  BY <1>1 DEF Normalised
<1>6. ~Unmergeable(l, opt)
  <2>1. Cardinality({k}) = 1
    BY FS_Singleton
  <2>. QED  BY <1>1, <1>2, <1>4, <2>1 DEF Unmergeable
<1>7. Merge(l, opt) = l
  <2>1. l # <<>> /\ Known(l, opt) # {}
    BY <1>1, <1>4
  <2>2. Merge(l, opt) = [i \in DOMAIN l |-> IF i \in Known(l, opt) THEN Launcher(opt) ELSE l[i]]
    BY <2>1 DEF Merge
  <2>3. [i \in DOMAIN l |-> IF i \in Known(l, opt) THEN Launcher(opt) ELSE l[i]] = [i \in DOMAIN l |-> l[i]]
    BY <1>1, <1>4
  <2>4. l = [i \in DOMAIN l |-> l[i]]
    BY <1>1
  <2>. QED  BY <2>2, <2>3, <2>4
<1>. QED  BY <1>1, <1>2, <1>3, <1>5, <1>6, <1>7

\* Sums keep the order.
LEMMA SumsInOrder ==
  ASSUME NEW i \in Int, NEW j \in Int, NEW x \in Int, NEW y \in Int, x <= y
  PROVE  (i < j => i + x < j + y) /\ (i <= j => i + x <= j + y)
OBVIOUS

\* Tokens that were moved up twice were moved up.
LEMMA MovedTwice ==
  ASSUME NEW a \in Seq(Tokens), NEW b \in Seq(Tokens), NEW d \in Seq(Tokens), Moved(a, b), Moved(b, d)
  PROVE  Moved(a, d)
<1>1. PICK p : MovedBy(a, b, p)
  BY DEF Moved
<1>2. PICK q : MovedBy(b, d, q)
  BY DEF Moved
<1>3. /\ DOMAIN a = 1..Len(a) /\ DOMAIN b = 1..Len(b) /\ DOMAIN d = 1..Len(d)
      /\ Len(a) \in Nat /\ Len(b) \in Nat /\ Len(d) \in Nat
  OBVIOUS
<1> DEFINE up == [i \in DOMAIN a |-> p[i] + q[i + p[i]]]
<1>4. ASSUME NEW i \in DOMAIN a
      PROVE  /\ p[i] \in Nat /\ p[i] <= Len(b) - Len(a) /\ i + p[i] \in DOMAIN b
             /\ q[i + p[i]] \in Nat /\ q[i + p[i]] <= Len(d) - Len(b)
             /\ up[i] \in 0..(Len(d) - Len(a)) /\ i + up[i] = (i + p[i]) + q[i + p[i]]
  <2>1. p[i] \in 0..(Len(b) - Len(a))
    BY <1>1 DEF MovedBy
  <2>2. i + p[i] \in DOMAIN b
    BY <1>3, <2>1
  <2>3. q[i + p[i]] \in 0..(Len(d) - Len(b))
    BY <1>2, <2>2 DEF MovedBy
  <2>. QED  BY <1>3, <2>1, <2>2, <2>3
<1>5. up \in [DOMAIN a -> 0..(Len(d) - Len(a))]
  BY <1>4
<1>6. ASSUME NEW i \in DOMAIN a, NEW j \in DOMAIN a, i < j PROVE up[i] <= up[j]
  <2>1. p[i] <= p[j]
    BY <1>1, <1>6 DEF MovedBy
  <2>2. i + p[i] < j + p[j]
    <3>1. i \in Int /\ j \in Int
      BY <1>3
    <3>2. p[i] \in Int /\ p[j] \in Int
      BY <1>4
    <3>. QED  BY <1>6, <2>1, <3>1, <3>2, SumsInOrder
  <2>3. q[i + p[i]] <= q[j + p[j]]
    BY <1>2, <1>4, <2>2 DEF MovedBy
  <2>4. /\ p[i] \in Nat /\ p[j] \in Nat /\ q[i + p[i]] \in Nat /\ q[j + p[j]] \in Nat
        /\ up[i] = p[i] + q[i + p[i]] /\ up[j] = p[j] + q[j + p[j]]
    BY <1>4
  <2> HIDE DEF up
  <2>5. p[i] + q[i + p[i]] <= p[j] + q[j + p[j]]
    <3>1. /\ p[i] \in Int /\ p[j] \in Int /\ q[i + p[i]] \in Int /\ q[j + p[j]] \in Int
      BY <2>4
    <3>. QED  BY <2>1, <2>3, <3>1, SumsInOrder
  <2>. QED  BY <2>4, <2>5
<1>7. ASSUME NEW i \in DOMAIN a
      PROVE  d[i + up[i]] = a[i] \/ {d[i + up[i]], a[i]} \subseteq Managed
  <2>1. b[i + p[i]] = a[i] \/ {b[i + p[i]], a[i]} \subseteq Managed
    BY <1>1 DEF MovedBy
  <2>2. \/ d[(i + p[i]) + q[i + p[i]]] = b[i + p[i]]
        \/ {d[(i + p[i]) + q[i + p[i]]], b[i + p[i]]} \subseteq Managed
    BY <1>2, <1>4 DEF MovedBy
  <2>3. i + up[i] = (i + p[i]) + q[i + p[i]]
    BY <1>4
  <2> HIDE DEF up
  <2>. QED  BY <2>1, <2>2, <2>3
<1>8. ASSUME NEW j \in DOMAIN d
      PROVE  d[j] \in Managed \cup {"cmd"} \/ \E i \in DOMAIN a : j = i + up[i]
  <2>1. CASE d[j] \in Managed \cup {"cmd"}
    BY <2>1
  <2>2. CASE d[j] \notin Managed \cup {"cmd"}
    <3>1. PICK l \in DOMAIN b : j = l + q[l]
      BY <1>2, <2>2 DEF MovedBy
    <3>2. d[j] = b[l]
      BY <1>2, <2>2, <3>1 DEF MovedBy
    <3>3. PICK i \in DOMAIN a : l = i + p[i]
      BY <1>1, <2>2, <3>2 DEF MovedBy
    <3>4. j = i + up[i]
      BY <1>4, <3>1, <3>3
    <3>. QED  BY <3>4
  <2>. QED  BY <2>1, <2>2
<1>9. MovedBy(a, d, up)
  <2> HIDE DEF up
  <2>. QED  BY <1>5, <1>6, <1>7, <1>8 DEF MovedBy
<1>. QED  BY <1>9 DEF Moved

\* %command% before arguments.
LEMMA NormalisedIs ==
  ASSUME NEW text \in Seq(Tokens)
  PROVE  /\ Normalised(text) \in Seq(Tokens) /\ Moved(text, Normalised(text))
         /\ Normalised(text) = <<>> <=> text = <<>>
<1> DEFINE l == <<"cmd">> \o text
<1>0. DOMAIN text = 1..Len(text) /\ Len(text) \in Nat
  OBVIOUS
<1>1. /\ l \in Seq(Tokens) /\ Len(l) = Len(text) + 1 /\ DOMAIN l = 1..(Len(text) + 1)
      /\ l[1] = "cmd" /\ \A i \in 1..Len(text) : l[i + 1] = text[i]
  BY DEF Tokens
<1>2. Moved(text, text)
  <2> DEFINE up == [i \in DOMAIN text |-> 0]
  <2>1. up \in [DOMAIN text -> 0..(Len(text) - Len(text))]
    BY <1>0
  <2>2. \A i \in DOMAIN text : up[i] = 0 /\ i + up[i] = i
    BY <1>0
  <2> HIDE DEF up
  <2>3. MovedBy(text, text, up)
    BY <2>1, <2>2 DEF MovedBy
  <2>. QED  BY <2>3 DEF Moved
<1>3. Moved(text, l)
  <2> HIDE DEF l
  <2> DEFINE up == [i \in DOMAIN text |-> 1]
  <2>1. up \in [DOMAIN text -> 0..(Len(l) - Len(text))]
    BY <1>0, <1>1
  <2>2. \A i \in DOMAIN text : up[i] = 1 /\ l[i + 1] = text[i]
    BY <1>0, <1>1
  <2> HIDE DEF up
  <2>3. \A j \in DOMAIN l : l[j] = "cmd" \/ \E i \in DOMAIN text : j = i + up[i]
    <3>1. ASSUME NEW j \in DOMAIN l, l[j] # "cmd" PROVE \E i \in DOMAIN text : j = i + up[i]
      <4>1. j - 1 \in DOMAIN text /\ j = (j - 1) + 1
        BY <1>0, <1>1, <3>1
      <4>. QED  BY <2>2, <4>1
    <3>. QED  BY <3>1
  <2>4. MovedBy(text, l, up)
    BY <2>1, <2>2, <2>3 DEF MovedBy
  <2>. QED  BY <2>4 DEF Moved
<1>4. l # <<>>
  BY <1>1
<1> HIDE DEF l
<1>. QED  BY <1>1, <1>2, <1>3, <1>4 DEF Normalised, l

\* An empty field gets the launcher and %command%.
LEMMA MergeEmpty ==
  ASSUME NEW opt \in BOOLEAN
  PROVE  LET l == Merge(<<>>, opt) IN LineOf(l, opt, 1, 2) /\ Moved(<<>>, l)
<1> DEFINE l == <<Launcher(opt), "cmd">>
<1>1. Merge(<<>>, opt) = l
  BY DEF Merge
<1>2. /\ l \in Seq(Tokens) /\ Len(l) = 2 /\ DOMAIN l = 1..2
      /\ l[1] = Launcher(opt) /\ l[2] = "cmd"
  BY LauncherIs
<1> HIDE DEF l
<1>3. 1..2 = {1, 2}
  OBVIOUS
<1>4. Launcher(opt) # "cmd" /\ Launcher(opt) # "unquoted" /\ "cmd" # "unquoted"
  BY LauncherIs
<1>5. Places(l, "cmd") = {2} /\ Places(l, "unquoted") = {}
  BY <1>2, <1>3, <1>4 DEF Places
<1>6. LineOf(l, opt, 1, 2)
  BY <1>2, <1>3, <1>5, LauncherIs DEF LineOf
<1>7. Moved(<<>>, l)
  <2> DEFINE up == [i \in {} |-> 0]
  <2>1. DOMAIN <<>> = {}
    OBVIOUS
  <2>2. up \in [DOMAIN <<>> -> 0..(Len(l) - Len(<<>>))]
    BY <2>1
  <2>3. \A j \in DOMAIN l : l[j] \in Managed \cup {"cmd"}
    BY <1>2, <1>3, LauncherIs
  <2> HIDE DEF up
  <2>4. MovedBy(<<>>, l, up)
    BY <2>1, <2>2, <2>3 DEF MovedBy
  <2>. QED  BY <2>4 DEF Moved
<1>. QED  BY <1>1, <1>6, <1>7

\* A launcher that is there is replaced.
LEMMA MergeReplaces ==
  ASSUME NEW text \in Seq(Tokens), NEW opt \in BOOLEAN, ~Unmergeable(text, opt), Known(text, opt) # {}
  PROVE  \E k, c : LineOf(Merge(text, opt), opt, k, c) /\ Moved(text, Merge(text, opt))
<1> DEFINE l == [i \in DOMAIN text |-> IF i \in Known(text, opt) THEN Launcher(opt) ELSE text[i]]
<1>1. DOMAIN text = 1..Len(text) /\ Len(text) \in Nat
  OBVIOUS
<1>2. PICK c \in 1..Len(text) : Places(text, "cmd") = {c}
  <2>1. Places(text, "cmd") \in SUBSET (1..Len(text)) /\ Cardinality(Places(text, "cmd")) = 1
    BY <1>1 DEF Places, Unmergeable
  <2>. QED  BY <1>1, <2>1, OnePlace
<1>3. PICK k \in 1..Len(text) : Known(text, opt) = {k}
  <2>1. Known(text, opt) \in SUBSET (1..Len(text)) /\ ~(Cardinality(Known(text, opt)) > 1)
    BY <1>1 DEF Known, Unmergeable
  <2>. QED  BY <1>1, <2>1, OnePlace
<1>4. /\ k < c /\ text[k] \in Managed /\ text[c] = "cmd" /\ Places(text, "unquoted") = {}
      /\ \A i \in 1..Len(text) : text[i] \in Managed /\ i < c => i = k
      /\ \A i \in 1..Len(text) : text[i] = "cmd" => i = c
      /\ \A i \in 1..Len(text) : text[i] # "unquoted"
  BY <1>1, <1>2, <1>3 DEF Places, Known, Unmergeable
<1>5. Merge(text, opt) = l
  <2>1. text # <<>>
    BY <1>1, <1>2
  <2>. QED  BY <2>1 DEF Merge
<1>6. /\ l \in Seq(Tokens) /\ Len(l) = Len(text) /\ DOMAIN l = 1..Len(text)
      /\ l[k] = Launcher(opt)
      /\ \A i \in 1..Len(text) : i # k => l[i] = text[i]
  BY <1>1, <1>3, LauncherIs
<1> HIDE DEF l
<1>7. k # c /\ Launcher(opt) # "cmd" /\ Launcher(opt) # "unquoted"
  BY <1>1, <1>4, LauncherIs
<1>8. Places(l, "cmd") = {c} /\ Places(l, "unquoted") = {}
  BY <1>2, <1>4, <1>6, <1>7 DEF Places
<1>9. LineOf(l, opt, k, c)
  <2>1. ASSUME NEW i \in 1..c, l[i] \in Managed PROVE i = k
    <3>1. CASE i = c
      BY <1>4, <1>6, <1>7, <2>1, <3>1, LauncherIs
    <3>2. CASE i # c
      BY <1>1, <1>2, <1>4, <1>6, <2>1, <3>2
    <3>. QED  BY <3>1, <3>2
  <2>. QED  BY <1>2, <1>3, <1>4, <1>6, <1>8, <2>1 DEF LineOf
<1>10. Moved(text, l)
  <2> DEFINE up == [i \in DOMAIN text |-> 0]
  <2>1. up \in [DOMAIN text -> 0..(Len(l) - Len(text))]
    BY <1>1, <1>6
  <2>2. \A i \in DOMAIN text : up[i] = 0 /\ i + up[i] = i
    BY <1>1
  <2>3. \A i \in DOMAIN text : l[i] = text[i] \/ {l[i], text[i]} \subseteq Managed
    BY <1>1, <1>4, <1>6, LauncherIs
  <2> HIDE DEF up
  <2>4. MovedBy(text, l, up)
    BY <1>1, <1>6, <2>1, <2>2, <2>3 DEF MovedBy
  <2>. QED  BY <2>4 DEF Moved
<1>. QED  BY <1>5, <1>9, <1>10

\* Where none is, it is put before %command%.
LEMMA MergeInserts ==
  ASSUME NEW text \in Seq(Tokens), NEW opt \in BOOLEAN, text # <<>>, ~Unmergeable(text, opt),
         Known(text, opt) = {}
  PROVE  \E k, c : LineOf(Merge(text, opt), opt, k, c) /\ Moved(text, Merge(text, opt))
<1>1. DOMAIN text = 1..Len(text) /\ Len(text) \in Nat
  OBVIOUS
<1>2. PICK c \in 1..Len(text) : Places(text, "cmd") = {c}
  <2>1. Places(text, "cmd") \in SUBSET (1..Len(text)) /\ Cardinality(Places(text, "cmd")) = 1
    BY <1>1 DEF Places, Unmergeable
  <2>. QED  BY <1>1, <2>1, OnePlace
<1>4. /\ text[c] = "cmd"
      /\ \A i \in 1..Len(text) : i < c => text[i] \notin Managed
      /\ \A i \in 1..Len(text) : text[i] = "cmd" => i = c
      /\ \A i \in 1..Len(text) : text[i] # "unquoted"
  BY <1>1, <1>2 DEF Places, Known, Unmergeable
<1> DEFINE a == SubSeq(text, 1, c - 1)
           m == <<Launcher(opt)>>
           b == SubSeq(text, c, Len(text))
           l == a \o m \o b
<1>5. Merge(text, opt) = l
  <2>1. (CHOOSE i \in DOMAIN text : text[i] = "cmd") = c
    BY <1>1, <1>4
  <2>2. Merge(text, opt) = InsertAt(text, CHOOSE i \in DOMAIN text : text[i] = "cmd", Launcher(opt))
    BY DEF Merge
  <2>. QED  BY <2>1, <2>2 DEF InsertAt
<1>6. /\ a \in Seq(Tokens) /\ Len(a) = c - 1 /\ \A i \in 1..(c - 1) : a[i] = text[i]
  <2>1. c - 1 \in 0..Len(text)
    BY <1>1, <1>2
  <2>. QED  BY <1>1, <1>2, <2>1
<1>7. m \in Seq(Tokens) /\ Len(m) = 1 /\ m[1] = Launcher(opt)
  BY LauncherIs
<1>8. /\ b \in Seq(Tokens) /\ Len(b) = Len(text) - c + 1
      /\ \A i \in 1..(Len(text) - c + 1) : b[i] = text[c - 1 + i]
  BY <1>1, <1>2
<1> HIDE DEF a, m, b
<1>9. l \in Seq(Tokens) /\ Parts(l, a, m, b)
  BY <1>6, <1>7, <1>8, Between
<1> HIDE DEF l
<1>10. /\ Len(l) = Len(text) + 1 /\ DOMAIN l = 1..(Len(text) + 1)
       /\ \A i \in 1..(c - 1) : l[i] = text[i]
       /\ l[c] = Launcher(opt)
       /\ \A i \in (c + 1)..(Len(text) + 1) : l[i] = text[i - 1]
  <2>1. Len(l) = Len(text) + 1 /\ DOMAIN l = 1..(Len(text) + 1)
    BY <1>1, <1>2, <1>6, <1>7, <1>8, <1>9 DEF Parts
  <2>2. \A i \in 1..(c - 1) : l[i] = text[i]
    BY <1>1, <1>2, <1>6, <1>9 DEF Parts
  <2>3. l[c] = Launcher(opt)
    <3>1. c \in (c - 1 + 1)..(c - 1 + 1) /\ c - (c - 1) = 1
      BY <1>1, <1>2
    <3>. QED  BY <1>1, <1>2, <1>6, <1>7, <1>9, <3>1 DEF Parts
  <2>4. ASSUME NEW i \in (c + 1)..(Len(text) + 1) PROVE l[i] = text[i - 1]
    <3>1. i \in (c - 1 + 1 + 1)..Len(l) /\ c - 1 + (i - (c - 1 + 1)) = i - 1
          /\ i - (c - 1 + 1) \in 1..(Len(text) - c + 1)
      BY <1>1, <1>2, <2>1
    <3>2. l[i] = b[i - (c - 1 + 1)]
      BY <1>6, <1>7, <1>9, <3>1 DEF Parts
    <3>. QED  BY <1>8, <3>1, <3>2
  <2>. QED  BY <2>1, <2>2, <2>3, <2>4
<1>11. Launcher(opt) # "cmd" /\ Launcher(opt) # "unquoted" /\ Launcher(opt) \in Managed
  BY LauncherIs
<1>12. \A i \in DOMAIN l : \/ i \in 1..(c - 1) \/ i = c
                           \/ i \in (c + 1)..(Len(text) + 1) /\ i - 1 \in c..Len(text)
  BY <1>1, <1>2, <1>10
<1>13. l[c + 1] = "cmd" /\ c + 1 \in DOMAIN l
  <2>1. c + 1 \in (c + 1)..(Len(text) + 1) /\ c + 1 - 1 = c
    BY <1>1, <1>2
  <2>. QED  BY <1>1, <1>2, <1>4, <1>10, <2>1
<1>14. Places(l, "cmd") = {c + 1} /\ Places(l, "unquoted") = {}
  <2>1. ASSUME NEW i \in DOMAIN l PROVE l[i] # "unquoted" /\ (l[i] = "cmd" => i = c + 1)
    <3>1. CASE i \in 1..(c - 1)
      BY <1>1, <1>2, <1>4, <1>10, <3>1
    <3>2. CASE i = c
      BY <1>10, <1>11, <3>2
    <3>3. CASE i \in (c + 1)..(Len(text) + 1) /\ i - 1 \in c..Len(text)
      BY <1>1, <1>2, <1>4, <1>10, <3>3
    <3>. QED  BY <1>12, <3>1, <3>2, <3>3
  <2>. QED  BY <1>13, <2>1 DEF Places
<1>15. LineOf(l, opt, c, c + 1)
  <2>1. ASSUME NEW i \in 1..(c + 1), l[i] \in Managed PROVE i = c
    <3>1. CASE i \in 1..(c - 1)
      BY <1>1, <1>2, <1>4, <1>10, <2>1, <3>1
    <3>2. i # c + 1
      BY <1>13, <2>1, LauncherIs
    <3>. QED  BY <1>2, <3>1, <3>2
  <2>. QED  BY <1>1, <1>2, <1>9, <1>10, <1>14, <2>1 DEF LineOf
<1>16. Moved(text, l)
  <2> DEFINE up == [i \in DOMAIN text |-> IF i < c THEN 0 ELSE 1]
  <2>1. up \in [DOMAIN text -> 0..(Len(l) - Len(text))]
    BY <1>1, <1>10
  <2>2. \A i, j \in DOMAIN text : i < j => up[i] <= up[j]
    BY <1>1, <1>2
  <2>3. ASSUME NEW i \in DOMAIN text PROVE l[i + up[i]] = text[i]
    <3>1. CASE i < c
      BY <1>1, <1>2, <1>10, <3>1
    <3>2. CASE ~(i < c)
      <4>1. i + 1 \in (c + 1)..(Len(text) + 1) /\ i + 1 - 1 = i /\ up[i] = 1
        BY <1>1, <1>2, <3>2
      <4>. QED  BY <1>10, <4>1
    <3>. QED  BY <3>1, <3>2
  <2>4. ASSUME NEW j \in DOMAIN l
        PROVE  l[j] \in Managed \/ \E i \in DOMAIN text : j = i + up[i]
    <3>1. CASE j \in 1..(c - 1)
      <4>1. j \in DOMAIN text /\ j + up[j] = j
        BY <1>1, <1>2, <3>1
      <4>. QED  BY <4>1
    <3>2. CASE j = c
      BY <1>10, <1>11, <3>2
    <3>3. CASE j \in (c + 1)..(Len(text) + 1) /\ j - 1 \in c..Len(text)
      <4>1. j - 1 \in DOMAIN text /\ (j - 1) + up[j - 1] = j
        BY <1>1, <1>2, <3>3
      <4>. QED  BY <4>1
    <3>. QED  BY <1>12, <3>1, <3>2, <3>3
  <2> HIDE DEF up
  <2>5. MovedBy(text, l, up)
    BY <2>1, <2>2, <2>3, <2>4 DEF MovedBy
  <2>. QED  BY <2>5 DEF Moved
<1>. QED  BY <1>5, <1>15, <1>16

\* What a run prints.
LEMMA MergedLine ==
  ASSUME NEW before0 \in Seq(Tokens), NEW opt \in BOOLEAN,
         LET text == Normalised(before0) IN ~(text # <<>> /\ Unmergeable(text, opt))
  PROVE  LET l == Merge(Normalised(before0), opt)
         IN l \in Seq(Tokens) /\ Moved(before0, l) /\ \E k, c : LineOf(l, opt, k, c)
<1> DEFINE text == Normalised(before0)
           l    == Merge(text, opt)
<1>1. text \in Seq(Tokens) /\ Moved(before0, text)
  BY NormalisedIs
<1> HIDE DEF text
<1>2. \E k, c : LineOf(l, opt, k, c) /\ Moved(text, l)
  <2>1. CASE text = <<>>
    BY <2>1, MergeEmpty
  <2>2. CASE text # <<>> /\ Known(text, opt) # {}
    BY <1>1, <2>2, MergeReplaces DEF text
  <2>3. CASE text # <<>> /\ Known(text, opt) = {}
    BY <1>1, <2>3, MergeInserts DEF text
  <2>. QED  BY <2>1, <2>2, <2>3
<1>3. l \in Seq(Tokens)
  BY <1>2 DEF LineOf
<1>4. Moved(before0, l)
  <2> HIDE DEF l
  <2>. QED  BY <1>1, <1>2, <1>3, MovedTwice
<1>. QED  BY <1>2, <1>3, <1>4 DEF text

\* What a run prints keeps the line's promise.
LEMMA MergeKeepsPromise ==
  ASSUME TypeInv, NEW opt \in BOOLEAN, MergeLine(opt), ran' = "line"
  PROVE  LineKeepsTheUsers' /\ line' \in Seq(Tokens)
<1>1. /\ before' = line /\ optimized' = opt /\ line \in Seq(Tokens)
      /\ LET text == Normalised(line) IN ~(text # <<>> /\ Unmergeable(text, opt))
      /\ line' = Merge(Normalised(line), opt)
  BY DEF MergeLine, TypeInv
<1>2. PICK l : l = Merge(Normalised(line), opt)
  OBVIOUS
<1>3. l \in Seq(Tokens) /\ Moved(line, l) /\ \E k, c : LineOf(l, opt, k, c)
  BY <1>1, <1>2, MergedLine
<1>4. PICK k, c : LineOf(l, opt, k, c)
  BY <1>3
<1>5. /\ Cardinality(Places(l, "cmd")) = 1
      /\ k \in DOMAIN l /\ l[k] = Launcher(opt)
      /\ \A d \in Places(l, "cmd") : {i \in 1..d : l[i] \in Managed} = {k}
      /\ Normalised(l) = l /\ ~Unmergeable(l, opt) /\ Merge(l, opt) = l
  BY <1>4, LineStays
<1>6. PICK up : MovedBy(line, l, up)
  BY <1>3 DEF Moved
<1>7. line' = l /\ before' = line /\ optimized' = opt
  BY <1>1, <1>2
<1>8. \E u \in [DOMAIN line -> 0..(Len(l) - Len(line))] :
        /\ \A i, j \in DOMAIN line : i < j => u[i] <= u[j]
        /\ \A i \in DOMAIN line :
             LET now == l[i + u[i]]
             IN now = line[i] \/ {now, line[i]} \subseteq Managed
        /\ \A j \in DOMAIN l :
             l[j] \in Managed \cup {"cmd"} \/ \E i \in DOMAIN line : j = i + u[i]
  BY <1>6 DEF MovedBy
<1>9. LineKeepsTheUsers'
  BY <1>5, <1>7, <1>8 DEF LineKeepsTheUsers
<1>. QED  BY <1>3, <1>7, <1>9

-----------------------------------------------------------------------------
(* The theorems. *)

UserTextInv ==
  /\ TypeInv
  /\ RequiredSettingsHold /\ UserSettingsKept /\ WaitChoiceSurvives /\ UpdateIsIdempotent
  /\ LineKeepsTheUsers

\* A bounded first text is a text.
LEMMA UpToIsSeq ==
  ASSUME NEW S, NEW n \in Nat
  PROVE  UpTo(S, n) \subseteq Seq(S)
<1>1. ASSUME NEW k \in 0..n PROVE [1..k -> S] \subseteq Seq(S)
  <2>1. k \in Nat
    OBVIOUS
  <2>. QED  BY <2>1, SeqDef
<1>. QED  BY <1>1 DEF UpTo

LEMMA UserTextInit == Init => UserTextInv
<1>. SUFFICES ASSUME Init PROVE UserTextInv
  OBVIOUS
<1>1. Lines \subseteq IniLine
  BY DEF Lines, IniLine, Keys, Sections, Header, Key
<1>2. UpTo(Lines, MaxLines) \subseteq Seq(Lines) /\ UpTo(Tokens, MaxTokens) \subseteq Seq(Tokens)
  BY UpToIsSeq, BoundsAssumption
<1>3. \A s \in Seq(Lines) : s \in Seq(IniLine)
  BY <1>1, SeqMonotonic
<1>4. TypeInv
  <2>1. <<>> \in Seq(IniLine) /\ <<>> \in Seq(Tokens)
    OBVIOUS
  <2>. QED  BY <1>2, <1>3, <2>1 DEF Init, TypeInv
<1>5. ~Wrote /\ ran # "line"
  BY DEF Init, Wrote
<1>. QED  BY <1>4, <1>5 DEF UserTextInv, RequiredSettingsHold, UserSettingsKept, WaitChoiceSurvives,
                        UpdateIsIdempotent, LineKeepsTheUsers

LEMMA UserTextStep == UserTextInv /\ [Next]_vars => UserTextInv'
<1>. SUFFICES ASSUME UserTextInv, [Next]_vars PROVE UserTextInv'
  OBVIOUS
<1>0. TypeInv
  BY DEF UserTextInv
<1>1. ASSUME ~Wrote', ran' # "line", TypeInv' PROVE UserTextInv'
  BY <1>1 DEF UserTextInv, RequiredSettingsHold, UserSettingsKept, WaitChoiceSurvives,
              UpdateIsIdempotent, LineKeepsTheUsers
<1>2. ASSUME NEW request \in Requests, InstallIni(request) PROVE UserTextInv'
  <2>1. line' = line /\ optimized' = optimized /\ ran' # "line"
    BY <1>2 DEF InstallIni
  <2>2. CASE Wrote'
    <3>1. IniProperties' /\ ini' \in Seq(IniLine)
      BY <1>0, <1>2, <2>2, RunKeepsPromises
    <3>2. installed' = TRUE
      BY <1>2, <2>2 DEF InstallIni, Wrote
    <3>3. TypeInv'
      BY <1>0, <2>1, <3>1, <3>2 DEF TypeInv
    <3>4. LineKeepsTheUsers'
      BY <2>1 DEF LineKeepsTheUsers
    <3>. QED  BY <3>1, <3>3, <3>4 DEF UserTextInv, IniProperties
  <2>3. CASE ~Wrote'
    <3>1. ini' = ini /\ installed' = installed
      BY <1>0, <1>2, <2>3 DEF InstallIni, Wrote, TypeInv
    <3>2. TypeInv'
      BY <1>0, <2>1, <3>1 DEF TypeInv
    <3>. QED  BY <1>1, <2>1, <2>3, <3>2
  <2>. QED  BY <2>2, <2>3
<1>3. ASSUME EditIni PROVE UserTextInv'
  <2>1. ran' = "edit" /\ UNCHANGED <<line, installed, optimized>>
    BY <1>3 DEF EditIni
  <2>2. PICK i \in DOMAIN ini, v \in 0..2 : ini' = [ini EXCEPT ![i].val = v]
    BY <1>3 DEF EditIni
  <2>3. ini' \in Seq(IniLine)
    <3>1. ini[i] \in IniLine
      BY <1>0 DEF TypeInv
    <3>2. [ini[i] EXCEPT !.val = v] \in IniLine
      BY <3>1 DEF IniLine
    <3>3. ini' = [ini EXCEPT ![i] = [ini[i] EXCEPT !.val = v]]
      BY <2>2
    <3>. QED  BY <1>0, <3>2, <3>3 DEF TypeInv
  <2>. QED  BY <1>0, <1>1, <2>1, <2>3 DEF TypeInv, Wrote
<1>4. ASSUME NEW opt \in BOOLEAN, MergeLine(opt) PROVE UserTextInv'
  <2>1. ~Wrote' /\ UNCHANGED <<ini, installed>> /\ optimized' = opt
    BY <1>4 DEF MergeLine, Wrote
  <2>2. CASE ran' = "line"
    <3>1. LineKeepsTheUsers' /\ line' \in Seq(Tokens)
      BY <1>0, <1>4, <2>2, MergeKeepsPromise
    <3>2. TypeInv'
      BY <1>0, <2>1, <3>1 DEF TypeInv
    <3>. QED  BY <2>1, <3>1, <3>2 DEF UserTextInv, RequiredSettingsHold, UserSettingsKept,
                                     WaitChoiceSurvives, UpdateIsIdempotent
  <2>3. CASE ran' # "line"
    <3>1. line' = line
      BY <1>4, <2>3 DEF MergeLine
    <3>2. TypeInv'
      BY <1>0, <2>1, <3>1 DEF TypeInv
    <3>. QED  BY <1>1, <2>1, <2>3, <3>2
  <2>. QED  BY <2>2, <2>3
<1>5. ASSUME EditLine PROVE UserTextInv'
  <2>1. ran' = "edit" /\ UNCHANGED <<ini, installed, optimized>>
    BY <1>5 DEF EditLine
  <2>2. PICK i \in 1..Len(line), t \in {"env", "arg"} : line' = InsertAt(line, i, t)
    BY <1>5 DEF EditLine
  <2>3. line' \in Seq(Tokens)
    <3>1. line \in Seq(Tokens) /\ t \in Tokens
      BY <1>0 DEF TypeInv, Tokens
    <3>2. SubSeq(line, 1, i - 1) \in Seq(Tokens)
      BY <3>1
    <3>3. SubSeq(line, i, Len(line)) \in Seq(Tokens) /\ <<t>> \in Seq(Tokens)
      BY <3>1
    <3>4. SubSeq(line, 1, i - 1) \o <<t>> \in Seq(Tokens)
      BY <3>2, <3>3, ConcatProperties
    <3>5. SubSeq(line, 1, i - 1) \o <<t>> \o SubSeq(line, i, Len(line)) \in Seq(Tokens)
      BY <3>3, <3>4, ConcatProperties
    <3>. QED  BY <2>2, <3>5 DEF InsertAt
  <2>. QED  BY <1>0, <1>1, <2>1, <2>3 DEF TypeInv, Wrote
<1>6. ASSUME UNCHANGED vars PROVE UserTextInv'
  <2>1. UNCHANGED <<ini, line, installed, before, ran, asked, optimized>>
    BY <1>6 DEF vars
  <2>2. TypeInv' /\ Wrote' = Wrote
    BY <1>0, <2>1 DEF TypeInv, Wrote
  <2>3. RequiredSettingsHold'
    BY <2>1, <2>2 DEF UserTextInv, RequiredSettingsHold
  <2>4. UserSettingsKept'
    BY <2>1, <2>2 DEF UserTextInv, UserSettingsKept
  <2>5. WaitChoiceSurvives' /\ UpdateIsIdempotent'
    BY <2>1, <2>2 DEF UserTextInv, WaitChoiceSurvives, UpdateIsIdempotent
  <2>6. LineKeepsTheUsers'
    BY <2>1 DEF UserTextInv, LineKeepsTheUsers
  <2>. QED  BY <2>2, <2>3, <2>4, <2>5, <2>6 DEF UserTextInv
<1>. QED  BY <1>2, <1>3, <1>4, <1>5, <1>6 DEF Next

\* Every reachable pair of texts satisfies the invariant.
THEOREM UserTextInvariant == Spec => []UserTextInv
<1>. QED  BY UserTextInit, UserTextStep, PTL DEF Spec

\* For a settings file of any length: what a run leaves has one NR section and in it
\* each required key once, with its value (_ini).
THEOREM SettingsAreRequired == Spec => []RequiredSettingsHold
<1>1. UserTextInv => RequiredSettingsHold
  BY DEF UserTextInv
<1>. QED  BY <1>1, UserTextInvariant, PTL

\* For a settings file of any length: every line of it is there after a run, in its
\* order, and but for the required ones with its value (_ini).
THEOREM SettingsAreKept == Spec => []UserSettingsKept
<1>1. UserTextInv => UserSettingsKept
  BY DEF UserTextInv
<1>. QED  BY <1>1, UserTextInvariant, PTL

\* The wait method that a run writes is the one asked for, or else the one that the
\* file had (_select_wait_method).
THEOREM WaitChoiceIsKept == Spec => []WaitChoiceSurvives
<1>1. UserTextInv => WaitChoiceSurvives
  BY DEF UserTextInv
<1>. QED  BY <1>1, UserTextInvariant, PTL

\* A run on the file that a run has left changes nothing in it (_ini).
THEOREM UpdatesSettle == Spec => []UpdateIsIdempotent
<1>1. UserTextInv => UpdateIsIdempotent
  BY DEF UserTextInv
<1>. QED  BY <1>1, UserTextInvariant, PTL

\* For a launch line of any length: the printed line has the launcher of this release
\* before its one %command%, every token of the user in its order, and is printed
\* again by the next run (launch_options, merge_launch_options).
THEOREM LaunchLineIsKept == Spec => []LineKeepsTheUsers
<1>1. UserTextInv => LineKeepsTheUsers
  BY DEF UserTextInv
<1>. QED  BY <1>1, UserTextInvariant, PTL
=============================================================================
