---------------------------- MODULE Machine_proofs ----------------------------
(***************************************************************************)
(* What the server finds out about its machine: the cookies in the jar,    *)
(* which choose its driver, and the registers, which it describes to gdb.  *)
(***************************************************************************)
EXTENDS Startup, Target, FiniteSetTheorems, SequenceTheorems, TLAPS

-----------------------------------------------------------------------------
(* The cookie jar *)

CookieNames  == {End, "_CPU", "_MCH", "SDBG"} \cup Residents
SlotValues == Nat \cup Residents \cup Extensions
Slots  == [cookie : CookieNames, value : SlotValues]

\* The slots before e have the cookies that were set, each once, those from e on have
\* none; the end has the number of slots, unless an extension came last, and a slot
\* behind it has that number or zero.
Ends(e) ==
  /\ \A k \in DOMAIN jar : k < e <=> jar[k].cookie # End
  /\ \A a, b \in 1..(e - 1) : jar[a].cookie = jar[b].cookie => a = b
  /\ \A k \in 1..(e - 1) : /\ jar[k].cookie \in DOMAIN installed
                           /\ jar[k].value = installed[jar[k].cookie]
  /\ \A c \in DOMAIN installed : \E k \in 1..(e - 1) : jar[k].cookie = c
  /\ e = Cardinality(DOMAIN installed) + 1
  /\ jar[e].value = Len(jar) \/ ("SDBG" \in DOMAIN installed /\ jar[e].value = 0)
  /\ \A k \in DOMAIN jar : k > e => jar[k].value \in {0, Len(jar)}

JarInv ==
  /\ jar \in Seq(Slots) /\ IsFiniteSet(DOMAIN installed) /\ mch \in Nat
  /\ jar = <<>> => DOMAIN installed = {} /\ mch = 0
  /\ jar # <<>> => /\ \E e \in DOMAIN jar : Ends(e)
                   /\ "_MCH" \in DOMAIN installed /\ installed["_MCH"] = mch

\* The end is where LastCookie finds it.
LEMMA LastIsEnd ==
  ASSUME jar \in Seq(Slots), NEW e \in DOMAIN jar, Ends(e)
  PROVE  LastCookie = e
<1>1. DOMAIN jar = 1..Len(jar) /\ Len(jar) \in Nat
  BY LenProperties
<1> DEFINE ends == {k \in DOMAIN jar : jar[k].cookie = End}
<1>2. e \in ends /\ \A k \in ends : e <= k
  BY <1>1 DEF Ends
<1>3. ends \subseteq Nat
  BY <1>1
<1> HIDE DEF ends
<1>4. \A x \in ends : (\A y \in ends : x =< y) => x = e
  BY <1>2, <1>3
<1>5. Min(ends) = e
  BY <1>2, <1>4 DEF Min
<1> QED
  BY <1>5 DEF LastCookie, ends

\* What is known of the end.
LEMMA EndFacts ==
  ASSUME JarInv, jar # <<>>
  PROVE  /\ LastCookie \in DOMAIN jar /\ Ends(LastCookie)
         /\ DOMAIN jar = 1..Len(jar) /\ Len(jar) \in Nat /\ LastCookie \in 1..Len(jar)
         /\ \A name : Has(name) <=> name \in DOMAIN installed
<1>1. PICK e \in DOMAIN jar : Ends(e)
  BY DEF JarInv
<1>2. LastCookie = e
  BY <1>1, LastIsEnd DEF JarInv
<1>3. DOMAIN jar = 1..Len(jar) /\ Len(jar) \in Nat
  BY LenProperties DEF JarInv
<1>4. \A name : Has(name) <=> name \in DOMAIN installed
  BY <1>1, <1>2 DEF Has, Ends
<1> QED
  BY <1>1, <1>2, <1>3, <1>4

\* A cookie takes the place of the end, in the jar or in a copy of it.
LEMMA CookieJoins ==
  ASSUME JarInv, jar # <<>>, UNCHANGED mch,
         NEW name \in CookieNames, name # End, name \notin DOMAIN installed,
         NEW value, Remember(name, value),
         jar' \in Seq(Slots), LastCookie + 1 \in 1..Len(jar'),
         \A k \in 1..(LastCookie - 1) : jar'[k] = jar[k],
         jar'[LastCookie] = Slot(name, value),
         \A k \in (LastCookie + 1)..Len(jar') :
           jar'[k].cookie = End /\ jar'[k].value \in {0, Len(jar')},
         \/ jar'[LastCookie + 1].value = Len(jar')
         \/ "SDBG" \in DOMAIN installed' /\ jar'[LastCookie + 1].value = 0
  PROVE  JarInv'
<1>0. PICK e \in 1..Len(jar) : e = LastCookie
  BY EndFacts
<1>1. /\ DOMAIN jar = 1..Len(jar) /\ Len(jar) \in Nat /\ Ends(e)
  BY <1>0, EndFacts
<1>2. DOMAIN jar' = 1..Len(jar') /\ Len(jar') \in Nat
  BY LenProperties
<1>3. /\ DOMAIN installed' = DOMAIN installed \cup {name} /\ installed'[name] = value
      /\ \A c \in DOMAIN installed : installed'[c] = installed[c]
  BY DEF Remember
<1>4. /\ IsFiniteSet(DOMAIN installed')
      /\ Cardinality(DOMAIN installed') = Cardinality(DOMAIN installed) + 1
  BY <1>3, FS_AddElement DEF JarInv
<1>5. jar' # <<>>
  BY <1>2, EmptySeq
<1>6. /\ "_MCH" \in DOMAIN installed' /\ installed'["_MCH"] = mch'
  BY <1>3 DEF JarInv
<1>7. jar'[e].cookie = name /\ jar'[e].value = value
  BY <1>0 DEF Slot
<1>8. /\ e + 1 \in DOMAIN jar' /\ (e + 1) - 1 = e /\ 1..e = 1..(e - 1) \cup {e}
      /\ e \in 1..e
  BY <1>0, <1>1, <1>2
<1>9. \A k \in 1..(e - 1) : jar'[k] = jar[k] /\ k \in DOMAIN jar /\ k \in DOMAIN jar'
  BY <1>0, <1>1, <1>2, <1>8
<1>10. ASSUME NEW k \in 1..(e - 1)
       PROVE  /\ jar'[k].cookie = jar[k].cookie /\ jar'[k].value = jar[k].value
              /\ jar'[k].cookie # End /\ jar'[k].cookie # name
              /\ jar'[k].cookie \in DOMAIN installed
              /\ jar'[k].value = installed[jar'[k].cookie]
  <2>1. jar'[k] = jar[k] /\ k \in DOMAIN jar /\ k < e
    BY <1>9
  <2>2. jar[k].cookie # End
    BY <1>1, <2>1 DEF Ends
  <2>3. jar[k].cookie \in DOMAIN installed /\ jar[k].value = installed[jar[k].cookie]
    BY <1>1 DEF Ends
  <2> QED
    BY <2>1, <2>2, <2>3, Zenon
<1>11. Ends(e + 1)'
  <2>1. \A k \in DOMAIN jar' : k < e + 1 <=> jar'[k].cookie # End
    <3> TAKE k \in DOMAIN jar'
    <3>1. CASE k < e
      BY <1>1, <1>2, <1>10, <3>1
    <3>2. CASE k = e
      BY <1>1, <1>7, <3>2
    <3>3. CASE k > e
      BY <1>0, <1>1, <1>2, <3>3
    <3> QED
      BY <1>1, <1>2, <3>1, <3>2, <3>3
  <2>2. ASSUME NEW a \in 1..e, NEW b \in 1..e, jar'[a].cookie = jar'[b].cookie
        PROVE  a = b
    <3>1. CASE a = e \/ b = e
      BY <1>7, <1>8, <1>10, <2>2, <3>1
    <3>2. CASE a \in 1..(e - 1) /\ b \in 1..(e - 1)
      BY <1>1, <1>9, <2>2, <3>2 DEF Ends
    <3> QED
      BY <1>8, <3>1, <3>2
  <2>3. ASSUME NEW k \in 1..e
        PROVE  jar'[k].cookie \in DOMAIN installed' /\ jar'[k].value = installed'[jar'[k].cookie]
    <3>1. CASE k = e
      BY <1>3, <1>7, <3>1
    <3>2. CASE k \in 1..(e - 1)
      BY <1>3, <1>10, <3>2, Zenon
    <3> QED
      BY <1>8, <3>1, <3>2
  <2>4. ASSUME NEW c \in DOMAIN installed'
        PROVE  \E k \in 1..e : jar'[k].cookie = c
    <3>1. CASE c = name
      BY <1>7, <1>8, <3>1
    <3>2. CASE c \in DOMAIN installed
      <4>1. PICK k \in 1..(e - 1) : jar[k].cookie = c
        BY <1>1, <3>2 DEF Ends
      <4> QED
        BY <1>8, <1>10, <4>1
    <3> QED
      BY <1>3, <3>1, <3>2
  <2>5. e + 1 = Cardinality(DOMAIN installed') + 1
    BY <1>1, <1>4 DEF Ends
  <2>6. \/ jar'[e + 1].value = Len(jar')
        \/ "SDBG" \in DOMAIN installed' /\ jar'[e + 1].value = 0
    BY <1>0
  <2>7. \A k \in DOMAIN jar' : k > e + 1 => jar'[k].value \in {0, Len(jar')}
    BY <1>0, <1>2
  <2> QED
    BY <1>8, <2>1, <2>2, <2>3, <2>4, <2>5, <2>6, <2>7 DEF Ends
<1>12. mch' \in Nat
  BY DEF JarInv
<1> QED
  BY <1>4, <1>5, <1>6, <1>8, <1>11, <1>12 DEF JarInv

\* Slots in a row.
LEMMA RowOfSlots ==
  ASSUME NEW n \in Nat
  PROVE  /\ Empty(n) \in Seq(Slots) /\ Len(Empty(n)) = n
         /\ \A k \in 1..n : Empty(n)[k] = Slot(End, 0)
<1>1. Slot(End, 0) \in Slots
  BY DEF Slot, Slots, CookieNames, SlotValues
<1>2. Empty(n) \in [1..n -> Slots] /\ \A k \in 1..n : Empty(n)[k] = Slot(End, 0)
  BY <1>1 DEF Empty
<1>3. Empty(n) \in Seq(Slots)
  BY <1>2, SeqDef
<1> QED
  BY <1>2, <1>3, LenProperties

\* One row behind another, and a third behind both.
LEMMA RowsJoin ==
  ASSUME NEW s \in Seq(Slots), NEW t \in Seq(Slots)
  PROVE  /\ s \o t \in Seq(Slots) /\ Len(s \o t) = Len(s) + Len(t)
         /\ \A k \in 1..(Len(s) + Len(t)) :
              (s \o t)[k] = IF k <= Len(s) THEN s[k] ELSE t[k - Len(s)]
         /\ \A u \in Seq(Slots) : (s \o t) \o u = s \o (t \o u)
BY ConcatProperties, ConcatAssociative

\* The jar is copied up to its end, with something behind it.
IsCopy(new, e, s, t) ==
  /\ new \in Seq(Slots) /\ Len(new) = e + Len(t)
  /\ \A k \in 1..(e - 1) : new[k] = jar[k]
  /\ new[e] = s
  /\ \A k \in 1..Len(t) : new[e + k] = t[k]

\* The slots before e, another slot and what is put behind it are such a copy.
LEMMA CopiedJar ==
  ASSUME jar \in Seq(Slots), NEW e \in 1..Len(jar), NEW s \in Slots, NEW t \in Seq(Slots)
  PROVE  IsCopy(SubSeq(jar, 1, e - 1) \o <<s>> \o t, e, s, t)
<1> DEFINE u == SubSeq(jar, 1, e - 1)
           v == u \o <<s>>
<1>0. Len(jar) \in Nat /\ Len(t) \in Nat /\ e \in Nat
  BY LenProperties
<1>1. u \in Seq(Slots) /\ Len(u) = e - 1 /\ \A k \in 1..(e - 1) : u[k] = jar[k]
  <2>1. \A k \in 1..(e - 1) : jar[k] \in Slots
    BY <1>0, ElementOfSeq
  <2>2. /\ SubSeq(jar, 1, e - 1) \in Seq(Slots)
        /\ Len(SubSeq(jar, 1, e - 1)) = IF 1 <= e - 1 THEN (e - 1) - 1 + 1 ELSE 0
        /\ \A k \in 1..((e - 1) - 1 + 1) : SubSeq(jar, 1, e - 1)[k] = jar[1 + k - 1]
    BY <1>0, <2>1, SubSeqProperties
  <2>3. (e - 1) - 1 + 1 = e - 1 /\ \A k \in 1..(e - 1) : 1 + k - 1 = k
    BY <1>0
  <2> QED
    BY <1>0, <2>2, <2>3
<1> HIDE DEF u
<1>2. <<s>> \in Seq(Slots) /\ Len(<<s>>) = 1 /\ <<s>>[1] = s
  OBVIOUS
<1>3. /\ v \in Seq(Slots) /\ Len(v) = e
      /\ \A k \in 1..(e - 1) : v[k] = jar[k]
      /\ v[e] = s
  <2>1. /\ v \in Seq(Slots) /\ Len(v) = Len(u) + Len(<<s>>)
        /\ \A k \in 1..(Len(u) + Len(<<s>>)) : v[k] = IF k <= Len(u) THEN u[k] ELSE <<s>>[k - Len(u)]
    BY <1>1, <1>2, ConcatProperties
  <2> HIDE DEF v
  <2>2. Len(v) = e
    BY <1>0, <1>1, <1>2, <2>1
  <2>3. ASSUME NEW k \in 1..(e - 1) PROVE v[k] = jar[k]
    <3>1. k \in 1..(Len(u) + Len(<<s>>)) /\ k <= Len(u)
      BY <1>0, <1>1, <1>2
    <3> QED
      BY <1>1, <2>1, <3>1
  <2>4. v[e] = s
    <3>1. e \in 1..(Len(u) + Len(<<s>>)) /\ ~(e <= Len(u)) /\ e - Len(u) = 1
      BY <1>0, <1>1, <1>2
    <3> QED
      BY <1>2, <2>1, <3>1
  <2> QED
    BY <2>1, <2>2, <2>3, <2>4
<1> HIDE DEF v
<1> DEFINE new == v \o t
<1>4. /\ new \in Seq(Slots) /\ Len(new) = e + Len(t)
      /\ \A k \in 1..(e + Len(t)) : new[k] = IF k <= e THEN v[k] ELSE t[k - e]
  BY <1>3, ConcatProperties
<1> HIDE DEF new
<1>5. \A k \in 1..(e - 1) : new[k] = jar[k]
  BY <1>0, <1>3, <1>4
<1>6. new[e] = s
  BY <1>0, <1>3, <1>4
<1>7. ASSUME NEW k \in 1..Len(t) PROVE new[e + k] = t[k]
  <2>1. e + k \in 1..(e + Len(t)) /\ ~(e + k <= e) /\ (e + k) - e = k
    BY <1>0
  <2> QED
    BY <1>4, <2>1
<1> QED
  BY <1>4, <1>5, <1>6, <1>7, Zenon DEF new, v, u, IsCopy

\* The jar that TOS leaves has its two cookies and its size, or there is none.
LEMMA InitJar == StartupInit => JarInv
<1> SUFFICES ASSUME StartupInit PROVE JarInv
  OBVIOUS
<1>1. mch \in Nat
  BY MachinesAssumption DEF StartupInit
<1>2. DOMAIN installed = {jar[k].cookie : k \in DOMAIN jar} \ {End}
  BY DEF StartupInit
<1>3. CASE jar = <<>> /\ mch = 0
  <2>1. DOMAIN jar = {}
    BY <1>3
  <2>2. DOMAIN installed = {} /\ jar \in Seq(Slots)
    BY <1>2, <1>3, <2>1
  <2> QED
    BY <1>1, <1>3, <2>2, FS_EmptySet DEF JarInv
<1>4. CASE \E n \in JarSizes : jar = <<Slot("_CPU", 0), Slot("_MCH", mch), Slot(End, n)>> \o Empty(n - 3)
  <2>1. PICK n \in JarSizes : jar = <<Slot("_CPU", 0), Slot("_MCH", mch), Slot(End, n)>> \o Empty(n - 3)
    BY <1>4
  <2>2. n \in Nat /\ n > 2 /\ n - 3 \in Nat
    BY JarAssumption
  <2> DEFINE three == <<Slot("_CPU", 0), Slot("_MCH", mch), Slot(End, n)>>
             rest  == Empty(n - 3)
  <2>3. /\ Slot("_CPU", 0) \in Slots /\ Slot("_MCH", mch) \in Slots /\ Slot(End, n) \in Slots
    BY <1>1, <2>2 DEF Slot, Slots, CookieNames, SlotValues
  <2>4. /\ three \in Seq(Slots) /\ Len(three) = 3
        /\ three[1] = Slot("_CPU", 0) /\ three[2] = Slot("_MCH", mch) /\ three[3] = Slot(End, n)
    BY <2>3
  <2>5. rest \in Seq(Slots) /\ Len(rest) = n - 3 /\ \A k \in 1..(n - 3) : rest[k] = Slot(End, 0)
    BY <2>2, RowOfSlots
  <2> HIDE DEF three, rest
  <2>6. /\ three \o rest \in Seq(Slots) /\ Len(three \o rest) = Len(three) + Len(rest)
        /\ \A k \in 1..(Len(three) + Len(rest)) :
             (three \o rest)[k] = IF k <= Len(three) THEN three[k] ELSE rest[k - Len(three)]
    BY <2>4, <2>5, ConcatProperties
  <2>7. /\ jar \in Seq(Slots) /\ Len(jar) = n /\ DOMAIN jar = 1..n
        /\ \A k \in 1..n : jar[k] = IF k <= 3 THEN three[k] ELSE rest[k - 3]
    <3>1. jar = three \o rest /\ 3 + (n - 3) = n
      BY <2>1, <2>2 DEF three, rest
    <3>2. jar \in Seq(Slots) /\ Len(jar) = n
      BY <2>4, <2>5, <2>6, <3>1
    <3> QED
      BY <2>4, <2>5, <2>6, <3>1, <3>2, LenProperties
  <2>8. /\ jar[1].cookie = "_CPU" /\ jar[1].value = 0 /\ jar[2].cookie = "_MCH" /\ jar[2].value = mch
        /\ jar[3].cookie = End /\ jar[3].value = n
    BY <2>2, <2>4, <2>7 DEF Slot
  <2>9. \A k \in 4..n : jar[k].cookie = End /\ jar[k].value = 0
    <3> TAKE k \in 4..n
    <3>1. k \in 1..n /\ ~(k <= 3) /\ k - 3 \in 1..(n - 3)
      BY <2>2
    <3> QED
      BY <2>5, <2>7, <3>1 DEF Slot
  <2>10. 1..n = {1, 2, 3} \cup 4..n
    BY <2>2
  <2>11. DOMAIN installed = {"_CPU", "_MCH"}
    <3>1. ASSUME NEW c \in DOMAIN installed PROVE c \in {"_CPU", "_MCH"}
      <4>1. PICK k \in 1..n : c = jar[k].cookie /\ c # End
        BY <1>2, <2>7
      <4> QED
        BY <2>8, <2>9, <2>10, <4>1
    <3>2. "_CPU" # End /\ "_MCH" # End /\ 1 \in DOMAIN jar /\ 2 \in DOMAIN jar
      BY <2>2, <2>7 DEF End
    <3>3. "_CPU" \in DOMAIN installed /\ "_MCH" \in DOMAIN installed
      BY <1>2, <2>8, <3>2
    <3> QED
      BY <3>1, <3>3
  <2>12. installed["_CPU"] = 0 /\ installed["_MCH"] = mch
    BY <1>2, <2>11 DEF StartupInit
  <2>13. IsFiniteSet(DOMAIN installed) /\ Cardinality(DOMAIN installed) = 2
    <3>1. {"_CPU", "_MCH"} = {"_CPU"} \cup {"_MCH"}
      OBVIOUS
    <3>2. IsFiniteSet({"_CPU"}) /\ Cardinality({"_CPU"}) = 1
      BY FS_Singleton
    <3>3. "_MCH" \notin {"_CPU"}
      OBVIOUS
    <3>4. IsFiniteSet({"_CPU"} \cup {"_MCH"}) /\ Cardinality({"_CPU"} \cup {"_MCH"}) = 1 + 1
      BY <3>2, <3>3, FS_AddElement
    <3> QED
      BY <2>11, <3>1, <3>4
  <2>14. 3 \in DOMAIN jar /\ 1..(3 - 1) = {1, 2}
    BY <2>2, <2>7
  <2>15. \A k \in DOMAIN jar : k < 3 <=> jar[k].cookie # End
    <3> TAKE k \in DOMAIN jar
    <3>1. k = 1 \/ k = 2 \/ k = 3 \/ k \in 4..n
      BY <2>7, <2>10
    <3>2. \A m \in 4..n : ~(m < 3)
      BY <2>2
    <3> QED
      BY <2>8, <2>9, <3>1, <3>2 DEF End
  <2>16. Ends(3)
    <3>1. \A a, b \in {1, 2} : jar[a].cookie = jar[b].cookie => a = b
      BY <2>8
    <3>2. \A k \in {1, 2} : jar[k].cookie \in DOMAIN installed /\ jar[k].value = installed[jar[k].cookie]
      BY <2>8, <2>11, <2>12
    <3>3. \A c \in DOMAIN installed : \E k \in {1, 2} : jar[k].cookie = c
      BY <2>8, <2>11
    <3>4. 3 = Cardinality(DOMAIN installed) + 1
      BY <2>13
    <3>5. \A k \in DOMAIN jar : k > 3 => jar[k].value \in {0, Len(jar)}
      BY <2>7, <2>9
    <3> QED
      BY <2>7, <2>8, <2>14, <2>15, <3>1, <3>2, <3>3, <3>4, <3>5 DEF Ends
  <2>17. jar # <<>>
    BY <2>14
  <2> QED
    BY <1>1, <2>7, <2>11, <2>12, <2>13, <2>14, <2>16, <2>17 DEF JarInv
<1> QED
  BY <1>3, <1>4 DEF StartupInit

\* A resident program keeps the convention, in the jar or in a larger one.
LEMMA ResidentKeeps == ASSUME JarInv, NEW r \in Residents, ResidentStarts(r) PROVE JarInv'
<1> DEFINE e == LastCookie
<1>0. /\ jar # <<>> /\ r \notin DOMAIN installed /\ Remember(r, r) /\ UNCHANGED mch
      /\ jar \in Seq(Slots)
  BY DEF ResidentStarts, serverVars, JarInv
<1>1. /\ e \in 1..Len(jar) /\ DOMAIN jar = 1..Len(jar) /\ Len(jar) \in Nat /\ Ends(e)
  BY <1>0, EndFacts
<1>2. jar[e].value \in {0, Len(jar)} /\ \A k \in DOMAIN jar : k > e => jar[k].cookie = End /\ jar[k].value \in {0, Len(jar)}
  BY <1>1 DEF Ends
<1>3. r \in CookieNames /\ r # End /\ MaxRoom \in Nat
  BY ResidentsAssumption DEF CookieNames, End
<1>4. Slot(r, r) \in Slots /\ Slot(r, r).cookie = r
  BY <1>3 DEF Slot, Slots, SlotValues
<1>5. CASE e < jar[e].value /\ jar' = [jar EXCEPT ![e] = Slot(r, r), ![e + 1] = Slot(End, jar[e].value)]
  <2>1. jar[e].value = Len(jar) /\ e + 1 \in 1..Len(jar) /\ e + 1 # e
    BY <1>1, <1>2, <1>5
  <2>2. Slot(End, Len(jar)) \in Slots
    BY <1>1 DEF Slot, Slots, CookieNames, SlotValues
  <2> DEFINE new == [jar EXCEPT ![e] = Slot(r, r)]
  <2>3. /\ new \in Seq(Slots) /\ Len(new) = Len(jar)
        /\ \A k \in 1..Len(jar) : new[k] = IF k = e THEN Slot(r, r) ELSE jar[k]
    BY <1>0, <1>1, <1>4, ExceptSeq
  <2> HIDE DEF new
  <2>4. jar' = [new EXCEPT ![e + 1] = Slot(End, Len(jar))]
    BY <1>5, <2>1 DEF new
  <2>5. /\ jar' \in Seq(Slots) /\ Len(jar') = Len(jar)
        /\ \A k \in 1..Len(jar) : jar'[k] = IF k = e + 1 THEN Slot(End, Len(jar)) ELSE new[k]
    BY <2>1, <2>2, <2>3, <2>4, ExceptSeq
  <2>6. \A k \in 1..(e - 1) : jar'[k] = jar[k]
    BY <1>1, <2>3, <2>5
  <2>7. jar'[e] = Slot(r, r)
    BY <1>1, <2>1, <2>3, <2>5
  <2>8. jar'[e + 1] = Slot(End, Len(jar))
    BY <2>1, <2>5
  <2>9. ASSUME NEW k \in (e + 1)..Len(jar')
        PROVE  jar'[k].cookie = End /\ jar'[k].value \in {0, Len(jar')}
    <3>1. CASE k = e + 1
      BY <2>5, <2>8, <3>1 DEF Slot
    <3>2. CASE k # e + 1
      <4>1. k \in DOMAIN jar /\ k > e /\ k # e
        BY <1>1, <2>5
      <4>2. jar'[k] = jar[k]
        BY <1>1, <2>3, <2>5, <3>2, <4>1
      <4> QED
        BY <1>2, <2>5, <4>1, <4>2
    <3> QED
      BY <3>1, <3>2
  <2>10. jar'[e + 1].value = Len(jar') /\ e + 1 \in 1..Len(jar')
    BY <2>1, <2>5, <2>8 DEF Slot
  <2> QED
    BY <1>0, <1>3, <2>5, <2>6, <2>7, <2>9, <2>10, CookieJoins
<1>6. ASSUME NEW room \in 1..MaxRoom,
             jar' = SubSeq(jar, 1, e - 1) \o <<Slot(r, r), Slot(End, e + room)>> \o Empty(room - 1)
      PROVE  JarInv'
  <2> DEFINE u == SubSeq(jar, 1, e - 1)
             a == <<Slot(r, r)>>
             b == <<Slot(End, e + room)>>
             t == b \o Empty(room - 1)
  <2>1. room \in Nat /\ room - 1 \in Nat /\ e + room \in Nat
    BY <1>1, <1>3
  <2>2. Slot(End, e + room) \in Slots
    BY <2>1 DEF Slot, Slots, CookieNames, SlotValues
  <2>3. /\ Empty(room - 1) \in Seq(Slots) /\ Len(Empty(room - 1)) = room - 1
        /\ \A k \in 1..(room - 1) : Empty(room - 1)[k] = Slot(End, 0)
    BY <2>1, RowOfSlots
  <2>4. /\ a \in Seq(Slots) /\ b \in Seq(Slots) /\ Len(b) = 1 /\ b[1] = Slot(End, e + room)
        /\ <<Slot(r, r), Slot(End, e + room)>> = a \o b
    BY <1>4, <2>2
  <2>5. u \in Seq(Slots)
    <3>1. \A k \in 1..(e - 1) : jar[k] \in Slots
      BY <1>0, <1>1, ElementOfSeq
    <3> QED
      BY <1>1, <3>1, SubSeqProperties
  <2>6. jar' = u \o a \o t
    <3> HIDE DEF u, a, b
    <3>1. jar' = (u \o (a \o b)) \o Empty(room - 1)
      BY <1>6, <2>4 DEF u
    <3>2. u \o (a \o b) = (u \o a) \o b /\ u \o a \in Seq(Slots)
      BY <2>4, <2>5, RowsJoin, Zenon
    <3>3. ((u \o a) \o b) \o Empty(room - 1) = (u \o a) \o (b \o Empty(room - 1))
      BY <2>3, <2>4, <3>2, RowsJoin, Zenon
    <3> QED
      BY <3>1, <3>2, <3>3
  <2>7. /\ t \in Seq(Slots) /\ Len(t) = room /\ t[1] = Slot(End, e + room)
        /\ \A k \in 2..room : t[k] = Slot(End, 0)
    <3> HIDE DEF b
    <3>1. /\ t \in Seq(Slots) /\ Len(t) = 1 + (room - 1)
          /\ \A k \in 1..(1 + (room - 1)) : t[k] = IF k <= 1 THEN b[k] ELSE Empty(room - 1)[k - 1]
      BY <2>3, <2>4, ConcatProperties
    <3> HIDE DEF t
    <3>2. 1 + (room - 1) = room /\ 1 \in 1..room
      BY <2>1
    <3>3. \A k \in 2..room : k \in 1..room /\ ~(k <= 1) /\ k - 1 \in 1..(room - 1)
      BY <2>1
    <3> QED
      BY <2>3, <2>4, <3>1, <3>2, <3>3
  <2> HIDE DEF t
  <2>8. /\ jar' \in Seq(Slots) /\ Len(jar') = e + Len(t)
        /\ \A k \in 1..(e - 1) : jar'[k] = jar[k]
        /\ jar'[e] = Slot(r, r)
        /\ \A k \in 1..Len(t) : jar'[e + k] = t[k]
    <3>1. jar' = SubSeq(jar, 1, e - 1) \o <<Slot(r, r)>> \o t
      BY <2>6, Zenon DEF u, a
    <3>2. jar \in Seq(Slots) /\ e \in 1..Len(jar) /\ Slot(r, r) \in Slots /\ t \in Seq(Slots)
      BY <1>0, <1>1, <1>4, <2>7
    <3> HIDE DEF e, u, a
    <3>3. IsCopy(SubSeq(jar, 1, e - 1) \o <<Slot(r, r)>> \o t, e, Slot(r, r), t)
      BY <3>2, CopiedJar, Zenon
    <3>4. IsCopy(jar', e, Slot(r, r), t)
      BY <3>1, <3>3, Zenon
    <3> QED
      BY <3>4 DEF IsCopy
  <2>9. ASSUME NEW k \in (e + 1)..Len(jar')
        PROVE  jar'[k].cookie = End /\ jar'[k].value \in {0, Len(jar')}
    <3>1. k - e \in 1..room /\ e + (k - e) = k
      BY <1>1, <2>1, <2>7, <2>8
    <3>2. jar'[k] = t[k - e]
      BY <2>7, <2>8, <3>1
    <3>3. t[k - e] \in {Slot(End, e + room), Slot(End, 0)}
      BY <2>7, <3>1
    <3> QED
      BY <2>7, <2>8, <3>2, <3>3 DEF Slot
  <2>10. jar'[e + 1].value = Len(jar') /\ e + 1 \in 1..Len(jar')
    <3>1. 1 \in 1..room /\ e + 1 \in 1..(e + room)
      BY <1>1, <2>1
    <3> QED
      BY <2>7, <2>8, <3>1 DEF Slot
  <2> QED
    BY <1>0, <1>3, <2>8, <2>9, <2>10, CookieJoins
<1> QED
  BY <1>5, <1>6 DEF ResidentStarts

\* An extension puts its cookie where the end was.
LEMMA PutKeeps == ASSUME JarInv, NEW ext \in Extensions, PutCookie(ext) PROVE JarInv'
<1> DEFINE e == LastCookie
<1>0. /\ jar # <<>> /\ ~Has("SDBG") /\ e # jar[e].value
      /\ jar' = [jar EXCEPT ![e] = Slot("SDBG", ext)]
      /\ Remember("SDBG", ext) /\ UNCHANGED mch
      /\ jar \in Seq(Slots)
  BY DEF PutCookie, IsFull, serverVars, JarInv
<1>1. /\ e \in 1..Len(jar) /\ DOMAIN jar = 1..Len(jar) /\ Len(jar) \in Nat /\ Ends(e)
      /\ "SDBG" \notin DOMAIN installed
  BY <1>0, EndFacts
<1>2. /\ jar[e].value = Len(jar)
      /\ \A k \in DOMAIN jar : k > e => jar[k].cookie = End /\ jar[k].value \in {0, Len(jar)}
  BY <1>1 DEF Ends
<1>3. Slot("SDBG", ext) \in Slots /\ "SDBG" \in CookieNames /\ "SDBG" # End
  BY DEF Slot, Slots, CookieNames, SlotValues, End
<1>4. e + 1 \in 1..Len(jar) /\ e + 1 > e /\ e + 1 # e
  BY <1>0, <1>1, <1>2
<1>5. /\ jar' \in Seq(Slots) /\ Len(jar') = Len(jar)
      /\ \A k \in 1..Len(jar) : jar'[k] = IF k = e THEN Slot("SDBG", ext) ELSE jar[k]
  BY <1>0, <1>1, <1>3, ExceptSeq
<1>6. jar'[e] = Slot("SDBG", ext) /\ \A k \in 1..(e - 1) : jar'[k] = jar[k]
  BY <1>1, <1>5
<1>7. \A k \in (e + 1)..Len(jar') : k \in DOMAIN jar /\ k > e /\ jar'[k] = jar[k]
  BY <1>1, <1>5
<1>8. \A k \in (e + 1)..Len(jar') : jar'[k].cookie = End /\ jar'[k].value \in {0, Len(jar')}
  BY <1>2, <1>5, <1>7
<1>9. "SDBG" \in DOMAIN installed' /\ e + 1 \in (e + 1)..Len(jar')
  BY <1>0, <1>1, <1>4, <1>5 DEF Remember
<1>10. jar'[e + 1].value \in {0, Len(jar')} /\ e + 1 \in 1..Len(jar')
  BY <1>4, <1>5, <1>8, <1>9
<1> QED
  BY <1>0, <1>1, <1>3, <1>5, <1>6, <1>8, <1>9, <1>10, CookieJoins

\* Or in a copy, four slots longer.
LEMMA NeedMoreKeeps == ASSUME JarInv, NEW ext \in Extensions, NeedMoreCookies(ext) PROVE JarInv'
<1> DEFINE e == LastCookie
           u == SubSeq(jar, 1, e - 1)
           a == <<Slot("SDBG", ext)>>
           b == <<Slot(End, e + 4)>>
           t == Empty(3) \o b
<1>0. /\ jar # <<>> /\ ~Has("SDBG")
      /\ jar' = u \o a \o Empty(3) \o b
      /\ Remember("SDBG", ext) /\ UNCHANGED mch
      /\ jar \in Seq(Slots)
  BY DEF NeedMoreCookies, serverVars, JarInv
<1>1. /\ e \in 1..Len(jar) /\ DOMAIN jar = 1..Len(jar) /\ Len(jar) \in Nat /\ Ends(e)
      /\ "SDBG" \notin DOMAIN installed
  BY <1>0, EndFacts
<1>2. Slot("SDBG", ext) \in Slots /\ "SDBG" \in CookieNames /\ "SDBG" # End
  BY DEF Slot, Slots, CookieNames, SlotValues, End
<1>3. e + 4 \in Nat
  BY <1>1
<1>4. Slot(End, e + 4) \in Slots
  BY <1>3 DEF Slot, Slots, CookieNames, SlotValues
<1>5. /\ Empty(3) \in Seq(Slots) /\ Len(Empty(3)) = 3
      /\ \A k \in 1..3 : Empty(3)[k] = Slot(End, 0)
  BY RowOfSlots
<1>6. a \in Seq(Slots) /\ b \in Seq(Slots) /\ Len(b) = 1 /\ b[1] = Slot(End, e + 4)
  BY <1>2, <1>4
<1>7. u \in Seq(Slots)
  <2>1. \A k \in 1..(e - 1) : jar[k] \in Slots
    BY <1>0, <1>1, ElementOfSeq
  <2> QED
    BY <1>1, <2>1, SubSeqProperties
<1>8. jar' = u \o a \o t
  <2> HIDE DEF u, a, b
  <2>1. u \o a \in Seq(Slots)
    BY <1>6, <1>7, RowsJoin, Zenon
  <2>2. ((u \o a) \o Empty(3)) \o b = (u \o a) \o (Empty(3) \o b)
    BY <1>5, <1>6, <2>1, RowsJoin, Zenon
  <2> QED
    BY <1>0, <2>2, Zenon
<1>9. /\ t \in Seq(Slots) /\ Len(t) = 4
      /\ \A k \in 1..3 : t[k] = Slot(End, 0)
      /\ t[4] = Slot(End, e + 4)
  <2> HIDE DEF b
  <2>0. /\ t \in Seq(Slots) /\ Len(t) = Len(Empty(3)) + Len(b)
        /\ \A k \in 1..(Len(Empty(3)) + Len(b)) :
             t[k] = IF k <= Len(Empty(3)) THEN Empty(3)[k] ELSE b[k - Len(Empty(3))]
    BY <1>5, <1>6, RowsJoin, Zenon
  <2>1. /\ t \in Seq(Slots) /\ Len(t) = 3 + 1
        /\ \A k \in 1..(3 + 1) : t[k] = IF k <= 3 THEN Empty(3)[k] ELSE b[k - 3]
    BY <1>5, <1>6, <2>0, Zenon
  <2> HIDE DEF t
  <2>2. 4 \in 1..(3 + 1) /\ ~(4 <= 3) /\ 4 - 3 = 1 /\ \A k \in 1..3 : k \in 1..(3 + 1) /\ k <= 3
    OBVIOUS
  <2> QED
    BY <1>5, <1>6, <2>1, <2>2
<1> HIDE DEF t
<1>10. /\ jar' \in Seq(Slots) /\ Len(jar') = e + 4
       /\ \A k \in 1..(e - 1) : jar'[k] = jar[k]
       /\ jar'[e] = Slot("SDBG", ext)
       /\ \A k \in 1..4 : jar'[e + k] = t[k]
  <2>1. /\ jar' \in Seq(Slots) /\ Len(jar') = e + Len(t)
        /\ \A k \in 1..(e - 1) : jar'[k] = jar[k]
        /\ jar'[e] = Slot("SDBG", ext)
        /\ \A k \in 1..Len(t) : jar'[e + k] = t[k]
    <3>1. jar' = SubSeq(jar, 1, e - 1) \o <<Slot("SDBG", ext)>> \o t
      BY <1>8, Zenon DEF u, a
    <3>2. jar \in Seq(Slots) /\ e \in 1..Len(jar) /\ Slot("SDBG", ext) \in Slots /\ t \in Seq(Slots)
      BY <1>0, <1>1, <1>2, <1>9
    <3> HIDE DEF e, u, a
    <3>3. IsCopy(SubSeq(jar, 1, e - 1) \o <<Slot("SDBG", ext)>> \o t, e, Slot("SDBG", ext), t)
      BY <3>2, CopiedJar, Zenon
    <3>4. IsCopy(jar', e, Slot("SDBG", ext), t)
      BY <3>1, <3>3, Zenon
    <3> QED
      BY <3>4 DEF IsCopy
  <2> QED
    BY <1>9, <2>1
<1>11. ASSUME NEW k \in (e + 1)..Len(jar')
       PROVE  jar'[k].cookie = End /\ jar'[k].value \in {0, Len(jar')}
  <2>1. k - e \in 1..4 /\ e + (k - e) = k
    BY <1>1, <1>10
  <2>2. jar'[k] = t[k - e]
    BY <1>10, <2>1
  <2>3. t[k - e] \in {Slot(End, e + 4), Slot(End, 0)}
    BY <1>9, <2>1
  <2> QED
    BY <1>10, <2>2, <2>3 DEF Slot
<1>12. jar'[e + 1].value = 0 /\ e + 1 \in 1..Len(jar')
  BY <1>1, <1>9, <1>10 DEF Slot
<1>13. "SDBG" \in DOMAIN installed'
  BY <1>0 DEF Remember
<1> QED
  BY <1>0, <1>1, <1>2, <1>10, <1>11, <1>12, <1>13, CookieJoins

\* What leaves the jar alone preserves its invariant.
LEMMA JarStays == ASSUME JarInv, UNCHANGED bootVars PROVE JarInv'
BY DEF JarInv, Ends, bootVars

\* Nothing else touches the jar.
LEMMA StepJar == JarInv /\ [StartupNext]_startupVars => JarInv'
<1> SUFFICES ASSUME JarInv, [StartupNext]_startupVars PROVE JarInv'
  OBVIOUS
<1>1. ASSUME NEW r \in Residents, ResidentStarts(r) PROVE JarInv'
  BY <1>1, ResidentKeeps
<1>2. ASSUME NEW ext \in Extensions, PutCookie(ext) PROVE JarInv'
  BY <1>2, PutKeeps
<1>3. ASSUME NEW ext \in Extensions, NeedMoreCookies(ext) PROVE JarInv'
  BY <1>3, NeedMoreKeeps
<1>4. CASE FoundSameCookie \/ UNCHANGED startupVars
  BY <1>4, JarStays DEF FoundSameCookie, startupVars
<1>5. ASSUME NEW l \in Lines, ServerStarts(l) PROVE JarInv'
  BY <1>5, JarStays DEF ServerStarts
<1>6. CASE Split \/ SplitEnds
  BY <1>6, JarStays DEF Split, SplitEnds
<1>7. CASE InferiorArg \/ Option \/ UnknownOption \/ ComMethod \/ InferiorFile
  BY <1>7, JarStays DEF InferiorArg, Option, UnknownOption, ComMethod, InferiorFile, NextArg
<1>8. CASE OptionsDone \/ InitComm \/ ServerEnds
  BY <1>8, JarStays DEF OptionsDone, InitComm, ServerEnds
<1>9. ASSUME NEW word, NEW args, VRun(word, args) PROVE JarInv'
  BY <1>9, JarStays DEF VRun
<1> QED
  BY <1>1, <1>2, <1>3, <1>4, <1>5, <1>6, <1>7, <1>8, <1>9 DEF StartupNext

\* A walk through the jar finds what was set, and the end of it.
LEMMA JarIsIntact == JarInv => JarIntact
<1> SUFFICES ASSUME JarInv, jar # <<>>
             PROVE  \E end \in DOMAIN jar :
                      /\ jar[end].cookie = End
                      /\ end = Cardinality(DOMAIN installed) + 1
                      /\ {<<jar[k].cookie, jar[k].value>> : k \in 1..(end - 1)}
                           = {<<c, installed[c]>> : c \in DOMAIN installed}
  BY DEF JarIntact
<1>1. PICK e \in DOMAIN jar : Ends(e)
  BY DEF JarInv
<1>2. e \in Nat
  BY LenProperties DEF JarInv
<1>3. jar[e].cookie = End /\ e = Cardinality(DOMAIN installed) + 1
  BY <1>1, <1>2 DEF Ends
<1>4. /\ \A k \in 1..(e - 1) : /\ jar[k].cookie \in DOMAIN installed
                               /\ jar[k].value = installed[jar[k].cookie]
      /\ \A c \in DOMAIN installed : \E k \in 1..(e - 1) : jar[k].cookie = c
  BY <1>1 DEF Ends
<1>5. {<<jar[k].cookie, jar[k].value>> : k \in 1..(e - 1)}
        = {<<c, installed[c]>> : c \in DOMAIN installed}
  BY <1>4
<1> QED
  BY <1>1, <1>3, <1>5

-----------------------------------------------------------------------------
(* The driver *)

\* What GetCookies finds.
LEMMA CookieFacts ==
  ASSUME JarInv
  PROVE  /\ (Cookie("SDBG") # 0) = ("SDBG" \in DOMAIN installed)
         /\ Cookie_MCH = mch
<1>1. CASE jar = <<>>
  BY <1>1 DEF Cookie, Cookie_MCH, JarInv
<1>2. CASE jar # <<>>
  <2>1. PICK e \in 1..Len(jar) : e = LastCookie /\ Ends(e)
    BY <1>2, EndFacts
  <2>2. \A name : Has(name) <=> name \in DOMAIN installed
    BY <1>2, EndFacts
  <2>3. ASSUME NEW name, name \in DOMAIN installed
        PROVE  \E k \in 1..(e - 1) : Cookie(name) = k /\ jar[k].cookie = name
    <3>1. PICK k \in 1..(e - 1) : jar[k].cookie = name
      BY <2>1, <2>3 DEF Ends
    <3>2. {m \in 1..(e - 1) : jar[m].cookie = name} = {k}
      BY <2>1, <3>1 DEF Ends
    <3>3. Max({k}) = k
      <4>1. k \in Nat
        BY <2>1
      <4> QED
        BY <4>1 DEF Max
    <3>4. Cookie(name) = Max({m \in 1..(e - 1) : jar[m].cookie = name})
      BY <1>2, <2>1, <2>2, <2>3 DEF Cookie
    <3> QED
      BY <3>1, <3>2, <3>3, <3>4
  <2>4. ASSUME NEW name, name \notin DOMAIN installed PROVE Cookie(name) = 0
    BY <2>2, <2>4 DEF Cookie
  <2>5. (Cookie("SDBG") # 0) = ("SDBG" \in DOMAIN installed)
    BY <2>1, <2>3, <2>4
  <2>6. PICK k \in 1..(e - 1) : Cookie("_MCH") = k /\ jar[k].cookie = "_MCH"
    BY <1>2, <2>3 DEF JarInv
  <2>7. jar[k].value = mch
    BY <1>2, <2>1, <2>6 DEF Ends, JarInv
  <2>8. k # 0
    BY <2>1
  <2> QED
    BY <2>5, <2>6, <2>7, <2>8 DEF Cookie_MCH
<1> QED
  BY <1>1, <1>2

\* The result is an error below zero only before a driver was looked for.
DriverInv == JarInv /\ result \in {-1, 0, 1} /\ DefaultDriver

\* The server starts without a result.
LEMMA InitDriver == StartupInit => DriverInv
<1> SUFFICES ASSUME StartupInit PROVE DriverInv
  OBVIOUS
<1>1. JarInv
  BY InitJar
<1>2. result = 0 /\ phase = "boot"
  BY DEF StartupInit
<1> QED
  BY <1>1, <1>2 DEF DriverInv, DefaultDriver

\* InitComm looks for the driver in the jar, where nothing moves any more.
LEMMA StepDriver == DriverInv /\ [StartupNext]_startupVars => DriverInv'
<1> SUFFICES ASSUME DriverInv, [StartupNext]_startupVars PROVE DriverInv'
  OBVIOUS
<1>0. JarInv /\ JarInv' /\ result \in {-1, 0, 1} /\ DefaultDriver
  BY StepJar DEF DriverInv
<1>1. ASSUME phase' \notin {"serving", "failed"}, result' \in {-1, 0, 1} PROVE DriverInv'
  BY <1>0, <1>1 DEF DriverInv, DefaultDriver
<1>2. ASSUME NEW r \in Residents, ResidentStarts(r) PROVE DriverInv'
  BY <1>0, <1>1, <1>2 DEF ResidentStarts, serverVars, optionVars
<1>3. ASSUME NEW ext \in Extensions, PutCookie(ext) \/ NeedMoreCookies(ext) PROVE DriverInv'
  BY <1>0, <1>1, <1>3 DEF PutCookie, NeedMoreCookies, serverVars, optionVars
<1>4. CASE FoundSameCookie
  BY <1>0, <1>1, <1>4 DEF FoundSameCookie, startupVars, optionVars
<1>5. ASSUME NEW l \in Lines, ServerStarts(l) PROVE DriverInv'
  BY <1>0, <1>1, <1>5 DEF ServerStarts, optionVars
<1>6. CASE Split \/ SplitEnds
  BY <1>0, <1>1, <1>6 DEF Split, SplitEnds, optionVars
<1>7. CASE InferiorArg \/ Option \/ UnknownOption \/ ComMethod \/ InferiorFile
  BY <1>0, <1>1, <1>7 DEF InferiorArg, Option, UnknownOption, ComMethod, InferiorFile, NextArg
<1>8. CASE OptionsDone
  <2>1. result' \in {-1, 0, 1}
    BY <1>0, <1>8 DEF OptionsDone
  <2>2. phase' = "failed" => ~(result' >= 0)
    BY <1>8, <2>1 DEF OptionsDone
  <2>3. phase' # "serving"
    BY <1>8 DEF OptionsDone
  <2> QED
    BY <1>0, <2>1, <2>2, <2>3 DEF DriverInv, DefaultDriver
<1>9. CASE InitComm
  <2>1. UNCHANGED <<mch, installed, result, com_method>>
    BY <1>9 DEF InitComm, bootVars, optionVars
  <2>2. com_method = "" =>
          comDev' = IF "SDBG" \in DOMAIN installed THEN "plugin"
                    ELSE IF mch < 3 THEN "MFP" ELSE IF mch = 3 THEN "SCC" ELSE "none"
    BY <1>0, <1>9, CookieFacts DEF InitComm, ComString
  <2> QED
    BY <1>0, <2>1, <2>2 DEF DriverInv, DefaultDriver
<1>10. CASE ServerEnds
  BY <1>0, <1>1, <1>10 DEF ServerEnds
<1>11. ASSUME NEW word, NEW args, VRun(word, args) PROVE DriverInv'
  <2>1. UNCHANGED <<mch, installed, result, com_method, phase, comDev>>
    BY <1>11 DEF VRun, bootVars
  <2> QED
    BY <1>0, <2>1 DEF DriverInv, DefaultDriver
<1>12. CASE UNCHANGED startupVars
  <2>1. UNCHANGED <<mch, installed, result, com_method, phase, comDev>>
    BY <1>12 DEF startupVars, bootVars, optionVars
  <2> QED
    BY <1>0, <2>1 DEF DriverInv, DefaultDriver
<1> QED
  BY <1>2, <1>3, <1>4, <1>5, <1>6, <1>7, <1>8, <1>9, <1>10, <1>11, <1>12 DEF StartupNext

\* Whatever jar TOS made, and however many programs become resident in any order:
\* nothing is written outside the jar, and every cookie is found once, with its value
\* (midi-extension/start.s:61-132).
THEOREM CookiesAreFound == StartupSpec => []JarIntact
BY InitJar, StepJar, JarIsIntact, PTL DEF StartupSpec

\* The driver is that of the extension, if there is one, and of the machine otherwise
\* (comm.c:251-284).
THEOREM DriverIsRight == StartupSpec => []DefaultDriver
<1>1. DriverInv => DefaultDriver
  BY DEF DriverInv
<1> QED
  BY <1>1, InitDriver, StepDriver, PTL DEF StartupSpec

-----------------------------------------------------------------------------
(* The command line *)

\* The first argument of a line that starts with a space is empty.
Words == STRING \union {""}

Fresh == /\ ~loadRequest /\ ~option_multi /\ ~run_once
         /\ inferior_filename = <<>> /\ inferior_args = <<>> /\ result = 0

\* From where on the words of the line are known.
From == IF phase = "split" THEN i + 2 ELSE 1

\* The word at the start of the line is the first argument if there is one.
WordsKnown == phase = "split" \/ (phase \in {"options", "init"} /\ line # <<>> /\ line[1] # Space)

\* What the first "last" arguments say, --multi too if no program is named.
ReadSoFar(name, last) ==
  LET before == {argv[k] : k \in 1..(name - 1)}
  IN  /\ name \in 1..(last + 1)
      /\ before \subseteq OwnWords /\ (name <= last => argv[name] \notin OwnWords)
      /\ inferior_filename = Spelling(IF name <= last THEN argv[name] ELSE "")
      /\ inferior_args = SubSeq(argv, name + 1, last)
      /\ (option_multi <=> "--multi" \in before) /\ (run_once <=> "--once" \in before)

\* Behind i the line is split, before i the arguments are read.
OptionInv ==
  /\ line \in Lines \union {<<>>} /\ argv \in Seq(Words) /\ i \in Int
  /\ loadRequest \in BOOLEAN /\ option_multi \in BOOLEAN /\ run_once \in BOOLEAN
  /\ phase \in {"boot", "split"} => Fresh
  /\ phase = "split" => line # <<>> /\ i \in 0..Len(line)
  /\ WordsKnown => Lists(argv, Places(From))
  /\ phase = "options" =>
       /\ i \in 1..(Len(argv) + 1) /\ result \in {0, -1}
       /\ \E name \in 1..i : ReadSoFar(name, i - 1) /\ (loadRequest <=> name < i)
  /\ phase = "init" =>
       \E name \in 1..(Len(argv) + 1) :
         ReadSoFar(name, Len(argv)) /\ (result = 1 <=> name <= Len(argv) /\ ~option_multi)

\* No word is at no place.
LEMMA NoWords == Lists(<<>>, {})
<1> DEFINE at == [k \in DOMAIN <<>> |-> 0]
<1>1. at \in [DOMAIN <<>> -> {}]
  OBVIOUS
<1> QED
  BY <1>1 DEF Lists

\* A word as a sequence.
LEMMA OneWord == ASSUME NEW S, NEW word \in S PROVE <<word>> \in Seq(S)
OBVIOUS

\* A word in front of the others.
LEMMA WordInFront ==
  ASSUME line \in Seq(STRING), NEW words \in Seq(Words), NEW places \in SUBSET DOMAIN line,
         NEW p \in DOMAIN line, \A q \in places : p < q, Lists(words, places)
  PROVE  /\ Lists(<<line[p]>> \o words, places \union {p})
         /\ <<line[p]>> \o words \in Seq(Words)
<1> DEFINE longer == <<line[p]>> \o words
<1>1. DOMAIN line = 1..Len(line) /\ DOMAIN words = 1..Len(words) /\ Len(words) \in Nat
  OBVIOUS
<1>2. line[p] \in STRING
  BY ElementOfSeq, <1>1
<1>3. /\ longer \in Seq(Words) /\ DOMAIN longer = 1..(Len(words) + 1) /\ longer[1] = line[p]
      /\ \A k \in 2..(Len(words) + 1) : longer[k] = words[k - 1]
  <2>1. <<line[p]>> \in Seq(Words) /\ Len(<<line[p]>>) = 1 /\ <<line[p]>>[1] = line[p]
    BY <1>2, OneWord DEF Words
  <2> QED
    BY <1>1, <2>1, ConcatProperties
<1>4. PICK at \in [DOMAIN words -> places] :
        /\ \A q \in places : \E k \in DOMAIN words : at[k] = q
        /\ \A j, k \in DOMAIN words : j < k => at[j] < at[k]
        /\ \A k \in DOMAIN words : words[k] = line[at[k]]
  BY DEF Lists
<1> DEFINE at2 == [k \in 1..(Len(words) + 1) |-> IF k = 1 THEN p ELSE at[k - 1]]
<1>5. \A k \in 2..(Len(words) + 1) : k - 1 \in DOMAIN words /\ at2[k] = at[k - 1] /\ at2[k] \in places
  <2> TAKE k \in 2..(Len(words) + 1)
  <2>1. k \in 1..(Len(words) + 1) /\ k # 1 /\ k - 1 \in 1..Len(words)
    BY <1>1
  <2>2. at2[k] = at[k - 1]
    BY <2>1
  <2>3. at[k - 1] \in places
    BY <1>1, <2>1
  <2> QED
    BY <1>1, <2>1, <2>2, <2>3
<1>6. at2[1] = p /\ 1 \in DOMAIN at2
  BY <1>1
<1> HIDE DEF longer, at2
<1>7. at2 \in [DOMAIN longer -> places \union {p}]
  <2>1. \A k \in 1..(Len(words) + 1) : at2[k] \in places \union {p}
    BY <1>1, <1>5, <1>6
  <2> QED
    BY <1>3, <2>1 DEF at2
<1>8. \A q \in places \union {p} : \E k \in DOMAIN longer : at2[k] = q
  <2>1. ASSUME NEW q \in places PROVE \E k \in DOMAIN longer : at2[k] = q
    <3>1. PICK k \in DOMAIN words : at[k] = q
      BY <1>4
    <3>2. k + 1 \in 2..(Len(words) + 1) /\ (k + 1) - 1 = k
      BY <1>1
    <3>3. at2[k + 1] = q /\ k + 1 \in DOMAIN longer
      BY <1>1, <1>3, <1>5, <3>1, <3>2
    <3> QED
      BY <3>3
  <2>2. 1 \in DOMAIN longer
    BY <1>1, <1>3
  <2> QED
    BY <1>6, <2>1, <2>2
<1>9. ASSUME NEW j \in DOMAIN longer, NEW k \in DOMAIN longer, j < k PROVE at2[j] < at2[k]
  <2>1. k \in 2..(Len(words) + 1) /\ k - 1 \in DOMAIN words /\ at2[k] = at[k - 1] /\ at2[k] \in places
    BY <1>1, <1>3, <1>5, <1>9
  <2>2. CASE j = 1
    BY <1>6, <2>1, <2>2
  <2>3. CASE j # 1
    <3>1. j - 1 \in DOMAIN words /\ at2[j] = at[j - 1] /\ j - 1 < k - 1
      BY <1>1, <1>3, <1>5, <1>9, <2>1, <2>3
    <3> QED
      BY <1>4, <2>1, <3>1
  <2> QED
    BY <2>2, <2>3
<1>10. ASSUME NEW k \in DOMAIN longer PROVE longer[k] = line[at2[k]]
  <2>1. CASE k = 1
    BY <1>3, <1>6, <2>1
  <2>2. CASE k # 1
    <3>1. k \in 2..(Len(words) + 1)
      BY <1>1, <1>3, <2>2
    <3> QED
      BY <1>3, <1>4, <1>5, <3>1
  <2> QED
    BY <2>1, <2>2
<1>11. Lists(longer, places \union {p})
  BY <1>7, <1>8, <1>9, <1>10 DEF Lists
<1> QED
  BY <1>3, <1>11 DEF longer

\* A server that starts has no arguments yet.
LEMMA InitOption == StartupInit => OptionInv
<1> SUFFICES ASSUME StartupInit PROVE OptionInv
  OBVIOUS
<1>1. /\ phase = "boot" /\ line = <<>> /\ argv = <<>> /\ i = 1 /\ result = 0
      /\ ~loadRequest /\ ~option_multi /\ ~run_once /\ inferior_filename = <<>> /\ inferior_args = <<>>
      /\ loadRequest \in BOOLEAN /\ option_multi \in BOOLEAN /\ run_once \in BOOLEAN
  BY DEF StartupInit
<1>2. Fresh
  BY <1>1, Zenon DEF Fresh
<1>3. argv \in Seq(Words) /\ i \in Int
  BY <1>1
<1> QED
  BY <1>1, <1>2, <1>3 DEF OptionInv, WordsKnown

\* As long as the line is the same, so are its places.
LEMMA WordsStay ==
  ASSUME line' = line, Lists(argv', Places(From')) PROVE Lists(argv, Places(From))'
<1>1. Places(From)' = Places(From')
  BY Zenon DEF Places
<1>2. PICK at \in [DOMAIN argv' -> Places(From')] :
        /\ \A p \in Places(From') : \E k \in DOMAIN argv' : at[k] = p
        /\ \A j, k \in DOMAIN argv' : j < k => at[j] < at[k]
        /\ \A k \in DOMAIN argv' : argv'[k] = line[at[k]]
  BY Zenon DEF Lists
<1>3. \A k \in DOMAIN argv' : argv'[k] = line'[at[k]]
  BY <1>2, Zenon
<1> QED
  BY <1>1, <1>2, <1>3, Zenon DEF Lists

\* The steps of the others.
LEMMA OptionStays ==
  ASSUME OptionInv,
         UNCHANGED <<phase, line, argv, i, loadRequest, option_multi, run_once,
                     inferior_filename, inferior_args, result>>
  PROVE  OptionInv'
<1>1. line' \in Lines \union {<<>>} /\ argv' \in Seq(Words) /\ i' \in Int
  BY DEF OptionInv
<1>2. loadRequest' \in BOOLEAN /\ option_multi' \in BOOLEAN /\ run_once' \in BOOLEAN
  BY Zenon DEF OptionInv
<1>3. (phase \in {"boot", "split"} => Fresh)'
  BY Zenon DEF OptionInv, Fresh
<1>4. (phase = "split" => line # <<>> /\ i \in 0..Len(line))'
  BY Zenon DEF OptionInv
<1>5. (WordsKnown => Lists(argv, Places(From)))'
  <2>1. WordsKnown' => Lists(argv', Places(From'))
    <3>1. WordsKnown' => WordsKnown
      BY Zenon DEF WordsKnown
    <3>2. From' = From
      BY Zenon DEF From
    <3> QED
      BY <3>1, <3>2, Zenon DEF OptionInv
  <2> QED
    BY <2>1, WordsStay
<1>6. (phase = "options" =>
         /\ i \in 1..(Len(argv) + 1) /\ result \in {0, -1}
         /\ \E name \in 1..i : ReadSoFar(name, i - 1) /\ (loadRequest <=> name < i))'
  BY Zenon DEF OptionInv, ReadSoFar
<1>7. (phase = "init" =>
         \E name \in 1..(Len(argv) + 1) :
           ReadSoFar(name, Len(argv)) /\ (result = 1 <=> name <= Len(argv) /\ ~option_multi))'
  BY Zenon DEF OptionInv, ReadSoFar
<1> QED
  BY <1>1, <1>2, <1>3, <1>4, <1>5, <1>6, <1>7, Zenon DEF OptionInv

\* An empty line has no arguments, and another is split from its end.
LEMMA ServerStartsOption == ASSUME OptionInv, NEW l \in Lines, ServerStarts(l) PROVE OptionInv'
<1>1. phase = "boot" /\ Fresh /\ UNCHANGED <<loadRequest, option_multi, run_once, inferior_filename, inferior_args, result>>
  BY Zenon DEF OptionInv, ServerStarts, optionVars
<1>2. /\ Fresh'
      /\ loadRequest' \in BOOLEAN /\ option_multi' \in BOOLEAN /\ run_once' \in BOOLEAN
  BY <1>1, Zenon DEF OptionInv, Fresh
<1>3. line' = l /\ argv' = <<>> /\ argv' \in Seq(Words) /\ l \in Seq(STRING)
  BY LinesAssumption DEF ServerStarts
<1>4. CASE l = <<>>
  <2>1. phase' = "options" /\ i' = 1
    BY <1>4 DEF ServerStarts
  <2>2. ReadSoFar(1, 0)'
    <3>1. inferior_filename' = <<>> /\ inferior_args' = <<>> /\ ~option_multi' /\ ~run_once'
      BY <1>2 DEF Fresh
    <3>2. {argv'[k] : k \in 1..(1 - 1)} = {}
      OBVIOUS
    <3>3. SubSeq(argv', 1 + 1, 0) = <<>>
      BY SubSeqEmpty
    <3> QED
      BY <3>1, <3>2, <3>3 DEF ReadSoFar, Spelling
  <2>3. result' \in {0, -1} /\ ~loadRequest'
    BY <1>2 DEF Fresh
  <2>4. Len(argv') = 0
    BY <1>3
  <2>5. \E name \in 1..i' : ReadSoFar(name, i - 1)' /\ (loadRequest' <=> name < i')
    <3>1. 1 \in 1..i' /\ i' - 1 = 0 /\ ~(1 < i')
      BY <2>1
    <3> QED
      BY <2>2, <2>3, <3>1 DEF ReadSoFar
  <2> QED
    BY <1>2, <1>3, <1>4, <2>1, <2>3, <2>4, <2>5 DEF OptionInv, WordsKnown
<1>5. CASE l # <<>>
  <2>1. phase' = "split" /\ i' = Len(l) /\ Len(l) \in Nat
    BY <1>3, <1>5 DEF ServerStarts
  <2>2. Places(From)' = {}
    BY <1>3, <2>1 DEF Places, From
  <2>3. Lists(argv, Places(From))'
    BY <1>3, <2>2, NoWords DEF Lists
  <2> QED
    BY <1>2, <1>3, <1>5, <2>1, <2>3 DEF OptionInv
<1> QED
  BY <1>4, <1>5

\* A place behind the start has a word of the list as soon as the space before it was met.
LEMMA SplitOption == ASSUME OptionInv, Split PROVE OptionInv'
<1>1. /\ phase = "split" /\ phase' = "split" /\ i' = i - 1 /\ line' = line
      /\ argv' = IF EndsGap(i) THEN <<WordAt(i + 1)>> \o argv ELSE argv
      /\ UNCHANGED <<loadRequest, option_multi, run_once, inferior_filename, inferior_args, result>>
  BY DEF Split, optionVars
<1>2. /\ line \in Lines \union {<<>>} /\ line # <<>> /\ i \in 0..Len(line) /\ i > 0
      /\ argv \in Seq(Words) /\ Lists(argv, Places(i + 2)) /\ Fresh
  BY <1>1 DEF OptionInv, WordsKnown, From, Split
<1>3. line \in Lines /\ line \in Seq(STRING) /\ DOMAIN line = 1..Len(line) /\ Len(line) \in Nat /\ i \in 1..Len(line)
  BY <1>2, LinesAssumption
<1>4. /\ Fresh'
      /\ loadRequest' \in BOOLEAN /\ option_multi' \in BOOLEAN /\ run_once' \in BOOLEAN
  BY <1>1, <1>2, Zenon DEF OptionInv, Fresh
<1>5. Lists(argv', Places(i + 1)) /\ argv' \in Seq(Words)
  <2>1. CASE EndsGap(i)
    <3>1. i + 1 \in DOMAIN line /\ line[i + 1] # Space /\ WordAt(i + 1) = line[i + 1]
      BY <1>3, <2>1 DEF EndsGap, WordAt
    <3>2. /\ Places(i + 1) = Places(i + 2) \union {i + 1} /\ Places(i + 2) \in SUBSET DOMAIN line
          /\ \A q \in Places(i + 2) : i + 1 < q
      BY <1>3, <3>1 DEF Places
    <3> QED
      BY <1>1, <1>2, <1>3, <2>1, <3>1, <3>2, WordInFront
  <2>2. CASE ~EndsGap(i)
    <3>1. i = Len(line) \/ line[i + 1] = Space
      <4>1. i \in Int /\ Len(line) \in Int /\ 1 <= i /\ i <= Len(line)
        BY <1>3
      <4>2. SUFFICES ASSUME i < Len(line), line[i + 1] # Space PROVE FALSE
        BY <4>1
      <4>3. i \in 1..(Len(line) - 1)
        BY <4>1, <4>2
      <4>4. Space \in {line[i], line[i + 1]}
        BY <1>2, <4>3, LinesAssumption, Zenon
      <4> QED
        BY <2>2, <4>2, <4>4, Zenon DEF EndsGap
    <3>2. ASSUME NEW k \in DOMAIN line, line[k] # Space PROVE k >= i + 1 <=> k >= i + 2
      <4>1. k # i + 1
        <5>1. CASE i = Len(line)
          BY <1>3, <5>1
        <5>2. CASE line[i + 1] = Space
          BY <3>2, <5>2, Zenon
        <5> QED
          BY <3>1, <5>1, <5>2
      <4> QED
        BY <1>3, <4>1
    <3>3. Places(i + 1) = Places(i + 2)
      BY <3>2 DEF Places
    <3> QED
      BY <1>1, <1>2, <2>2, <3>3
  <2> QED
    BY <2>1, <2>2
<1>6. From' = i + 1
  BY <1>1, <1>3 DEF From
<1>7. Lists(argv, Places(From))'
  BY <1>1, <1>5, <1>6, WordsStay
<1>8. i' \in 0..Len(line') /\ i' \in Int
  BY <1>1, <1>3
<1> QED
  BY <1>1, <1>2, <1>4, <1>5, <1>7, <1>8 DEF OptionInv

\* The line is split: the word it starts with goes in front of the others.
LEMMA SplitEndsOption == ASSUME OptionInv, SplitEnds PROVE OptionInv'
<1>0. phase = "split" /\ phase' = "options" /\ i = 0 /\ i' = 1
  BY DEF SplitEnds
<1>1. /\ line' = line
      /\ argv' = <<WordAt(1)>> \o argv
      /\ UNCHANGED <<loadRequest, option_multi, run_once, inferior_filename, inferior_args, result>>
  BY DEF SplitEnds, optionVars
<1>2. /\ line \in Lines \union {<<>>} /\ line # <<>> /\ argv \in Seq(Words) /\ Lists(argv, Places(2)) /\ Fresh
  <2>1. i + 2 = 2
    BY <1>0
  <2>2. WordsKnown /\ From = 2
    BY <1>0, <2>1 DEF WordsKnown, From
  <2> QED
    BY <1>0, <2>2 DEF OptionInv
<1>3. line \in Seq(STRING) /\ DOMAIN line = 1..Len(line) /\ Len(line) \in Nat /\ 1 \in DOMAIN line
  BY <1>2, LinesAssumption
<1>4. /\ Fresh'
      /\ loadRequest' \in BOOLEAN /\ option_multi' \in BOOLEAN /\ run_once' \in BOOLEAN
  BY <1>1, <1>2, Zenon DEF OptionInv, Fresh
<1>5. argv' \in Seq(Words)
  <2>1. line[1] \in STRING
    BY <1>3, ElementOfSeq
  <2>2. WordAt(1) \in Words
    BY <2>1, Zenon DEF WordAt, Words
  <2>3. <<WordAt(1)>> \in Seq(Words)
    BY <2>2, OneWord
  <2> QED
    BY <1>1, <1>2, <2>3, ConcatProperties
<1>6. WordsKnown' => Lists(argv, Places(From))'
  <2> SUFFICES ASSUME WordsKnown' PROVE Lists(argv, Places(From))'
    OBVIOUS
  <2>1. line[1] # Space /\ From' = 1
    BY <1>0, <1>1 DEF WordsKnown, From
  <2>2. WordAt(1) = line[1]
    BY <2>1 DEF WordAt
  <2>3. /\ Places(1) = Places(2) \union {1} /\ Places(2) \in SUBSET DOMAIN line
        /\ \A q \in Places(2) : 1 < q
    BY <1>3, <2>1 DEF Places
  <2>4. Lists(<<line[1]>> \o argv, Places(1))
    BY <1>2, <1>3, <2>3, WordInFront
  <2> QED
    BY <1>1, <2>1, <2>2, <2>4, WordsStay
<1>7. ReadSoFar(1, 0)'
  <2>1. inferior_filename' = <<>> /\ inferior_args' = <<>> /\ ~option_multi' /\ ~run_once'
    BY <1>4 DEF Fresh
  <2>2. {argv'[k] : k \in 1..(1 - 1)} = {}
    OBVIOUS
  <2>3. SubSeq(argv', 1 + 1, 0) = <<>>
    BY SubSeqEmpty
  <2> QED
    BY <2>1, <2>2, <2>3 DEF ReadSoFar, Spelling
<1>8. result' \in {0, -1} /\ ~loadRequest'
  BY <1>4 DEF Fresh
<1>9. \E name \in 1..i' : ReadSoFar(name, i - 1)' /\ (loadRequest' <=> name < i')
  <2>1. 1 \in 1..i' /\ i' - 1 = 0 /\ ~(1 < i')
    BY <1>0
  <2> QED
    BY <1>7, <1>8, <2>1 DEF ReadSoFar
<1>10. i' \in 1..(Len(argv') + 1) /\ i' \in Int
  <2>1. Len(argv') \in Nat
    BY <1>5
  <2> QED
    BY <1>0, <2>1
<1> QED
  BY <1>0, <1>1, <1>2, <1>4, <1>5, <1>6, <1>8, <1>9, <1>10 DEF OptionInv

\* What HandleOptions knows before a step of its loop.
LEMMA Reading ==
  ASSUME OptionInv, NextArg
  PROVE  /\ phase = "options" /\ UNCHANGED <<phase, line, argv>>
         /\ argv \in Seq(Words) /\ i \in 1..Len(argv) /\ i' = i + 1 /\ argv[i] \in Words
         /\ result \in {0, -1}
         /\ \E name \in 1..i : ReadSoFar(name, i - 1) /\ (loadRequest <=> name < i)
<1>1. /\ phase = "options" /\ UNCHANGED <<phase, line, argv>> /\ i <= Len(argv) /\ i' = i + 1
  BY DEF NextArg
<1>2. /\ argv \in Seq(Words) /\ i \in 1..(Len(argv) + 1) /\ result \in {0, -1}
      /\ \E name \in 1..i : ReadSoFar(name, i - 1) /\ (loadRequest <=> name < i)
  BY <1>1 DEF OptionInv
<1>3. i \in 1..Len(argv)
  BY <1>1, <1>2
<1> QED
  BY <1>1, <1>2, <1>3, ElementOfSeq

\* After it.
LEMMA Read ==
  ASSUME OptionInv, NextArg, result' \in {0, -1},
         loadRequest' \in BOOLEAN, option_multi' \in BOOLEAN, run_once' \in BOOLEAN,
         NEW name \in 1..(i + 1), ReadSoFar(name, i - 1)', loadRequest' <=> name < i + 1
  PROVE  OptionInv'
<1>1. /\ phase = "options" /\ phase' = "options" /\ line' = line /\ argv' = argv
      /\ argv \in Seq(Words) /\ i \in 1..Len(argv) /\ i' = i + 1
  BY Reading
<1>2. line' \in Lines \union {<<>>}
  BY <1>1 DEF OptionInv
<1>3. WordsKnown' => Lists(argv, Places(From))'
  <2>1. WordsKnown' => WordsKnown
    BY <1>1, Zenon DEF WordsKnown
  <2>2. From' = From
    BY <1>1 DEF From
  <2>3. WordsKnown' => Lists(argv', Places(From'))
    BY <1>1, <2>1, <2>2, Zenon DEF OptionInv
  <2> QED
    BY <1>1, <2>3, WordsStay
<1>4. i' \in 1..(Len(argv') + 1) /\ i' \in Int /\ name \in 1..i' /\ (loadRequest' <=> name < i')
  BY <1>1
<1> QED
  BY <1>1, <1>2, <1>3, <1>4 DEF OptionInv

\* A word of the server's own.
LEMMA OwnWordRead ==
  ASSUME OptionInv, NextArg, ~loadRequest, argv[i] \in OwnWords,
         UNCHANGED <<loadRequest, inferior_filename, inferior_args>>, result' \in {0, -1},
         option_multi' \in BOOLEAN, run_once' \in BOOLEAN,
         option_multi' <=> option_multi \/ argv[i] = "--multi",
         run_once' <=> run_once \/ argv[i] = "--once"
  PROVE  OptionInv'
<1>1. /\ argv' = argv /\ argv \in Seq(Words) /\ i \in 1..Len(argv) /\ i' = i + 1
      /\ \E name \in 1..i : ReadSoFar(name, i - 1) /\ (loadRequest <=> name < i)
  BY Reading
<1>2. ReadSoFar(i, i - 1)
  BY <1>1
<1> DEFINE before == {argv[k] : k \in 1..(i - 1)}
           all == {argv[k] : k \in 1..((i + 1) - 1)}
<1>3. /\ before \subseteq OwnWords /\ inferior_filename = Spelling("")
      /\ inferior_args = SubSeq(argv, i + 1, i - 1)
      /\ (option_multi <=> "--multi" \in before) /\ (run_once <=> "--once" \in before)
  <2>1. ~(i <= i - 1)
    BY <1>1
  <2> QED
    BY <1>2, <2>1 DEF ReadSoFar
<1>4. all = before \union {argv[i]}
  BY <1>1
<1>5. inferior_args = SubSeq(argv, (i + 1) + 1, i)
  <2>1. SubSeq(argv, i + 1, i - 1) = <<>>
    BY <1>1, SubSeqEmpty
  <2>2. SubSeq(argv, (i + 1) + 1, i) = <<>>
    BY <1>1, SubSeqEmpty
  <2> QED
    BY <1>3, <2>1, <2>2
<1>6. all \subseteq OwnWords /\ (option_multi' <=> "--multi" \in all) /\ (run_once' <=> "--once" \in all)
  BY <1>3, <1>4
<1>7. i + 1 \in 1..(i + 1) /\ ~(i + 1 <= i) /\ ~(i + 1 < i + 1) /\ i' - 1 = i
  BY <1>1
<1> HIDE DEF before, all
<1>8. PICK next \in 1..(i + 1) : next = i + 1
  BY <1>7
<1>9. /\ {argv'[k] : k \in 1..(next - 1)} = all /\ ~(next <= i' - 1)
      /\ inferior_filename' = Spelling("") /\ inferior_args' = SubSeq(argv', next + 1, i' - 1)
      /\ next \in 1..((i' - 1) + 1)
  BY <1>1, <1>3, <1>5, <1>7, <1>8 DEF all
<1>10. Spelling(IF next <= i - 1 THEN argv[next] ELSE "")' = Spelling("")
  BY <1>9 DEF Spelling
<1>11. ReadSoFar(next, i - 1)'
  BY <1>6, <1>9, <1>10 DEF ReadSoFar
<1>12. loadRequest' \in BOOLEAN
  BY Zenon DEF OptionInv
<1>13. loadRequest' <=> next < i + 1
  BY <1>1, <1>8
<1> QED
  BY <1>8, <1>11, <1>12, <1>13, Read

\* The flags of the options.
LEMMA OptionOption == ASSUME OptionInv, Option PROVE OptionInv'
<1>1. NextArg /\ ~loadRequest /\ argv[i] \in OwnWords
  BY DEF Option, Arg, OwnWords
<1>2. UNCHANGED <<loadRequest, inferior_filename, inferior_args, result>>
  BY DEF Option
<1>3. result' \in {0, -1}
  BY <1>1, <1>2, Reading
<1>4. option_multi' = (option_multi \/ argv[i] = "--multi") /\ run_once' = (run_once \/ argv[i] = "--once")
  BY Zenon DEF Option, Arg
<1>5. /\ option_multi' \in BOOLEAN /\ (option_multi' <=> option_multi \/ argv[i] = "--multi")
      /\ run_once' \in BOOLEAN /\ (run_once' <=> run_once \/ argv[i] = "--once")
  BY <1>4, Zenon
<1> QED
  BY <1>1, <1>2, <1>3, <1>5, OwnWordRead

\* An unknown option, or the name of a port, is neither --multi nor --once.
LEMMA OtherWordOption == ASSUME OptionInv, UnknownOption \/ ComMethod PROVE OptionInv'
<1>1. NextArg /\ ~loadRequest /\ argv[i] \in OwnWords /\ argv[i] \notin Options
  BY OptionsAssumption DEF UnknownOption, ComMethod, Arg, OwnWords
<1>2. UNCHANGED <<loadRequest, inferior_filename, inferior_args, option_multi, run_once>>
  BY DEF UnknownOption, ComMethod
<1>3. result' \in {0, -1}
  BY <1>1, Reading DEF UnknownOption, ComMethod
<1>4. argv[i] # "--multi" /\ argv[i] # "--once"
  BY <1>1, OptionsAssumption
<1>5. option_multi' \in BOOLEAN /\ run_once' \in BOOLEAN
  BY <1>2, Zenon DEF OptionInv
<1>6. (option_multi' <=> option_multi \/ argv[i] = "--multi") /\ (run_once' <=> run_once \/ argv[i] = "--once")
  BY <1>2, <1>4, Zenon
<1> QED
  BY <1>1, <1>2, <1>3, <1>5, <1>6, OwnWordRead

\* The first other word is the name.
LEMMA InferiorFileOption == ASSUME OptionInv, InferiorFile PROVE OptionInv'
<1>1. /\ NextArg /\ ~loadRequest /\ argv[i] \notin OwnWords
      /\ inferior_filename' = Spelling(argv[i]) /\ loadRequest' = TRUE
      /\ UNCHANGED <<option_multi, run_once, inferior_args, result>>
  BY DEF InferiorFile, Arg
<1>2. /\ argv' = argv /\ argv \in Seq(Words) /\ i \in 1..Len(argv) /\ i' = i + 1 /\ result' \in {0, -1}
      /\ \E name \in 1..i : ReadSoFar(name, i - 1) /\ (loadRequest <=> name < i)
  BY <1>1, Reading
<1>3. ReadSoFar(i, i - 1)
  BY <1>1, <1>2
<1> DEFINE before == {argv[k] : k \in 1..(i - 1)}
<1>4. /\ before \subseteq OwnWords /\ inferior_args = SubSeq(argv, i + 1, i - 1)
      /\ (option_multi <=> "--multi" \in before) /\ (run_once <=> "--once" \in before)
  BY <1>3, <1>2 DEF ReadSoFar
<1>5. inferior_args = SubSeq(argv, i + 1, i)
  <2>1. SubSeq(argv, i + 1, i - 1) = <<>>
    BY <1>2, SubSeqEmpty
  <2>2. SubSeq(argv, i + 1, i) = <<>>
    BY <1>2, SubSeqEmpty
  <2> QED
    BY <1>4, <2>1, <2>2
<1> HIDE DEF before
<1>6. PICK name \in 1..(i + 1) : name = i
  BY <1>2
<1>7. /\ {argv'[k] : k \in 1..(name - 1)} = before /\ name <= i' - 1 /\ argv'[name] \notin OwnWords
      /\ inferior_filename' = Spelling(argv'[name]) /\ inferior_args' = SubSeq(argv', name + 1, i' - 1)
      /\ name \in 1..((i' - 1) + 1)
  BY <1>1, <1>2, <1>5, <1>6 DEF before
<1>8. Spelling(IF name <= i - 1 THEN argv[name] ELSE "")' = Spelling(argv'[name])
  BY <1>7 DEF Spelling
<1>9. (option_multi' <=> "--multi" \in before) /\ (run_once' <=> "--once" \in before)
  BY <1>1, <1>4, Zenon
<1>10. ReadSoFar(name, i - 1)'
  BY <1>4, <1>7, <1>8, <1>9 DEF ReadSoFar
<1>11. loadRequest' \in BOOLEAN /\ option_multi' \in BOOLEAN /\ run_once' \in BOOLEAN
  BY <1>1, Zenon DEF OptionInv
<1>12. loadRequest' <=> name < i + 1
  BY <1>1, <1>2, <1>6
<1> QED
  BY <1>1, <1>2, <1>6, <1>10, <1>11, <1>12, Read

\* What follows the name is kept for the program.
LEMMA InferiorArgOption == ASSUME OptionInv, InferiorArg PROVE OptionInv'
<1>1. /\ NextArg /\ loadRequest /\ inferior_args' = Append(inferior_args, argv[i])
      /\ UNCHANGED <<loadRequest, option_multi, run_once, inferior_filename, result>>
  BY DEF InferiorArg, Arg
<1>2. /\ argv' = argv /\ argv \in Seq(Words) /\ i \in 1..Len(argv) /\ i' = i + 1 /\ result' \in {0, -1}
      /\ \E name \in 1..i : ReadSoFar(name, i - 1) /\ (loadRequest <=> name < i)
      /\ argv[i] \in Words
  BY <1>1, Reading
<1>3. PICK name \in 1..i : ReadSoFar(name, i - 1) /\ (loadRequest <=> name < i)
  BY <1>2
<1> DEFINE before == {argv[k] : k \in 1..(name - 1)}
<1>4. name \in 1..(i - 1)
  BY <1>1, <1>2, <1>3
<1>5. /\ before \subseteq OwnWords /\ argv[name] \notin OwnWords
      /\ inferior_filename = Spelling(argv[name]) /\ inferior_args = SubSeq(argv, name + 1, i - 1)
      /\ (option_multi <=> "--multi" \in before) /\ (run_once <=> "--once" \in before)
  <2>1. name <= i - 1
    BY <1>2, <1>4
  <2> QED
    BY <1>3, <2>1, Zenon DEF ReadSoFar
<1>6. inferior_args' = SubSeq(argv, name + 1, i)
  <2>1. name + 1 \in 1..Len(argv) /\ i \in (name + 1)..Len(argv)
    BY <1>2, <1>4
  <2>2. SubSeq(argv, name + 1, i) = SubSeq(argv, name + 1, i - 1) \o <<argv[i]>>
    BY <1>2, <2>1, SubSeqRecursiveSecond
  <2>3. \A k \in (name + 1)..(i - 1) : argv[k] \in Words
    BY <1>2, <1>4, ElementOfSeq
  <2>4. SubSeq(argv, name + 1, i - 1) \in Seq(Words)
    BY <1>2, <1>4, <2>3, SubSeqProperties
  <2>5. Append(SubSeq(argv, name + 1, i - 1), argv[i]) = SubSeq(argv, name + 1, i - 1) \o <<argv[i]>>
    BY <1>2, <2>4, AppendIsConcat
  <2> QED
    BY <1>1, <1>5, <2>2, <2>5
<1> HIDE DEF before
<1>7. /\ {argv'[k] : k \in 1..(name - 1)} = before /\ name <= i' - 1 /\ argv'[name] \notin OwnWords
      /\ inferior_filename' = Spelling(argv'[name]) /\ inferior_args' = SubSeq(argv', name + 1, i' - 1)
      /\ name \in 1..((i' - 1) + 1)
  <2>1. i' - 1 = i /\ name <= i /\ name \in 1..(i + 1)
    BY <1>2, <1>4
  <2> QED
    BY <1>1, <1>2, <1>5, <1>6, <2>1 DEF before
<1>8. Spelling(IF name <= i - 1 THEN argv[name] ELSE "")' = Spelling(argv'[name])
  BY <1>7 DEF Spelling
<1>9. (option_multi' <=> "--multi" \in before) /\ (run_once' <=> "--once" \in before)
  BY <1>1, <1>5, Zenon
<1>10. ReadSoFar(name, i - 1)'
  BY <1>5, <1>7, <1>8, <1>9 DEF ReadSoFar
<1>11. loadRequest' \in BOOLEAN /\ option_multi' \in BOOLEAN /\ run_once' \in BOOLEAN
  BY <1>1, Zenon DEF OptionInv
<1>12. loadRequest' <=> name < i + 1
  BY <1>1, <1>2, <1>4
<1> QED
  BY <1>2, <1>1, <1>4, <1>10, <1>11, <1>12, Read

\* With the last argument read, the flags say whether a program is loaded at once.
LEMMA OptionsDoneOption == ASSUME OptionInv, OptionsDone PROVE OptionInv'
<1>1. /\ phase = "options" /\ i > Len(argv) /\ UNCHANGED <<line, argv, i>>
      /\ phase' = IF result' < 0 THEN "failed" ELSE "init"
  BY DEF OptionsDone
<1>2. /\ argv \in Seq(Words) /\ i \in 1..(Len(argv) + 1) /\ result \in {0, -1}
      /\ \E name \in 1..i : ReadSoFar(name, i - 1) /\ (loadRequest <=> name < i)
  BY <1>1 DEF OptionInv
<1>3. i = Len(argv) + 1 /\ i - 1 = Len(argv) /\ Len(argv) \in Nat
  BY <1>1, <1>2
<1>4. PICK name \in 1..(Len(argv) + 1) : ReadSoFar(name, Len(argv)) /\ (loadRequest <=> name <= Len(argv))
  BY <1>2, <1>3
<1>5. /\ UNCHANGED <<option_multi, run_once, inferior_filename, inferior_args>>
      /\ loadRequest' = (loadRequest /\ ~option_multi)
  BY Zenon DEF OptionsDone
<1>6. loadRequest' \in BOOLEAN /\ option_multi' \in BOOLEAN /\ run_once' \in BOOLEAN
  BY <1>5, Zenon DEF OptionInv
<1>7. loadRequest' <=> name <= Len(argv) /\ ~option_multi'
  BY <1>4, <1>5, Zenon
<1>8. result' = IF result = 0 /\ loadRequest' THEN 1 ELSE result
  BY DEF OptionsDone
<1>9. phase' = "init" => (result' = 1 <=> loadRequest')
  BY <1>1, <1>2, <1>8
<1>10. ReadSoFar(name, Len(argv))'
  BY <1>1, <1>4, <1>5, Zenon DEF ReadSoFar
<1>11. phase' = "init" =>
         \E n \in 1..(Len(argv') + 1) :
           ReadSoFar(n, Len(argv))' /\ (result' = 1 <=> n <= Len(argv') /\ ~option_multi')
  <2> SUFFICES ASSUME phase' = "init"
               PROVE  name \in 1..(Len(argv') + 1) /\ ReadSoFar(name, Len(argv))'
                        /\ (result' = 1 <=> name <= Len(argv') /\ ~option_multi')
    BY Zenon
  <2>1. Len(argv') = Len(argv)
    BY <1>1
  <2> QED
    BY <1>4, <1>7, <1>9, <1>10, <2>1, Zenon
<1>12. (WordsKnown => Lists(argv, Places(From)))'
  <2>1. WordsKnown' => WordsKnown
    BY <1>1, Zenon DEF WordsKnown
  <2>2. phase' # "split" /\ phase # "split"
    BY <1>1
  <2>3. From' = 1 /\ From = 1
    BY <2>2 DEF From
  <2>4. WordsKnown' => Lists(argv', Places(From'))
    BY <1>1, <2>1, <2>3, Zenon DEF OptionInv
  <2> QED
    BY <1>1, <2>4, WordsStay
<1>13. line' \in Lines \union {<<>>} /\ argv' \in Seq(Words) /\ i' \in Int
  BY <1>1 DEF OptionInv
<1>14. phase' \in {"init", "failed"}
  BY <1>1
<1> QED
  BY <1>6, <1>11, <1>12, <1>13, <1>14 DEF OptionInv

\* The command line is not looked at any more.
LEMMA ServingOption ==
  ASSUME OptionInv, phase' \in {"serving", "failed"},
         UNCHANGED <<line, argv, i, loadRequest, option_multi, run_once>>
  PROVE  OptionInv'
<1>1. line' \in Lines \union {<<>>} /\ argv' \in Seq(Words) /\ i' \in Int
  BY DEF OptionInv
<1>2. loadRequest' \in BOOLEAN /\ option_multi' \in BOOLEAN /\ run_once' \in BOOLEAN
  BY Zenon DEF OptionInv
<1>3. ~WordsKnown'
  BY DEF WordsKnown
<1> QED
  BY <1>1, <1>2, <1>3 DEF OptionInv

\* The next server knows nothing.
LEMMA ServerEndsOption == ASSUME OptionInv, ServerEnds PROVE OptionInv'
<1>1. /\ phase' = "boot" /\ line' = <<>> /\ argv' = <<>> /\ i' = 1 /\ result' = 0
      /\ ~loadRequest' /\ ~option_multi' /\ ~run_once' /\ inferior_filename' = <<>> /\ inferior_args' = <<>>
      /\ loadRequest' \in BOOLEAN /\ option_multi' \in BOOLEAN /\ run_once' \in BOOLEAN
  BY DEF ServerEnds
<1>2. Fresh'
  BY <1>1, Zenon DEF Fresh
<1>3. argv' \in Seq(Words) /\ i' \in Int
  BY <1>1
<1> QED
  BY <1>1, <1>2, <1>3 DEF OptionInv, WordsKnown

\* Neither the jar nor the driver has to do with the command line.
LEMMA StepOption == OptionInv /\ [StartupNext]_startupVars => OptionInv'
<1> SUFFICES ASSUME OptionInv, [StartupNext]_startupVars PROVE OptionInv'
  OBVIOUS
<1>1. ASSUME NEW r \in Residents, ResidentStarts(r) PROVE OptionInv'
  BY <1>1, OptionStays DEF ResidentStarts, serverVars, optionVars
<1>2. ASSUME NEW ext \in Extensions, PutCookie(ext) \/ NeedMoreCookies(ext) PROVE OptionInv'
  BY <1>2, OptionStays DEF PutCookie, NeedMoreCookies, serverVars, optionVars
<1>3. CASE FoundSameCookie \/ UNCHANGED startupVars
  BY <1>3, OptionStays DEF FoundSameCookie, startupVars, optionVars
<1>4. ASSUME NEW l \in Lines, ServerStarts(l) PROVE OptionInv'
  BY <1>4, ServerStartsOption
<1>5. CASE Split \/ SplitEnds
  BY <1>5, SplitOption, SplitEndsOption
<1>6. CASE Option \/ UnknownOption \/ ComMethod \/ InferiorFile \/ InferiorArg
  BY <1>6, OptionOption, OtherWordOption, InferiorFileOption, InferiorArgOption
<1>7. CASE OptionsDone \/ ServerEnds
  BY <1>7, OptionsDoneOption, ServerEndsOption
<1>8. CASE InitComm
  BY <1>8, ServingOption DEF InitComm, optionVars
<1>9. ASSUME NEW word, NEW args, VRun(word, args) PROVE OptionInv'
  BY <1>9, ServingOption DEF VRun
<1> QED
  BY <1>1, <1>2, <1>3, <1>4, <1>5, <1>6, <1>7, <1>8, <1>9 DEF StartupNext

\* What is known of the line and of its arguments when both are read.
LEMMA AllRead == OptionInv => ProgramArguments
<1> SUFFICES ASSUME OptionInv, phase = "init", line # <<>>, line[1] # Space
             PROVE  ProgramArguments
  BY Zenon DEF ProgramArguments
<1>1. WordsKnown /\ From = 1
  BY DEF WordsKnown, From
<1>2. PICK name \in 1..(Len(argv) + 1) :
        ReadSoFar(name, Len(argv)) /\ (result = 1 <=> name <= Len(argv) /\ ~option_multi)
  BY Zenon DEF OptionInv
<1>3. option_multi <=> Multi(name)
  BY <1>2, Zenon DEF ReadSoFar, Multi
<1>4. Parsed(name, Len(argv))
  BY <1>2, Zenon DEF ReadSoFar, Parsed
<1>5. Lists(argv, Places(1))
  BY <1>1, Zenon DEF OptionInv
<1> QED
  BY <1>2, <1>3, <1>4, <1>5, Zenon DEF ProgramArguments

\* Whatever the words and however many spaces are between them: the server gets its
\* options, and the program its name and all the arguments behind it (start.s:38-77,
\* main.c:42-137).
THEOREM ArgumentsAreSplit == StartupSpec => []ProgramArguments
BY InitOption, StepOption, AllRead, PTL DEF StartupSpec

-----------------------------------------------------------------------------
(* Texts and parts *)

\* A text is a sequence of positions.
LEMMA TextIsSeq ==
  ASSUME NEW first \in Nat, NEW n \in Nat
  PROVE  /\ Text(first, n) \in Seq(Nat) /\ Len(Text(first, n)) = n
         /\ \A k \in 1..n : Text(first, n)[k] = first + k - 1
<1>1. \A k \in 1..n : first + k - 1 \in Nat
  OBVIOUS
<1>2. Text(first, n) \in [1..n -> Nat]
  BY <1>1 DEF Text
<1>3. Text(first, n) \in Seq(Nat)
  BY <1>2, SeqDef
<1>4. DOMAIN Text(first, n) = 1..n /\ DOMAIN Text(first, n) = 1..Len(Text(first, n))
  BY <1>2, <1>3, LenProperties
<1>5. Len(Text(first, n)) = n
  BY <1>3, <1>4, LenProperties
<1> QED
  BY <1>3, <1>5 DEF Text

\* What follows a text continues it.
LEMMA TextJoins ==
  ASSUME NEW first \in Nat, NEW n \in Nat, NEW m \in Nat
  PROVE  Text(first, n) \o Text(first + n, m) = Text(first, n + m)
<1> DEFINE a == Text(first, n)
           b == Text(first + n, m)
           c == Text(first, n + m)
<1>0. first + n \in Nat /\ n + m \in Nat
  OBVIOUS
<1>1. a \in Seq(Nat) /\ Len(a) = n /\ \A k \in 1..n : a[k] = first + k - 1
  BY TextIsSeq
<1>2. b \in Seq(Nat) /\ Len(b) = m /\ \A k \in 1..m : b[k] = (first + n) + k - 1
  BY <1>0, TextIsSeq
<1>3. c \in Seq(Nat) /\ Len(c) = n + m /\ \A k \in 1..(n + m) : c[k] = first + k - 1
  BY <1>0, TextIsSeq
<1> HIDE DEF a, b, c
<1>4. /\ a \o b \in Seq(Nat) /\ Len(a \o b) = n + m
      /\ \A k \in 1..(n + m) : (a \o b)[k] = IF k <= n THEN a[k] ELSE b[k - n]
  BY <1>1, <1>2, ConcatProperties
<1>5. ASSUME NEW k \in 1..(n + m)
      PROVE  (a \o b)[k] = c[k]
  <2>1. CASE k <= n
    BY <1>1, <1>3, <1>4, <2>1
  <2>2. CASE ~(k <= n)
    <3>1. k - n \in 1..m /\ (first + n) + (k - n) - 1 = first + k - 1
      BY <2>2
    <3> QED
      BY <1>2, <1>3, <1>4, <2>2, <3>1
  <2> QED
    BY <2>1, <2>2
<1>6. a \o b = c
  BY <1>3, <1>4, <1>5, SeqEqual
<1> QED
  BY <1>6 DEF a, b, c

\* No character is no text.
LEMMA EmptyText == ASSUME NEW first \in Nat PROVE Text(first, 0) = <<>>
BY TextIsSeq, EmptySeq

\* Each part begins where the one before it ends, the first one at 0.
LEMMA PartsFollow ==
  ASSUME fpu \in BOOLEAN
  PROVE  /\ NumParts \in {3, 4} /\ Start(1) = 0 /\ XmlLen \in Nat
         /\ \A p \in 1..NumParts : /\ Start(p) \in Nat /\ Start(p + 1) \in Nat
                                   /\ Start(p) < Start(p + 1)
<1>0. HeaderLen \in Nat \ {0} /\ CpuLen \in Nat \ {0} /\ FpuLen \in Nat \ {0} /\ FooterLen \in Nat \ {0}
  BY PartsAssumption
<1>1. CASE fpu
  <2>1. NumParts = 4
    BY <1>1 DEF NumParts
  <2>2. /\ Start(1) = 0 /\ Start(2) = HeaderLen /\ Start(3) = HeaderLen + CpuLen
        /\ Start(4) = HeaderLen + CpuLen + FpuLen
        /\ Start(5) = HeaderLen + CpuLen + FpuLen + FooterLen
    BY <1>1 DEF Start, Starts
  <2>3. \A p \in 1..4 : Start(p) \in Nat /\ Start(p + 1) \in Nat /\ Start(p) < Start(p + 1)
    <3> TAKE p \in 1..4
    <3>1. p = 1 \/ p = 2 \/ p = 3 \/ p = 4
      OBVIOUS
    <3> QED
      BY <1>0, <2>2, <3>1
  <2> QED
    BY <1>0, <2>1, <2>2, <2>3 DEF XmlLen
<1>2. CASE ~fpu
  <2>1. NumParts = 3
    BY <1>2 DEF NumParts
  <2>2. /\ Start(1) = 0 /\ Start(2) = HeaderLen /\ Start(3) = HeaderLen + CpuLen
        /\ Start(4) = HeaderLen + CpuLen + FooterLen
    BY <1>2 DEF Start, Starts
  <2>3. \A p \in 1..3 : Start(p) \in Nat /\ Start(p + 1) \in Nat /\ Start(p) < Start(p + 1)
    <3> TAKE p \in 1..3
    <3>1. p = 1 \/ p = 2 \/ p = 3
      OBVIOUS
    <3> QED
      BY <1>0, <2>2, <3>1
  <2> QED
    BY <1>0, <2>1, <2>2, <2>3 DEF XmlLen
<1> QED
  BY <1>1, <1>2

-----------------------------------------------------------------------------
(* The description *)

\* While a reply is put together: what it has follows what gdb has, what is still
\* to be copied lies within the description and within what gdb asked for, and
\* the loop stands where the next character is.
Place ==
  reading = "waits" =>
    /\ reply = Text(Len(received), Len(reply))
    /\ Len(received) + Len(reply) + len <= XmlLen
    /\ ~more => Len(received) + Len(reply) + len = XmlLen
    /\ Len(reply) + len <= asked
    /\ len > 0 => Start(ix) + offset = Len(received) + Len(reply)

Fits == Len(reply) <= asked /\ asked < PacketSize

XmlInv == XmlTypeOK /\ PrefixReceived /\ Place /\ Fits

\* Lengths are numbers.
LEMMA XmlNumbers ==
  ASSUME XmlTypeOK
  PROVE  /\ Len(received) \in Nat /\ Len(reply) \in Nat
         /\ asked \in Nat /\ offset \in Nat /\ len \in Nat /\ ix \in Nat
         /\ XmlLen \in Nat /\ MaxRead \in Nat \ {0} /\ PacketSize \in Nat
         /\ NumParts \in {3, 4} /\ fpu \in BOOLEAN
<1>1. received \in Seq(Nat) /\ reply \in Seq(Nat) /\ fpu \in BOOLEAN
  BY DEF XmlTypeOK
<1>2. NumParts \in {3, 4} /\ XmlLen \in Nat
  BY <1>1, PartsFollow
<1> QED
  BY <1>1, <1>2, LenProperties, SizesAssumption DEF XmlTypeOK

\* gdb has nothing of the description at first.
LEMMA InitXml == XmlInit => XmlInv
<1> SUFFICES ASSUME XmlInit PROVE XmlInv
  OBVIOUS
<1>1. fpu \in BOOLEAN /\ NumParts \in {3, 4} /\ XmlLen \in Nat
  BY PartsFollow DEF XmlInit
<1>2. <<>> \in Seq(Nat) /\ Len(<<>>) = 0
  BY EmptySeq
<1>3. more \in BOOLEAN
  BY Zenon DEF XmlInit
<1>4. XmlTypeOK
  BY <1>1, <1>2, <1>3 DEF XmlInit, XmlTypeOK
<1>5. PrefixReceived
  BY <1>1, <1>2, EmptyText DEF XmlInit, PrefixReceived
<1>6. Place /\ Fits
  BY <1>2, SizesAssumption DEF XmlInit, Place, Fits
<1> QED
  BY <1>4, <1>5, <1>6 DEF XmlInv

\* The number of parts and their places stay.
LEMMA PartsStay ==
  ASSUME fpu' = fpu
  PROVE  NumParts' = NumParts /\ XmlLen' = XmlLen /\ \A p : Start(p)' = Start(p)
BY DEF NumParts, XmlLen, Start, Starts

\* A chunk lies within the description and within what gdb asked for, and the
\* last one goes to the end.
LEMMA ChunkFits ==
  ASSUME XmlTypeOK, NEW first \in Nat, first <= XmlLen, NEW n \in ReadLens
  PROVE  /\ ChunkLen(first, n) \in Nat /\ ChunkLen(first, n) <= n
         /\ first + ChunkLen(first, n) <= XmlLen
         /\ IsLast(first, n) => first + ChunkLen(first, n) = XmlLen
<1>1. XmlLen \in Nat /\ MaxRead \in Nat /\ n \in Nat /\ MaxRead <= n
  BY XmlNumbers, SizesAssumption
<1>2. CASE IsLast(first, n)
  BY <1>1, <1>2 DEF IsLast, ChunkLen
<1>3. CASE ~IsLast(first, n)
  BY <1>1, <1>3 DEF IsLast, ChunkLen
<1> QED
  BY <1>2, <1>3

\* A request for another part of the text preserves the invariant.
LEMMA AskKeeps == ASSUME XmlInv, NEW n \in ReadLens, Ask(n) PROVE XmlInv'
<1> DEFINE r == Len(received)
           c == ChunkLen(r, n)
<1>0. /\ XmlTypeOK /\ PrefixReceived /\ Place /\ Fits
      /\ r \in Nat /\ XmlLen \in Nat /\ r <= XmlLen
      /\ NumParts \in {3, 4}
      /\ n \in Nat /\ n < PacketSize /\ PacketSize \in Nat
  BY XmlNumbers, SizesAssumption DEF XmlInv, PrefixReceived
<1>1. /\ c \in Nat /\ c <= n /\ r + c <= XmlLen /\ (IsLast(r, n) => r + c = XmlLen)
  <2> HIDE DEF r
  <2> QED
    BY <1>0, ChunkFits
<1>2. /\ reading = "asks" /\ asked' = n /\ reading' = "waits" /\ more' = ~IsLast(r, n)
      /\ reply' = <<>> /\ ix' = 1 /\ offset' = r /\ len' = c
      /\ fpu' = fpu /\ received' = received
  BY DEF Ask
<1>3. NumParts' = NumParts /\ XmlLen' = XmlLen /\ Start(1)' = Start(1) /\ Start(1) = 0
  BY <1>0, <1>2, PartsStay, PartsFollow DEF XmlTypeOK
<1>4. Len(received') = r /\ reply' \in Seq(Nat) /\ Len(reply') = 0
  BY <1>2, EmptySeq
<1>5. more' \in BOOLEAN
  BY <1>2, Zenon DEF IsLast
<1>6. ~more' <=> IsLast(r, n)
  BY <1>2, Zenon DEF IsLast
<1> HIDE DEF r, c
<1>7. XmlTypeOK'
  BY <1>0, <1>1, <1>2, <1>3, <1>4, <1>5 DEF XmlTypeOK
<1>8. PrefixReceived'
  <2>1. received = Text(0, Len(received)) /\ Len(received) <= XmlLen
    BY <1>0 DEF PrefixReceived
  <2> QED
    BY <1>2, <1>3, <2>1 DEF PrefixReceived
<1>9. Text(r, 0) = <<>>
  BY <1>0, EmptyText
<1>10. Place'
  <2>1. Start(ix)' = 0
    BY <1>2, <1>3 DEF Start
  <2> QED
    BY <1>0, <1>1, <1>2, <1>3, <1>4, <1>6, <1>9, <2>1 DEF Place
<1>11. Fits'
  BY <1>0, <1>2, <1>4 DEF Fits
<1> QED
  BY <1>7, <1>8, <1>10, <1>11 DEF XmlInv

\* Passing by a part of the text preserves the invariant.
LEMMA SkipKeeps == ASSUME XmlInv, SkipPart PROVE XmlInv'
<1>0. /\ XmlTypeOK /\ PrefixReceived /\ Place /\ Fits
      /\ Len(received) \in Nat /\ Len(reply) \in Nat /\ XmlLen \in Nat
      /\ ix \in Nat /\ offset \in Nat /\ len \in Nat /\ NumParts \in {3, 4} /\ fpu \in BOOLEAN
  BY XmlNumbers DEF XmlInv
<1>1. /\ reading = "waits" /\ ix <= NumParts /\ len > 0 /\ offset >= PartLen
      /\ offset' = offset - PartLen /\ ix' = ix + 1
      /\ UNCHANGED <<fpu, reading, received, asked, more, reply, len>>
  BY DEF SkipPart, Copying
<1>2. ix \in 1..NumParts
  BY <1>0, <1>1 DEF XmlTypeOK
<1>3. Start(ix) \in Nat /\ Start(ix + 1) \in Nat /\ PartLen = Start(ix + 1) - Start(ix)
  BY <1>0, <1>2, PartsFollow DEF PartLen
<1>4. NumParts' = NumParts /\ XmlLen' = XmlLen /\ Start(ix)' = Start(ix + 1)
  BY <1>1 DEF NumParts, XmlLen, Start, Starts
<1>5. XmlTypeOK'
  BY <1>0, <1>1, <1>2, <1>3, <1>4 DEF XmlTypeOK
<1>6. PrefixReceived'
  BY <1>0, <1>1, <1>4 DEF PrefixReceived
<1>7. Start(ix)' + offset' = Start(ix) + offset
  BY <1>0, <1>1, <1>3, <1>4
<1>8. Place'
  BY <1>0, <1>1, <1>4, <1>7 DEF Place
<1>9. Fits'
  BY <1>0, <1>1 DEF Fits
<1> QED
  BY <1>5, <1>6, <1>8, <1>9 DEF XmlInv

\* Copying from a part of the text preserves the invariant.
LEMMA CopyKeeps == ASSUME XmlInv, CopyPart PROVE XmlInv'
<1> DEFINE r == Len(received)
           l == Len(reply)
           m == Copied
<1>0. /\ XmlTypeOK /\ PrefixReceived /\ Place /\ Fits
      /\ r \in Nat /\ l \in Nat /\ XmlLen \in Nat /\ asked \in Nat
      /\ ix \in Nat /\ offset \in Nat /\ len \in Nat /\ NumParts \in {3, 4} /\ fpu \in BOOLEAN
  BY XmlNumbers DEF XmlInv
<1>1. /\ reading = "waits" /\ ix <= NumParts /\ len > 0 /\ offset < PartLen
      /\ reply' = reply \o Text(Start(ix) + offset, m)
      /\ len' = len - m /\ offset' = 0 /\ ix' = ix + 1
      /\ UNCHANGED <<fpu, reading, received, asked, more>>
  BY DEF CopyPart, Copying
<1>2. ix \in 1..NumParts
  BY <1>0, <1>1 DEF XmlTypeOK
<1>3. Start(ix) \in Nat /\ Start(ix + 1) \in Nat /\ PartLen = Start(ix + 1) - Start(ix)
  BY <1>0, <1>2, PartsFollow DEF PartLen
<1>4. NumParts' = NumParts /\ XmlLen' = XmlLen /\ Start(ix)' = Start(ix + 1)
  BY <1>1 DEF NumParts, XmlLen, Start, Starts
<1>5. m \in Nat /\ m <= len /\ (m = len \/ m = PartLen - offset)
  BY <1>0, <1>1, <1>3 DEF Copied
<1>6. Start(ix) + offset = r + l /\ reply = Text(r, l)
  BY <1>0, <1>1 DEF Place
<1> HIDE DEF r, l, m
<1>7. reply' = Text(r, l + m)
  <2>1. Text(r, l) \o Text(r + l, m) = Text(r, l + m)
    BY <1>0, <1>5, TextJoins
  <2> QED
    BY <1>1, <1>6, <2>1
<1>8. reply' \in Seq(Nat) /\ Len(reply') = l + m
  BY <1>0, <1>5, <1>7, TextIsSeq
<1>9. Len(received') = r
  BY <1>1 DEF r
<1>10. XmlTypeOK'
  BY <1>0, <1>1, <1>2, <1>4, <1>5, <1>8 DEF XmlTypeOK
<1>11. PrefixReceived'
  BY <1>0, <1>1, <1>4 DEF PrefixReceived
<1>12. /\ r + l + len <= XmlLen /\ (~more => r + l + len = XmlLen) /\ l + len <= asked
  BY <1>0, <1>1 DEF Place, r, l
<1>13. len' > 0 => Start(ix)' + offset' = r + (l + m)
  <2> SUFFICES ASSUME len' > 0 PROVE Start(ix)' + offset' = r + (l + m)
    OBVIOUS
  <2>1. len' = len - m /\ offset' = 0
    BY <1>1
  <2>2. m = PartLen - offset
    BY <1>0, <1>5, <2>1
  <2>3. r + (l + m) = Start(ix + 1)
    BY <1>0, <1>3, <1>5, <1>6, <2>2
  <2>4. Start(ix)' + offset' = Start(ix + 1)
    BY <1>3, <1>4, <2>1
  <2> QED
    BY <2>3, <2>4
<1>14. Place'
  <2>1. len' = len - m /\ more' = more /\ asked' = asked
    BY <1>1
  <2>2. r + (l + m) + len' = r + l + len /\ (l + m) + len' = l + len
    BY <1>0, <1>5, <2>1
  <2> QED
    BY <1>4, <1>7, <1>8, <1>9, <1>12, <1>13, <2>1, <2>2 DEF Place
<1>15. Fits'
  BY <1>0, <1>1, <1>5, <1>8, <1>12 DEF Fits
<1> QED
  BY <1>10, <1>11, <1>14, <1>15 DEF XmlInv

\* When the loop has run through all parts nothing is left to copy.
LEMMA CopyingEnds == ASSUME XmlInv, reading = "waits", ~Copying PROVE len = 0
<1>0. /\ XmlTypeOK /\ Place
      /\ Len(received) \in Nat /\ Len(reply) \in Nat /\ XmlLen \in Nat
      /\ ix \in Nat /\ offset \in Nat /\ len \in Nat /\ NumParts \in {3, 4}
  BY XmlNumbers DEF XmlInv
<1> SUFFICES ASSUME len > 0 PROVE FALSE
  BY <1>0
<1>1. ix = NumParts + 1
  BY <1>0 DEF Copying, XmlTypeOK
<1>2. XmlLen + offset = Len(received) + Len(reply)
  BY <1>0, <1>1 DEF Place, XmlLen
<1>3. Len(received) + Len(reply) + len <= XmlLen
  BY <1>0 DEF Place
<1> QED
  BY <1>0, <1>2, <1>3

\* A reply that gdb receives preserves the invariant.
LEMMA ReceiveKeeps == ASSUME XmlInv, Receive PROVE XmlInv'
<1> DEFINE r == Len(received)
           l == Len(reply)
<1>0. /\ XmlTypeOK /\ PrefixReceived /\ Place /\ Fits
      /\ r \in Nat /\ l \in Nat /\ XmlLen \in Nat /\ asked \in Nat /\ more \in BOOLEAN
      /\ NumParts \in {3, 4} /\ fpu \in BOOLEAN
  BY XmlNumbers DEF XmlInv, XmlTypeOK
<1>1. /\ reading = "waits" /\ received' = received \o reply
      /\ reading' = IF more THEN "asks" ELSE "done"
      /\ UNCHANGED <<fpu, asked, more, reply, ix, offset, len>>
  BY DEF Receive, replyVars
<1>2. len = 0
  BY CopyingEnds DEF Receive
<1>3. NumParts' = NumParts /\ XmlLen' = XmlLen
  BY <1>1, PartsStay
<1>4. received = Text(0, r) /\ reply = Text(r, l)
  BY <1>0, <1>1 DEF PrefixReceived, Place
<1>5. r + l <= XmlLen /\ (~more => r + l = XmlLen)
  BY <1>0, <1>1, <1>2 DEF Place
<1> HIDE DEF r, l
<1>6. received' = Text(0, r + l)
  <2>1. Text(0, r) \o Text(0 + r, l) = Text(0, r + l)
    BY <1>0, TextJoins
  <2> QED
    BY <1>0, <1>1, <1>4, <2>1
<1>7. received' \in Seq(Nat) /\ Len(received') = r + l
  BY <1>0, <1>6, TextIsSeq
<1>8. reading' \in {"asks", "done"} /\ (reading' = "done" => ~more)
  BY <1>1
<1>9. XmlTypeOK'
  BY <1>0, <1>1, <1>3, <1>7, <1>8 DEF XmlTypeOK
<1>10. PrefixReceived'
  BY <1>0, <1>3, <1>5, <1>6, <1>7, <1>8 DEF PrefixReceived
<1>11. Place' /\ Fits'
  BY <1>0, <1>1, <1>8 DEF Place, Fits
<1> QED
  BY <1>9, <1>10, <1>11 DEF XmlInv

\* Nothing that is done with the registers touches the description.
LEMMA StepXml == XmlInv /\ [Next]_vars => XmlInv'
<1> SUFFICES ASSUME XmlInv, [Next]_vars PROVE XmlInv'
  OBVIOUS
<1>1. CASE XmlNext
  BY <1>1, AskKeeps, SkipKeeps, CopyKeeps, ReceiveKeeps DEF XmlNext
<1>2. CASE UNCHANGED xmlVars
  BY <1>2 DEF xmlVars, replyVars, XmlInv, XmlTypeOK, PrefixReceived, Place, Fits,
              NumParts, XmlLen, Start, Starts
<1> QED
  BY <1>1, <1>2 DEF Next, Describe, Use, Finished, vars

\* However gdb cuts the description into chunks, it has a beginning of it, in the
\* end all of it, and no chunk is longer than gdb asked or than outPacket
\* (WriteTargetXML, GetTargetXml).
THEOREM DescriptionIsIntact == Spec => []DescriptionIntact
<1>1. Init => XmlInv
  BY InitXml DEF Init
<1>2. XmlInv => DescriptionIntact
  <2> SUFFICES ASSUME XmlInv PROVE DescriptionIntact
    OBVIOUS
  <2>1. Len(reply) \in Nat /\ asked \in Nat /\ PacketSize \in Nat
    BY XmlNumbers DEF XmlInv
  <2> QED
    BY <2>1 DEF XmlInv, Fits, DescriptionIntact, ReplyFits
<1> QED
  BY <1>1, <1>2, StepXml, PTL DEF Spec
-----------------------------------------------------------------------------
(* The registers *)

\* What gdb takes for the registers: each in the long words that its number and
\* the widths say.
Held(n) == [k \in 1..Width(n) |-> registers[PackedAt(n) + k - 1]]
Values    == [n \in Described |-> Held(n)]

\* An FPU that is described is saved and restored, so that gdb is told of the
\* registers there are.
RegInv == /\ fpu \in BOOLEAN /\ cpu \in Nat /\ (fpu => cpu >= 20)
          /\ DOMAIN registers = LongWords
          /\ DOMAIN copy = Described

\* The registers of a program that was just loaded keep the invariant.
LEMMA InitRegisters == RegInit => RegInv
BY CpuAssumption DEF RegInit, RegInv

\* The last described register is the last the server transfers.
LEMMA DescribedAreThere ==
  ASSUME RegInv
  PROVE  /\ Described \subseteq 0..28
         /\ \A n \in Described : n < numOfCpuRegisters /\ (~fpu => n < 18)
BY DEF RegInv, Described, numOfCpuRegisters

\* The long words the code takes for a register are those gdb takes for it.
LEMMA LongsArePacked ==
  ASSUME NEW n \in 0..28
  PROVE  /\ DOMAIN Longs(n) = 1..Width(n)
         /\ \A k \in 1..Width(n) : Longs(n)[k] = PackedAt(n) + k - 1
<1>1. CASE n < 18
  <2>1. Longs(n) = <<n>> /\ Width(n) = 1 /\ PackedAt(n) = n
    BY <1>1 DEF Longs, Width, PackedAt
  <2> QED
    BY <2>1
<1>2. CASE n >= 26
  <2>1. Longs(n) = <<n + 16>> /\ Width(n) = 1 /\ PackedAt(n) = n + 16
    BY <1>2 DEF Longs, Width, PackedAt
  <2> QED
    BY <2>1
<1>3. CASE n \in 18..25
  <2> DEFINE first == 18 + (n - 18) * 3
  <2>1. Longs(n) = <<first, first + 1, first + 2>> /\ Width(n) = 3
    BY <1>3 DEF Longs, Width
  <2>2. PackedAt(n) = first
    BY <1>3 DEF PackedAt
  <2>3. first \in Nat
    BY <1>3
  <2> HIDE DEF first
  <2>4. \A k \in 1..3 : Longs(n)[k] = first + k - 1
    <3> TAKE k \in 1..3
    <3>1. k = 1 \/ k = 2 \/ k = 3
      OBVIOUS
    <3> QED
      BY <2>1, <2>3, <3>1
  <2>5. DOMAIN Longs(n) = 1..3
    BY <2>1
  <2> QED
    BY <2>1, <2>2, <2>4, <2>5
<1> QED
  BY <1>1, <1>2, <1>3

\* Registers lie one behind the other.
LEMMA RegistersApart ==
  ASSUME NEW n \in 0..28, NEW m \in 0..28, n < m
  PROVE  PackedAt(n) + Width(n) <= PackedAt(m)
<1>1. CASE n < 18
  BY <1>1 DEF PackedAt, Width
<1>2. CASE n \in 18..25
  BY <1>2 DEF PackedAt, Width
<1>3. CASE n > 25
  BY <1>3 DEF PackedAt, Width
<1> QED
  BY <1>1, <1>2, <1>3

\* ... within the long words there are.
LEMMA RegistersInside ==
  ASSUME NEW n \in 0..28, NEW k \in 1..Width(n)
  PROVE  PackedAt(n) + k - 1 \in LongWords /\ (n < 18 => PackedAt(n) + k - 1 = n)
<1>1. CASE n < 18
  BY <1>1 DEF PackedAt, Width, LongWords
<1>2. CASE n \in 18..25
  BY <1>2 DEF PackedAt, Width, LongWords
<1>3. CASE n > 25
  BY <1>3 DEF PackedAt, Width, LongWords
<1> QED
  BY <1>1, <1>2, <1>3

\* What p returns is the register.
LEMMA ContentsAreValue ==
  ASSUME NEW n \in 0..28
  PROVE  Contents(n) = Held(n)
BY LongsArePacked DEF Contents, Held

\* No register is unknown.
LEMMA ValueIsKnown ==
  ASSUME NEW n \in 0..28
  PROVE  Held(n) # Unknown
<1>1. DOMAIN Held(n) = 1..Width(n) /\ 1 \in 1..Width(n)
  BY DEF Held, Width
<1>2. DOMAIN Unknown = {}
  BY DEF Unknown
<1> QED
  BY <1>1, <1>2

-----------------------------------------------------------------------------
(* One RegisterFile *)

\* The abstract register file, in the terms of the server and gdb.
LEMMA FileDefs ==
  /\ File!Init <=> /\ \A n \in DOMAIN Values : Values[n] # Unknown
                  /\ copy = [n \in DOMAIN Values |-> Unknown]
  /\ File!Read <=> /\ Values' = Values
                  /\ DOMAIN copy' = DOMAIN Values
                  /\ \A n \in DOMAIN Values : copy'[n] \in {copy[n], Values[n], Unknown}
  /\ File!Write <=> /\ DOMAIN Values' = DOMAIN Values /\ DOMAIN copy' = DOMAIN Values
                   /\ \A n \in DOMAIN Values : \/ Values'[n] = Values[n] /\ copy'[n] = copy[n]
                                               \/ copy'[n] = Values'[n]
  /\ File!Run <=> /\ DOMAIN Values' = DOMAIN Values /\ DOMAIN copy' = DOMAIN Values
                 /\ \A n \in DOMAIN Values : copy'[n] \in {Unknown, Values'[n]}
BY DEF Values, Held, File!Init, File!Read, File!Write, File!Run, File!Reg

\* Where the registers are after a step: which are described never changes.
LEMMA NextValues ==
  ASSUME fpu' = fpu
  PROVE  /\ Described' = Described /\ DOMAIN Values = Described /\ DOMAIN Values' = Described
         /\ \A n \in Described : /\ Values[n] = Held(n)
                               /\ Values'[n] = [k \in 1..Width(n) |-> registers'[PackedAt(n) + k - 1]]
BY DEF Described, Values, Held

\* The abstract values are those of the registers.
LEMMA ValuesStay ==
  ASSUME UNCHANGED <<fpu, registers>>
  PROVE  Values' = Values
BY DEF Described, Values, Held

\* The server begins as the abstract register file does.
LEMMA InitFile == RegInit => File!Init
<1> SUFFICES ASSUME RegInit PROVE File!Init
  OBVIOUS
<1>1. DOMAIN Values = Described /\ Described \subseteq 0..28
  BY DEF Values, RegInit, Described
<1>2. \A n \in Described : Values[n] = Held(n) /\ Held(n) # Unknown
  BY <1>1, ValueIsKnown DEF Values
<1>3. copy = [n \in DOMAIN Values |-> Unknown]
  BY <1>1 DEF RegInit
<1> QED
  BY <1>1, <1>2, <1>3, FileDefs

\* p: a copy is made of the register asked for.
LEMMA ReadRegisterReads ==
  ASSUME RegInv, NEW n \in Described, ReadRegister(n)
  PROVE  RegInv' /\ File!Read
<1>1. /\ UNCHANGED <<fpu, cpu, registers>>
      /\ copy' = [copy EXCEPT ![n] = IF n < numOfCpuRegisters THEN Contents(n) ELSE Unknown]
  BY DEF ReadRegister
<1>2. /\ Described' = Described /\ DOMAIN Values = Described /\ Values' = Values
      /\ \A m \in Described : Values[m] = Held(m)
  BY <1>1, NextValues, ValuesStay
<1>3. Contents(n) = Held(n) /\ DOMAIN copy = Described
  BY DescribedAreThere, ContentsAreValue DEF RegInv
<1>4. DOMAIN copy' = Described
  BY <1>1, <1>3
<1>5. \A m \in Described : copy'[m] \in {copy[m], Values[m], Unknown}
  BY <1>1, <1>2, <1>3
<1>6. RegInv'
  BY <1>1, <1>2, <1>4 DEF RegInv
<1>7. File!Read
  BY <1>2, <1>4, <1>5, FileDefs
<1> QED
  BY <1>6, <1>7

\* P: the register gdb means is written, and no other one.
LEMMA WriteRegisterWrites ==
  ASSUME RegInv, NEW n \in Described, WriteRegister(n)
  PROVE  RegInv' /\ File!Write
<1> DEFINE t  == time'
           at == PackedAt(n)
<1>1. /\ UNCHANGED <<fpu, cpu>>
      /\ registers' = [w \in LongWords |->
                         IF n < numOfCpuRegisters /\ \E k \in DOMAIN Longs(n) : w = Longs(n)[k]
                         THEN Written(n, t)[CHOOSE k \in DOMAIN Longs(n) : w = Longs(n)[k]]
                         ELSE registers[w]]
      /\ copy' = [copy EXCEPT ![n] = Written(n, t)]
  BY DEF WriteRegister
<1>2. /\ Described' = Described /\ DOMAIN Values = Described /\ DOMAIN Values' = Described
      /\ \A m \in Described :
           /\ Values[m] = Held(m)
           /\ Values'[m] = [k \in 1..Width(m) |-> registers'[PackedAt(m) + k - 1]]
  BY <1>1, NextValues
<1>3. /\ n \in 0..28 /\ n < numOfCpuRegisters /\ DOMAIN copy = Described
      /\ Described \subseteq 0..28
  BY DescribedAreThere DEF RegInv
<1>4. /\ DOMAIN Longs(n) = 1..Width(n) /\ \A k \in 1..Width(n) : Longs(n)[k] = at + k - 1
      /\ at \in Nat
  <2>1. DOMAIN Longs(n) = 1..Width(n) /\ \A k \in 1..Width(n) : Longs(n)[k] = PackedAt(n) + k - 1
    BY <1>3, LongsArePacked
  <2>2. PackedAt(n) \in Nat
    BY <1>3 DEF PackedAt
  <2> QED
    BY <2>1, <2>2
<1> HIDE DEF t, at
<1>5. ASSUME NEW k \in 1..Width(n)
      PROVE  registers'[at + k - 1] = <<t, at + k - 1>>
  <2>1. Width(n) \in {1, 3} /\ at + k - 1 \in LongWords
    BY <1>3, RegistersInside DEF Width, at
  <2>2. \A h \in 1..Width(n) : at + k - 1 = Longs(n)[h] <=> h = k
    BY <1>4, <2>1
  <2>3. (CHOOSE h \in DOMAIN Longs(n) : at + k - 1 = Longs(n)[h]) = k
    BY <1>4, <2>2
  <2>4. \E h \in DOMAIN Longs(n) : at + k - 1 = Longs(n)[h]
    BY <1>4, <2>2
  <2>5. registers'[at + k - 1] = Written(n, t)[k]
    BY <1>1, <1>3, <2>1, <2>3, <2>4
  <2> QED
    BY <2>5 DEF Written, at
<1>6. Values'[n] = Written(n, t)
  BY <1>2, <1>3, <1>5 DEF Written, at
<1>7. ASSUME NEW m \in Described, m # n
      PROVE  Values'[m] = Values[m]
  <2>1. m \in 0..28
    BY <1>3
  <2>2. ASSUME NEW k \in 1..Width(m)
        PROVE  registers'[PackedAt(m) + k - 1] = registers[PackedAt(m) + k - 1]
    <3> DEFINE w == PackedAt(m) + k - 1
    <3>1. w \in LongWords
      BY <2>1, RegistersInside
    <3>2. \A h \in 1..Width(n) : w # at + h - 1
      <4>1. Width(m) \in {1, 3} /\ Width(n) \in {1, 3} /\ PackedAt(m) \in Nat
        BY <2>1 DEF Width, PackedAt
      <4>2. CASE n < m
        <5>1. at + Width(n) <= PackedAt(m)
          BY <1>3, <2>1, <4>2, RegistersApart DEF at
        <5> QED
          BY <1>4, <4>1, <5>1
      <4>3. CASE m < n
        <5>1. PackedAt(m) + Width(m) <= at
          BY <1>3, <2>1, <4>3, RegistersApart DEF at
        <5> QED
          BY <1>4, <4>1, <5>1
      <4> QED
        BY <1>3, <1>7, <2>1, <4>2, <4>3
    <3> HIDE DEF w
    <3>3. ~\E h \in DOMAIN Longs(n) : w = Longs(n)[h]
      BY <1>4, <3>2
    <3>4. registers'[w] = registers[w]
      BY <1>1, <3>1, <3>3
    <3> QED
      BY <3>4 DEF w
  <2>3. [k \in 1..Width(m) |-> registers'[PackedAt(m) + k - 1]]
          = [k \in 1..Width(m) |-> registers[PackedAt(m) + k - 1]]
    BY <2>2
  <2> QED
    BY <1>2, <2>3 DEF Held
<1>8. DOMAIN copy' = Described /\ copy'[n] = Written(n, t)
  BY <1>1, <1>3
<1>9. \A m \in Described : m # n => copy'[m] = copy[m]
  BY <1>1, <1>3
<1>10. RegInv'
  BY <1>1, <1>2, <1>8 DEF RegInv
<1>11. File!Write
  <2>1. \A m \in Described : \/ Values'[m] = Values[m] /\ copy'[m] = copy[m]
                             \/ copy'[m] = Values'[m]
    BY <1>6, <1>7, <1>8, <1>9
  <2> QED
    BY <1>2, <1>8, <2>1, FileDefs
<1> QED
  BY <1>10, <1>11

\* g: gdb gets copies of all registers.
LEMMA ReadRegistersReads == ASSUME RegInv, ReadRegisters PROVE RegInv' /\ File!Read
<1>1. /\ UNCHANGED <<fpu, cpu, registers>>
      /\ copy' = [n \in Described |-> [k \in 1..Width(n) |-> registers[PackedAt(n) + k - 1]]]
  BY DEF ReadRegisters
<1>2. /\ Described' = Described /\ DOMAIN Values = Described /\ Values' = Values
      /\ \A m \in Described : Values[m] = Held(m)
  BY <1>1, NextValues, ValuesStay
<1>3. DOMAIN copy' = Described /\ \A m \in Described : copy'[m] = Values[m]
  BY <1>1, <1>2 DEF Held
<1>4. RegInv'
  BY <1>1, <1>2, <1>3 DEF RegInv
<1>5. File!Read
  BY <1>2, <1>3, FileDefs
<1> QED
  BY <1>4, <1>5

\* G: what is written to all registers is what gdb keeps.
LEMMA WriteRegistersWrites == ASSUME RegInv, WriteRegisters PROVE RegInv' /\ File!Write
<1> DEFINE t == time'
<1>1. /\ UNCHANGED <<fpu, cpu>>
      /\ registers' = [w \in LongWords |-> <<t, w>>]
      /\ copy' = [n \in Described |-> Written(n, t)]
  BY DEF WriteRegisters
<1>2. /\ Described' = Described /\ DOMAIN Values = Described /\ DOMAIN Values' = Described
      /\ \A m \in Described :
           Values'[m] = [k \in 1..Width(m) |-> registers'[PackedAt(m) + k - 1]]
  BY <1>1, NextValues
<1> HIDE DEF t
<1>3. DOMAIN copy' = Described
  BY <1>1
<1>4. ASSUME NEW m \in Described
      PROVE  copy'[m] = Values'[m]
  <2>1. m \in 0..28
    BY DescribedAreThere
  <2>2. \A k \in 1..Width(m) : PackedAt(m) + k - 1 \in LongWords
    BY <2>1, RegistersInside
  <2>3. Values'[m] = [k \in 1..Width(m) |-> <<t, PackedAt(m) + k - 1>>]
    BY <1>1, <1>2, <2>2
  <2> QED
    BY <1>1, <2>3 DEF Written
<1>5. RegInv'
  BY <1>1, <1>2, <1>3 DEF RegInv
<1>6. File!Write
  BY <1>2, <1>3, <1>4, FileDefs
<1> QED
  BY <1>5, <1>6

\* c and s: the copies are given up.
LEMMA ContinueRuns == ASSUME RegInv, Continue PROVE RegInv' /\ File!Run
<1>1. /\ UNCHANGED <<fpu, cpu, registers>> /\ copy' = [n \in Described |-> Unknown]
  BY DEF Continue
<1>2. Described' = Described /\ DOMAIN Values = Described /\ DOMAIN Values' = Described
  BY <1>1, NextValues
<1>3. DOMAIN copy' = Described /\ \A m \in Described : copy'[m] = Unknown
  BY <1>1
<1>4. RegInv'
  BY <1>1, <1>2, <1>3 DEF RegInv
<1>5. File!Run
  BY <1>2, <1>3, FileDefs
<1> QED
  BY <1>4, <1>5

\* A stop reply brings four registers as they are now.
LEMMA StopRuns ==
  ASSUME RegInv, NEW brkpt \in BOOLEAN, Stop(brkpt)
  PROVE  RegInv' /\ File!Run
<1>1. /\ UNCHANGED <<fpu, cpu>> /\ DOMAIN registers' = LongWords
      /\ copy' = [n \in Described |-> IF brkpt /\ n \in 14..17 THEN Reported(registers')[n]
                                      ELSE Unknown]
  BY DEF Stop
<1>2. /\ Described' = Described /\ DOMAIN Values = Described /\ DOMAIN Values' = Described
      /\ \A m \in Described :
           Values'[m] = [k \in 1..Width(m) |-> registers'[PackedAt(m) + k - 1]]
  BY <1>1, NextValues
<1>3. DOMAIN copy' = Described
  BY <1>1
<1>4. ASSUME NEW m \in Described
      PROVE  copy'[m] \in {Unknown, Values'[m]}
  <2>1. CASE m \in 14..17
    <3>1. Width(m) = 1 /\ PackedAt(m) = m
      BY <2>1 DEF Width, PackedAt
    <3>2. Reported(registers')[m] = <<registers'[m]>>
      BY <2>1 DEF Reported
    <3>3. Values'[m] = [k \in 1..1 |-> registers'[m + k - 1]]
      BY <1>2, <3>1
    <3>4. \A k \in 1..1 : m + k - 1 = m
      BY <2>1
    <3>5. Values'[m] = [k \in 1..1 |-> registers'[m]]
      BY <3>3, <3>4
    <3>6. [k \in 1..1 |-> registers'[m]] = <<registers'[m]>>
      OBVIOUS
    <3> QED
      BY <1>1, <3>2, <3>5, <3>6
  <2>2. CASE m \notin 14..17
    BY <1>1, <2>2
  <2> QED
    BY <2>1, <2>2
<1>5. RegInv'
  BY <1>1, <1>2, <1>3 DEF RegInv
<1>6. File!Run
  BY <1>2, <1>3, <1>4, FileDefs
<1> QED
  BY <1>5, <1>6

\* Every step reads or writes registers, runs the program, or leaves them alone.
LEMMA StepRegisters ==
  RegInv /\ [Next]_vars => RegInv' /\ [File!Read \/ File!Write \/ File!Run]_<<Values, copy>>
<1> SUFFICES ASSUME RegInv, [Next]_vars
             PROVE  /\ RegInv'
                    /\ \/ File!Read \/ File!Write \/ File!Run
                       \/ Values' = Values /\ copy' = copy
  OBVIOUS
<1>1. CASE RegNext
  BY <1>1, ReadRegisterReads, WriteRegisterWrites, ReadRegistersReads, WriteRegistersWrites,
     ContinueRuns, StopRuns DEF RegNext
<1>2. CASE UNCHANGED regVars
  <2>1. UNCHANGED <<fpu, cpu, registers, copy>>
    BY <1>2 DEF regVars
  <2>2. Values' = Values
    BY <2>1, ValuesStay
  <2>3. Described' = Described
    BY <2>1, NextValues
  <2>4. RegInv'
    BY <2>1, <2>3 DEF RegInv
  <2> QED
    BY <2>1, <2>2, <2>4
<1> QED
  BY <1>1, <1>2 DEF Next, Describe, Use, Finished, vars

\* For gdb's numbers there is one file of registers behind the packets g, G, p, P
\* and the stop reply (GetExceptionRegisters and its kin in packet.c).
THEOREM TargetImplementsRegisterFile == Spec => ImplementsRegisterFile
<1>1. Init => RegInv /\ File!Init
  BY InitRegisters, InitFile DEF Init
<1> QED
  BY <1>1, StepRegisters, PTL DEF Spec, ImplementsRegisterFile, File!Spec, Values, Held
===============================================================================
