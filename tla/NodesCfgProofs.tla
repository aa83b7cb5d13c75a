---------------------------- MODULE NodesCfgProofs ----------------------------
(***************************************************************************)
(* Proofs about NodesCfg, for files of any length and any names.           *)
(***************************************************************************)
EXTENDS NodesCfg, WellFoundedInduction, TLAPS

Line == [kind : {"header", "setting", "remark"}, name : Sections \cup Keys, val : Values \cup {Absent},
         on : BOOLEAN]

TypeOK == file \in Seq(Line)

(* write_cfg puts lines in the place of lines. *)
LEMMA WrittenType ==
    ASSUME NEW f \in Seq(Line), NEW s \in Sections, NEW k \in Keys, NEW v \in Values
    PROVE  Written(f, s, k, v) \in Seq(Line)
<1>1. Setting(k, v) \in Line
  BY DEF Setting, Line
<1>2. Written(f, s, k, v) \in [1..Len(f) -> Line]
  BY <1>1 DEF Written
<1> QED
  BY <1>2

(* The editor and write_cfg leave a file of such lines. *)
LEMMA TypeInv == Spec => []TypeOK
<1>1. Init => TypeOK
  BY DEF Init, TypeOK
<1>2. TypeOK /\ [Next]_vars => TypeOK'
  <2> SUFFICES ASSUME TypeOK, [Next]_vars PROVE TypeOK'
    OBVIOUS
  <2>0. /\ Len(file) \in Nat /\ DOMAIN file = 1..Len(file)
        /\ \A j \in 1..Len(file) : file[j] \in Line
    BY DEF TypeOK
  <2>1. CASE Insert
    <3>1. PICK j \in 1..(Len(file) + 1), x \in Lines : file' = InsertAt(file, j, x)
      BY <2>1 DEF Insert
    <3>2. x \in Line
      <4>1. CASE \E s \in Sections : x = Header(s)
        BY <4>1 DEF Header, Line
      <4>2. CASE \E k \in Keys, v \in Values : x = Setting(k, v)
        BY <4>2 DEF Setting, Line
      <4>3. CASE \E k \in Keys : x = Remark(k)
        BY <4>3 DEF Remark, Line
      <4> QED
        BY <4>1, <4>2, <4>3 DEF Lines
    <3>3. SubSeq(file, 1, j - 1) \in Seq(Line) /\ SubSeq(file, j, Len(file)) \in Seq(Line)
      BY <2>0 DEF TypeOK
    <3> QED
      BY <3>1, <3>2, <3>3 DEF InsertAt, TypeOK
  <2>2. CASE Delete
    <3>1. PICK j \in DOMAIN file : file' = RemoveAt(file, j)
      BY <2>2 DEF Delete
    <3>2. SubSeq(file, 1, j - 1) \in Seq(Line) /\ SubSeq(file, j + 1, Len(file)) \in Seq(Line)
      BY <2>0 DEF TypeOK
    <3> QED
      BY <3>1, <3>2 DEF RemoveAt, TypeOK
  <2>3. CASE Comment
    <3>1. PICK j \in DOMAIN file : file' = [file EXCEPT ![j].on = ~@]
      BY <2>3 DEF Comment
    <3>2. file[j] \in Line /\ [file[j] EXCEPT !.on = ~@] \in Line
      BY <2>0 DEF Line
    <3> QED
      BY <2>0, <3>1, <3>2 DEF TypeOK
  <2>4. ASSUME NEW s \in Sections, NEW k \in Keys, NEW v \in Values, Write(s, k, v)
        PROVE  TypeOK'
    BY <2>4, WrittenType DEF Write, TypeOK
  <2>5. CASE UNCHANGED vars
    BY <2>5 DEF vars, TypeOK
  <2> QED
    BY <2>1, <2>2, <2>3, <2>4, <2>5 DEF Next
<1> QED
  BY <1>1, <1>2, PTL DEF Spec

(* The first hit of an orderly section is the setting itself. *)
LEMMA FirstHit ==
    ASSUME NEW f \in Seq(Line), NEW s \in Sections, NEW k \in Keys, Orderly(f, s, k),
           NEW j \in Sets(f, s, k)
    PROVE  Read(f, s, k) = f[j].val
<1>0. DOMAIN f = 1..Len(f) /\ Len(f) \in Nat /\ j \in 1..Len(f) /\ f[j].name = k
  BY DEF Sets
<1>1. PICK h \in 1..j : /\ f[h] = Header(s)
                        /\ \A m \in (h + 1)..j : ~IsHeader(f, m)
  BY DEF Sets, Belongs
<1>2. h \in Opens(f, s) /\ \A g \in Opens(f, s) : g = h
  BY <1>0, <1>1 DEF Opens, Header, Orderly
<1>3. j \in Hits(f, s, k)
  BY <1>0, <1>2, NamesAssumption DEF Hits
<1>4. ASSUME NEW i \in Hits(f, s, k) PROVE j <= i
  <2>1. i \in 1..Len(f) /\ <<k, f[i].name>> \in Inside /\ h <= i
    BY <1>0, <1>2 DEF Hits
  <2>2. SUFFICES ASSUME i < j PROVE FALSE
    BY <1>0, <2>1
  <2>3. Belongs(f, i, s)
    BY <1>0, <1>1, <2>1, <2>2 DEF Belongs
  <2> QED
    BY <1>0, <2>1, <2>2, <2>3 DEF Orderly
<1>5. \A i \in Hits(f, s, k) : (\A m \in Hits(f, s, k) : i <= m) => i = j
  <2> SUFFICES ASSUME NEW i \in Hits(f, s, k), \A m \in Hits(f, s, k) : i <= m PROVE i = j
    OBVIOUS
  <2>1. i <= j /\ j <= i
    BY <1>3, <1>4
  <2>2. i \in Nat /\ j \in Nat
    BY <1>0 DEF Hits
  <2> QED
    BY <2>1, <2>2
<1>6. (CHOOSE i \in Hits(f, s, k) : \A m \in Hits(f, s, k) : i <= m) = j
  BY <1>3, <1>4, <1>5
<1> QED
  BY <1>3, <1>6 DEF Read

(* read_cfg returns the setting of an orderly section (common.sh:175-182),  *)
(* whatever edits and writes the file has been through.                     *)
THEOREM ReadIsRight == Spec => []ReadsTheSection
<1>1. TypeOK => ReadsTheSection
  BY FirstHit DEF TypeOK, ReadsTheSection
<1> QED
  BY TypeInv, <1>1, PTL

-----------------------------------------------------------------------------
(* write_cfg.  The recursion of Within is over the lines of the file: what  *)
(* it computes is proved by looking at the first line it would be wrong at. *)

(* A set of numbers that is not empty has a least one. *)
LEMMA LeastNumber ==
    ASSUME NEW D \in SUBSET Nat, D # {}
    PROVE  \E n \in D : \A m \in D : n <= m
<1>1. PICK n \in D : \A m \in D : <<m, n>> \notin OpToRel(<, Nat)
  BY WFMin, NatLessThanWellFounded, Zenon
<1>2. \A m \in D : ~(m < n)
  BY <1>1 DEF OpToRel
<1> QED
  BY <1>2

(* The lines after which sed's range is open. *)
Open(f, s) == [j \in 0..Len(f) |-> j # 0 /\ Belongs(f, j, s)]

LEMMA OpenMeans ==
    ASSUME NEW f \in Seq(Line), NEW s, NEW j \in 0..Len(f)
    PROVE  Open(f, s)[j] <=> j # 0 /\ Belongs(f, j, s)
BY DEF Open, Belongs

(* Under a single header a section goes on until the next header. *)
LEMMA SectionGoesOn ==
    ASSUME NEW f \in Seq(Line), NEW s \in Sections, NEW k \in Keys, Orderly(f, s, k),
           NEW j \in 1..Len(f)
    PROVE  Belongs(f, j, s) <=> IF j # 1 /\ Belongs(f, j - 1, s) THEN ~IsHeader(f, j)
                                ELSE f[j] = Header(s)
<1>0. DOMAIN f = 1..Len(f) /\ Len(f) \in Nat
  OBVIOUS
<1>1. ASSUME NEW g \in 1..Len(f), NEW h \in 1..Len(f), f[g] = Header(s), f[h] = Header(s)
      PROVE  g = h
  <2>1. g \in Opens(f, s) /\ h \in Opens(f, s)
    BY <1>0, <1>1 DEF Opens, Header
  <2> QED
    BY <2>1 DEF Orderly
<1>2. f[j] = Header(s) => IsHeader(f, j)
  BY DEF Header, IsHeader
<1>3. CASE j # 1 /\ Belongs(f, j - 1, s)
  <2>1. PICK h \in 1..(j - 1) : f[h] = Header(s) /\ \A m \in (h + 1)..(j - 1) : ~IsHeader(f, m)
    BY <1>3 DEF Belongs
  <2>2. ASSUME ~IsHeader(f, j) PROVE Belongs(f, j, s)
    <3>1. \A m \in (h + 1)..j : ~IsHeader(f, m)
      BY <2>1, <2>2
    <3> QED
      BY <2>1, <3>1 DEF Belongs
  <2>3. ASSUME Belongs(f, j, s) PROVE ~IsHeader(f, j)
    <3>1. PICK g \in 1..j : f[g] = Header(s) /\ \A m \in (g + 1)..j : ~IsHeader(f, m)
      BY <2>3 DEF Belongs
    <3>2. g = h
      BY <1>1, <2>1, <3>1
    <3> QED
      BY <3>1, <3>2
  <2> QED
    BY <1>3, <2>2, <2>3
<1>4. CASE ~(j # 1 /\ Belongs(f, j - 1, s))
  <2>1. ASSUME f[j] = Header(s) PROVE Belongs(f, j, s)
    BY <2>1 DEF Belongs
  <2>2. ASSUME Belongs(f, j, s) PROVE f[j] = Header(s)
    <3>1. PICK g \in 1..j : f[g] = Header(s) /\ \A m \in (g + 1)..j : ~IsHeader(f, m)
      BY <2>2 DEF Belongs
    <3>2. CASE g = j
      BY <3>1, <3>2
    <3>3. CASE g # j
      <4>1. g \in 1..(j - 1) /\ \A m \in (g + 1)..(j - 1) : ~IsHeader(f, m)
        BY <3>1, <3>3
      <4> QED
        BY <1>4, <3>1, <4>1 DEF Belongs
    <3> QED
      BY <3>2, <3>3
  <2> QED
    BY <1>4, <2>1, <2>2
<1> QED
  BY <1>3, <1>4

(* sed's range of a section with one header: the lines before which the     *)
(* section has begun and not ended (common.sh:198).                         *)
LEMMA WithinIsTheSection ==
    ASSUME NEW f \in Seq(Line), NEW s \in Sections, NEW k \in Keys, Orderly(f, s, k),
           NEW j \in 1..Len(f)
    PROVE  Within(f, s)[j] <=> j # 1 /\ Belongs(f, j - 1, s)
<1> DEFINE Along(g) == [i \in 0..Len(f) |-> IF i = 0 THEN FALSE
                                            ELSE IF g[i - 1] THEN ~IsHeader(f, i)
                                            ELSE f[i] = Header(s)]
           open == CHOOSE g : g = Along(g)
<1>0. Len(f) \in Nat /\ DOMAIN f = 1..Len(f)
  OBVIOUS
<1>1. Open(f, s) = Along(Open(f, s))
  <2>1. ASSUME NEW i \in 0..Len(f) PROVE Open(f, s)[i] = Along(Open(f, s))[i]
    <3>1. CASE i = 0
      BY <3>1 DEF Open
    <3>2. CASE i # 0
      <4>1. i \in 1..Len(f) /\ i - 1 \in 0..Len(f)
        BY <1>0, <3>2
      <4>2. Open(f, s)[i - 1] <=> i # 1 /\ Belongs(f, i - 1, s)
        BY <4>1, OpenMeans
      <4>3. Belongs(f, i, s) <=> IF Open(f, s)[i - 1] THEN ~IsHeader(f, i) ELSE f[i] = Header(s)
        BY <4>1, <4>2, SectionGoesOn
      <4>4. Open(f, s)[i] = Belongs(f, i, s)
        BY <3>2 DEF Open, Belongs
      <4> QED
        BY <3>2, <4>3, <4>4 DEF Belongs, IsHeader
    <3> QED
      BY <3>1, <3>2
  <2> QED
    BY <2>1 DEF Open
<1>2. open = Along(open)
  BY <1>1
<1>3. Within(f, s)[j] <=> open[j - 1]
  BY <1>0 DEF Within
<1> HIDE DEF open
<1>4. \A i \in 0..Len(f) : open[i] <=> Open(f, s)[i]
  <2> DEFINE D == {i \in 0..Len(f) : ~(open[i] <=> Open(f, s)[i])}
  <2>1. SUFFICES ASSUME D # {} PROVE FALSE
    OBVIOUS
  <2>2. PICK i \in D : \A m \in D : i <= m
    <3>1. D \in SUBSET Nat
      BY <1>0
    <3> QED
      BY <2>1, <3>1, LeastNumber
  <2>3. i \in 0..Len(f) /\ i # 0
    BY <1>1, <1>2
  <2>4. i - 1 \in 0..Len(f) /\ i - 1 \notin D
    BY <1>0, <2>2, <2>3
  <2>5. open[i - 1] <=> Open(f, s)[i - 1]
    BY <2>4
  <2> QED
    BY <1>1, <1>2, <2>3, <2>5
<1>5. j - 1 \in 0..Len(f)
  BY <1>0
<1>6. Open(f, s)[j - 1] <=> j # 1 /\ Belongs(f, j - 1, s)
  BY <1>5, OpenMeans
<1> QED
  BY <1>3, <1>4, <1>5, <1>6

(* The lines write_cfg rewrites are those that set the key.                 *)
LEMMA RewritesTheSetting ==
    ASSUME NEW f \in Seq(Line), NEW s \in Sections, NEW k \in Keys,
           Orderly(f, s, k), Unmistaken(f, s, k), NEW j \in DOMAIN f
    PROVE  /\ Within(f, s)[j] /\ f[j].kind = "setting" /\ f[j].on
           /\ <<k, f[j].name>> \in Repeats
           <=> j \in Sets(f, s, k)
<1>0. j \in 1..Len(f)
  OBVIOUS
<1>1. ASSUME f[j].kind = "setting" PROVE Within(f, s)[j] <=> Belongs(f, j, s)
  <2>1. f[j] # Header(s) /\ ~IsHeader(f, j)
    BY <1>1 DEF Header, IsHeader
  <2>2. Within(f, s)[j] <=> j # 1 /\ Belongs(f, j - 1, s)
    BY <1>0, WithinIsTheSection
  <2>3. Belongs(f, j, s) <=> IF j # 1 /\ Belongs(f, j - 1, s) THEN ~IsHeader(f, j)
                             ELSE f[j] = Header(s)
    BY <1>0, SectionGoesOn
  <2> QED
    BY <2>1, <2>2, <2>3
<1>2. Belongs(f, j, s) /\ <<k, f[j].name>> \in Repeats => f[j].name = k
  BY DEF Unmistaken
<1>3. f[j].name = k => <<k, f[j].name>> \in Repeats
  BY NamesAssumption
<1> QED
  BY <1>1, <1>2, <1>3 DEF Sets

(* A file in which those lines get a value is as orderly as before, and     *)
(* they are still the lines that set the key.                               *)
LEMMA StaysOrderly ==
    ASSUME NEW f \in Seq(Line), NEW s \in Sections, NEW k \in Keys, NEW v \in Values,
           Orderly(f, s, k), NEW g \in Seq(Line),
           g = [j \in DOMAIN f |-> IF j \in Sets(f, s, k) THEN Setting(k, v) ELSE f[j]]
    PROVE  Orderly(g, s, k) /\ Sets(g, s, k) = Sets(f, s, k)
<1>0. DOMAIN g = DOMAIN f /\ DOMAIN f = 1..Len(f) /\ Len(f) \in Nat
  OBVIOUS
<1>1. \A j \in DOMAIN f : /\ g[j].kind = f[j].kind
                          /\ g[j].name = f[j].name
                          /\ g[j].on <=> f[j].on
                          /\ g[j] = Header(s) <=> f[j] = Header(s)
                          /\ IsHeader(g, j) <=> IsHeader(f, j)
  <2> SUFFICES ASSUME NEW j \in DOMAIN f
               PROVE  /\ g[j].kind = f[j].kind
                      /\ g[j].name = f[j].name
                      /\ g[j].on <=> f[j].on
                      /\ g[j] = Header(s) <=> f[j] = Header(s)
                      /\ IsHeader(g, j) <=> IsHeader(f, j)
    OBVIOUS
  <2>1. CASE j \in Sets(f, s, k)
    <3>1. g[j] = Setting(k, v)
      BY <2>1
    <3>2. g[j].kind = "setting" /\ g[j].name = k /\ g[j].on
      BY <3>1 DEF Setting
    <3>3. f[j].kind = "setting" /\ f[j].name = k /\ f[j].on
      BY <2>1 DEF Sets
    <3>4. Header(s).kind = "header"
      BY DEF Header
    <3> QED
      BY <3>2, <3>3, <3>4 DEF IsHeader
  <2>2. CASE j \notin Sets(f, s, k)
    <3>1. g[j] = f[j]
      BY <2>2
    <3> QED
      BY <3>1 DEF IsHeader
  <2> QED
    BY <2>1, <2>2
<1>2. \A j \in DOMAIN f : Belongs(g, j, s) <=> Belongs(f, j, s)
  <2> SUFFICES ASSUME NEW j \in DOMAIN f PROVE Belongs(g, j, s) <=> Belongs(f, j, s)
    OBVIOUS
  <2>1. \A h \in 1..j : h \in DOMAIN f /\ \A m \in (h + 1)..j : m \in DOMAIN f
    BY <1>0
  <2> QED
    BY <1>1, <2>1 DEF Belongs
<1>3. Sets(g, s, k) = Sets(f, s, k)
  BY <1>0, <1>1, <1>2 DEF Sets
<1>4. Opens(g, s) = Opens(f, s)
  BY <1>0, <1>1 DEF Opens
<1>5. Orderly(g, s, k)
  <2>1. \A i, h \in Opens(g, s) : i = h
    BY <1>4 DEF Orderly
  <2>2. ASSUME NEW j \in Sets(g, s, k), NEW m \in DOMAIN g, m < j, Belongs(g, m, s)
        PROVE  <<k, g[m].name>> \notin Inside
    BY <1>0, <1>1, <1>2, <1>3, <2>2 DEF Orderly
  <2> QED
    BY <2>1, <2>2 DEF Orderly
<1> QED
  BY <1>3, <1>5

(* What write_cfg writes into an orderly section read_cfg reads back, and   *)
(* no other line changes (common.sh:192-200), in a file of any length.      *)
THEOREM WriteIsRight == Spec => []WritesTheSetting
<1>1. ASSUME TypeOK, NEW s \in Sections, NEW k \in Keys, NEW v \in Values,
             Orderly(file, s, k), Unmistaken(file, s, k), NEW g, g = Written(file, s, k, v)
      PROVE  /\ Sets(file, s, k) # {} => Read(g, s, k) = v
             /\ \A j \in DOMAIN file \ Sets(file, s, k) : g[j] = file[j]
  <2>1. g = [j \in DOMAIN file |-> IF j \in Sets(file, s, k) THEN Setting(k, v) ELSE file[j]]
    <3>1. \A j \in DOMAIN file : /\ Within(file, s)[j] /\ file[j].kind = "setting" /\ file[j].on
                                 /\ <<k, file[j].name>> \in Repeats
                                 <=> j \in Sets(file, s, k)
      BY <1>1, RewritesTheSetting DEF TypeOK
    <3> QED
      BY <1>1, <3>1 DEF Written
  <2>2. g \in Seq(Line)
    BY <1>1, WrittenType DEF TypeOK
  <2>3. Orderly(g, s, k) /\ Sets(g, s, k) = Sets(file, s, k)
    BY <1>1, <2>1, <2>2, StaysOrderly DEF TypeOK
  <2>4. ASSUME NEW j \in Sets(file, s, k) PROVE Read(g, s, k) = v
    <3>1. Read(g, s, k) = g[j].val
      BY <1>1, <2>2, <2>3, FirstHit DEF TypeOK
    <3>2. j \in DOMAIN file
      BY DEF Sets
    <3> QED
      BY <2>1, <3>1, <3>2 DEF Setting
  <2> QED
    BY <2>1, <2>4
<1>2. TypeOK => WritesTheSetting
  BY <1>1 DEF WritesTheSetting
<1> QED
  BY <1>2, TypeInv, PTL

=============================================================================
