------------------------------ MODULE NodesCfg ------------------------------
(***************************************************************************)
(* cluster_nodes.cfg and the two functions of common.sh on such files:     *)
(* read_cfg, by which config and deploy learn the nodes, hosts, addresses  *)
(* and ports, and write_cfg.                                               *)
(*                                                                         *)
(* A line is a header, a setting, or a remark that mentions a key; a line  *)
(* that is commented out is not on and keeps its name.  Both functions are *)
(* regular expressions over lines: awk looks for the key anywhere before   *)
(* the =, in comments too, and in the whole of a line that has none; it    *)
(* never leaves the section it has found.  sed stays within the section    *)
(* and looks at the start of the line.  Lines that name nothing, and blank *)
(* ones, pass both by and are left out.                                    *)
(***************************************************************************)
EXTENDS Naturals, Sequences, SequencesExt

CONSTANTS
    Sections,   \* section names
    Keys,       \* key names
    Values,     \* values
    Absent,     \* the empty string
    Inside,     \* <<k, n>>: the name n contains k
    Repeats,    \* <<k, n>>: n matches the regular expression ^k*=
    MaxLines    \* bound: length of the file

ASSUME NamesAssumption == \A k \in Keys : <<k, k>> \in Inside \cap Repeats

VARIABLE file
vars == <<file>>

Header(s) == [kind |-> "header", name |-> s, val |-> Absent, on |-> TRUE]
Setting(k, v) == [kind |-> "setting", name |-> k, val |-> v, on |-> TRUE]
Remark(k) == [kind |-> "remark", name |-> k, val |-> Absent, on |-> FALSE]
Lines == {Header(s) : s \in Sections} \cup {Setting(k, v) : k \in Keys, v \in Values}
           \cup {Remark(k) : k \in Keys}

\* A new file.
Init == file = << >>

-----------------------------------------------------------------------------
(* read_cfg *)

\* Lines that contain [s], comments included: they set a=1.
Opens(f, s) == {j \in DOMAIN f : f[j].kind = "header" /\ f[j].name = s}

\* Lines whose part before the = contains the key, once a=1.  A remark has no
\* =, and no second part to print.
Hits(f, s, k) == {j \in DOMAIN f : <<k, f[j].name>> \in Inside /\ \E h \in Opens(f, s) : h <= j}

\* Faulty variant: a is not looked at.
ReadAnywhere(f, s, k) ==
    LET hits == {j \in DOMAIN f : <<k, f[j].name>> \in Inside} IN
    IF hits = {} THEN Absent
    ELSE f[CHOOSE j \in hits : \A i \in hits : j <= i].val

\* print $2; exit
Read(f, s, k) ==
    LET hits == Hits(f, s, k) IN
    IF hits = {} THEN Absent
    ELSE f[CHOOSE j \in hits : \A i \in hits : j <= i].val

-----------------------------------------------------------------------------
(* write_cfg *)

IsHeader(f, j) == f[j].kind = "header" /\ f[j].on

\* Faulty variant: /^\[s\]/,$
WithinToEnd(f, s) == [j \in DOMAIN f |-> \E h \in 1..(j - 1) : f[h] = Header(s)]

\* Whether line j lies inside a range /^\[s\]/,/^\[/ that a line before it opened.
Within(f, s) ==
    LET open[j \in 0..Len(f)] ==
            IF j = 0 THEN FALSE
            ELSE IF open[j - 1] THEN ~IsHeader(f, j)
            ELSE f[j] = Header(s)
    IN  [j \in DOMAIN f |-> open[j - 1]]

\* s/^k*=.*/k=v/ on those lines but headers.
Written(f, s, k, v) ==
    LET within == Within(f, s) IN
    [j \in DOMAIN f |-> IF /\ within[j] /\ f[j].kind = "setting" /\ f[j].on
                           /\ <<k, f[j].name>> \in Repeats
                        THEN Setting(k, v) ELSE f[j]]

Write(s, k, v) == file' = Written(file, s, k, v)

-----------------------------------------------------------------------------
(* The operator's editor *)

Insert == /\ Len(file) < MaxLines
          /\ \E j \in 1..(Len(file) + 1), x \in Lines : file' = InsertAt(file, j, x)

Delete == \E j \in DOMAIN file : file' = RemoveAt(file, j)

\* Comment a line out, or in again.
Comment == \E j \in DOMAIN file :
              file[j].kind # "remark" /\ file' = [file EXCEPT ![j].on = ~@]

Next == \/ Insert \/ Delete \/ Comment
        \/ \E s \in Sections, k \in Keys, v \in Values : Write(s, k, v)

Spec == Init /\ [][Next]_vars

-----------------------------------------------------------------------------
(* What an ini file means *)

\* Line j belongs to section s, its header included.
Belongs(f, j, s) == \E h \in 1..j : /\ f[h] = Header(s)
                                    /\ \A m \in (h + 1)..j : ~IsHeader(f, m)

\* The lines that set key k in section s.
Sets(f, s, k) == {j \in DOMAIN f : /\ f[j].kind = "setting" /\ f[j].on /\ f[j].name = k
                                   /\ Belongs(f, j, s)}

\* One header for s, with those that are commented out, and in section s no
\* name or remark that contains k before k itself.
Orderly(f, s, k) ==
    /\ \A g, h \in Opens(f, s) : g = h
    /\ \A j \in Sets(f, s, k), m \in DOMAIN f :
           m < j /\ Belongs(f, m, s) => <<k, f[m].name>> \notin Inside

\* Section s has no other name that sed takes for k.
Unmistaken(f, s, k) ==
    \A j \in DOMAIN f : Belongs(f, j, s) /\ <<k, f[j].name>> \in Repeats => f[j].name = k

\* A setting of an orderly section is read from that section, whatever the
\* sections before and after it hold (common.sh:175-182).
ReadsTheSection ==
    \A s \in Sections, k \in Keys :
        Orderly(file, s, k) => \A j \in Sets(file, s, k) : Read(file, s, k) = file[j].val

\* What write_cfg writes read_cfg reads, and nothing but that setting
\* changes: no line of another section or key (common.sh:192-200).
WritesTheSetting ==
    \A s \in Sections, k \in Keys, v \in Values :
        Orderly(file, s, k) /\ Unmistaken(file, s, k) =>
            LET g == Written(file, s, k, v) IN
            /\ Sets(file, s, k) # {} => Read(g, s, k) = v
            /\ \A j \in DOMAIN file \ Sets(file, s, k) : g[j] = file[j]

\* "read section and key from ini file" (common.sh:170): what is read is set
\* in that section, or nothing is read.
ReadsOnlyTheSection ==
    \A s \in Sections, k \in Keys :
        Read(file, s, k) \in {Absent} \cup {file[j].val : j \in Sets(file, s, k)}

=============================================================================
