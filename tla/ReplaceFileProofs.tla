--------------------------- MODULE ReplaceFileProofs ---------------------------
(***************************************************************************)
(* What the operations on a file that is replaced through a sibling leave  *)
(* behind, for any set C of contents and W of writers.                     *)
(***************************************************************************)
EXTENDS ReplaceFile, TLAPS

LEMMA WholeIsReadable ==
    ASSUME NEW c
    PROVE  Whole(c) \notin {Absent, Empty, Torn} /\ Whole(c).of = c
BY DEF Whole, Absent, Empty, Torn

LEMMA WholeInContents ==
    ASSUME NEW C, NEW c \in C
    PROVE  Whole(c) \in Contents(C)
BY DEF Whole, Contents

LEMMA ContentsDiffer == Absent # Empty /\ Absent # Torn /\ Empty # Torn
BY DEF Absent, Empty, Torn

LEMMA OpenedPath ==
    ASSUME NEW C, NEW W, NEW f \in Files(C, W), NEW w \in W,
           NEW g, g = Opened(f, "path", w)
    PROVE  /\ g \in Files(C, W) /\ g.path = Empty
           /\ g.on[w] = "path" /\ \A v \in W \ {w} : g.on[v] = f.on[v]
<1>1. Empty \in Contents(C)
    BY DEF Contents
<1> QED BY <1>1 DEF Opened, Files

LEMMA OpenedTmp ==
    ASSUME NEW C, NEW W, NEW f \in Files(C, W), NEW w \in W,
           NEW g, g = Opened(f, "tmp", w)
    PROVE  /\ g \in Files(C, W) /\ g.path = f.path /\ g.tmp = Empty
           /\ g.on[w] = "tmp" /\ \A v \in W \ {w} : g.on[v] = f.on[v]
<1>1. Empty \in Contents(C)
    BY DEF Contents
<1> QED BY <1>1 DEF Opened, Files

LEMMA ClosedFile ==
    ASSUME NEW C, NEW W, NEW f \in Files(C, W), NEW R
    PROVE  /\ Closed(f, R) \in Files(C, W)
           /\ Closed(f, R).path = f.path /\ Closed(f, R).tmp = f.tmp
           /\ \A w \in W : Closed(f, R).on[w] = IF w \in R THEN "none" ELSE f.on[w]
BY DEF Closed, Files

LEMMA ClosedByOthers ==
    ASSUME NEW C, NEW W, NEW f \in Files(C, W), NEW w, f.on[w] = "none"
    PROVE  Closed(f, {w}) = f
BY DEF Closed, Files

LEMMA RenamedFile ==
    ASSUME NEW C, NEW W, NEW f \in Files(C, W)
    PROVE  /\ Renamed(f) \in Files(C, W) /\ Renamed(f).path = f.tmp
           /\ \A w \in W : Renamed(f).on[w] # "none" => f.on[w] # "none"
<1>1. Absent \in Contents(C)
    BY DEF Contents
<1> QED BY <1>1 DEF Renamed, Files

LEMMA BrokenFile ==
    ASSUME NEW C, NEW W, NEW f \in Files(C, W), NEW w \in W,
           NEW g \in {Broken(f, w)}
    PROVE  /\ g \in Files(C, W)
           /\ g.on[w] = "none" /\ \A v \in W \ {w} : g.on[v] = f.on[v]
           /\ f.on[w] = "tmp" => g.path = f.path
<1>1. Torn \in Contents(C)
    BY DEF Contents
<1>2. CASE f.on[w] = "none"
    BY <1>2 DEF Broken, Files
<1>3. CASE f.on[w] = "path"
    <2>1. g = [f EXCEPT !.path = Torn, !.on[w] = "none"]
        BY <1>3 DEF Broken
    <2>2. g \in Files(C, W)
        BY <1>1, <2>1 DEF Files
    <2>3. g.on[w] = "none" /\ \A v \in W \ {w} : g.on[v] = f.on[v]
        BY <2>1 DEF Files
    <2> QED BY <1>3, <2>2, <2>3
<1>4. CASE f.on[w] = "tmp"
    <2>1. g = [f EXCEPT !.tmp = Torn, !.on[w] = "none"]
        BY <1>4 DEF Broken
    <2>2. g \in Files(C, W)
        BY <1>1, <2>1 DEF Files
    <2>3. g.on[w] = "none" /\ \A v \in W \ {w} : g.on[v] = f.on[v]
        BY <2>1 DEF Files
    <2>4. g.path = f.path
        BY <2>1 DEF Files
    <2> QED BY <2>2, <2>3, <2>4
<1> QED BY <1>2, <1>3, <1>4 DEF Files

LEMMA FilledFile ==
    ASSUME NEW C, NEW W, NEW f \in Files(C, W), NEW w \in W, NEW c \in C,
           NEW g \in Filled(f, w, c)
    PROVE  /\ g \in Files(C, W)
           /\ g.on[w] = "none" /\ \A v \in W \ {w} : g.on[v] = f.on[v]
           /\ f.on[w] = "path" /\ f.path = Empty => g.path = Whole(c)
           /\ f.on[w] = "tmp" => g.path = f.path
           /\ f.on[w] = "tmp" /\ f.tmp = Empty => g.tmp = Whole(c)
<1>1. Whole(c) \in Contents(C) /\ Torn \in Contents(C)
    BY DEF Contents, Whole
<1>2. \A old : Overlaid(old, c) \subseteq Contents(C)
    BY <1>1 DEF Overlaid
<1>3. Overlaid(Empty, c) = {Whole(c)}
    BY DEF Overlaid
<1>4. CASE f.on[w] = "none"
    BY <1>4 DEF Filled, Files
<1>5. CASE f.on[w] = "path"
    <2>1. PICK new \in Overlaid(f.path, c) :
             g = [f EXCEPT !.path = new, !.on[w] = "none"]
        BY <1>5 DEF Filled
    <2> QED BY <1>2, <1>3, <1>5, <2>1 DEF Files
<1>6. CASE f.on[w] = "tmp"
    <2>1. PICK new \in Overlaid(f.tmp, c) :
             g = [f EXCEPT !.tmp = new, !.on[w] = "none"]
        BY <1>6 DEF Filled
    <2> QED BY <1>2, <1>3, <1>6, <2>1 DEF Files
<1> QED BY <1>4, <1>5, <1>6 DEF Files
=============================================================================
