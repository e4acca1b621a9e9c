--------------------------- MODULE ListingsProofs ---------------------------
(***************************************************************************)
(* Listings (module Listings), for folders, pages and changes of any       *)
(* number and size.                                                        *)
(*                                                                         *)
(* What the loops have asked for is a prefix of what the provider lists.   *)
(* A file that leaves the folder moves at most one other over the end of   *)
(* that prefix, into what will not be asked for any more; a file that      *)
(* enters moves at most one out of it, to be read again.  CountInv counts  *)
(* both.  A loop that stops at a page that brings nothing relies on the    *)
(* second: such a page can only be full of files read before, or of stray  *)
(* ones, if so many entered.                                               *)
(***************************************************************************)
EXTENDS Listings, FiniteSetTheorems, TLAPS

-----------------------------------------------------------------------------
(***************************************************************************)
(* Ranks.                                                                  *)
(***************************************************************************)
Ordered(p, V) ==
    /\ IsFiniteSet(V)
    /\ \A x \in V : p[x] \in Int
    /\ \A x, y \in V : p[x] = p[y] => x = y

Lower(p, V, x) == {y \in V : p[y] < p[x]}
Below(p, V, x) == Cardinality(Lower(p, V, x))

\* The entries before place o, and the n from there on.
Passed(p, V, o) == {x \in V : Below(p, V, x) < o}
Paged(p, V, o, n) == {x \in V : o <= Below(p, V, x) /\ Below(p, V, x) < o + n}

LEMMA BelowType ==
  ASSUME NEW p, NEW V, Ordered(p, V), NEW x \in V
  PROVE  /\ IsFiniteSet(Lower(p, V, x)) /\ Cardinality(V) \in Nat
         /\ Below(p, V, x) \in 0..Cardinality(V) - 1
<1>1. Lower(p, V, x) \subseteq V \ {x}
  BY DEF Lower, Ordered
<1>2. IsFiniteSet(V \ {x}) /\ Cardinality(V \ {x}) = Cardinality(V) - 1
  BY FS_RemoveElement DEF Ordered
<1>3. IsFiniteSet(Lower(p, V, x)) /\ Cardinality(Lower(p, V, x)) <= Cardinality(V) - 1
  BY <1>1, <1>2, FS_Subset
<1>4. Cardinality(Lower(p, V, x)) \in Nat /\ Cardinality(V) \in Nat
  BY <1>3, FS_CardinalityType DEF Ordered
<1> QED BY <1>3, <1>4 DEF Below

\* Places and ranks are in the same order.
LEMMA BelowGrows ==
  ASSUME NEW p, NEW V, Ordered(p, V), NEW x \in V, NEW y \in V, p[x] < p[y]
  PROVE  Below(p, V, x) < Below(p, V, y)
<1>1. Lower(p, V, x) \subseteq Lower(p, V, y) \ {x} /\ x \in Lower(p, V, y)
  BY DEF Lower, Ordered
<1>2. IsFiniteSet(Lower(p, V, y)) /\ IsFiniteSet(Lower(p, V, x))
  BY BelowType
<1>3. /\ IsFiniteSet(Lower(p, V, y) \ {x})
      /\ Cardinality(Lower(p, V, y) \ {x}) = Cardinality(Lower(p, V, y)) - 1
  BY <1>1, <1>2, FS_RemoveElement
<1>4. Cardinality(Lower(p, V, x)) <= Cardinality(Lower(p, V, y) \ {x})
  BY <1>1, <1>3, FS_Subset
<1>5. Cardinality(Lower(p, V, x)) \in Nat /\ Cardinality(Lower(p, V, y)) \in Nat
  BY <1>2, FS_CardinalityType
<1> QED BY <1>3, <1>4, <1>5 DEF Below

LEMMA BelowApart ==
  ASSUME NEW p, NEW V, Ordered(p, V), NEW x \in V, NEW y \in V,
         Below(p, V, x) = Below(p, V, y)
  PROVE  x = y
<1>1. Below(p, V, x) \in Int
  BY BelowType
<1>2. ~(p[x] < p[y])
  BY <1>1, BelowGrows
<1>3. ~(p[y] < p[x])
  BY <1>1, BelowGrows
<1>4. p[x] = p[y]
  BY <1>2, <1>3 DEF Ordered
<1> QED BY <1>4 DEF Ordered

\* Every rank up to the number of entries is somebody's.
LEMMA BelowOnto ==
  ASSUME NEW p, NEW V, Ordered(p, V), NEW k \in 0..Cardinality(V) - 1
  PROVE  \E x \in V : Below(p, V, x) = k
<1>1. PICK f : f = [x \in V |-> Below(p, V, x)]
  OBVIOUS
<1>2. f \in [V -> 0..Cardinality(V) - 1]
  BY <1>1, BelowType
<1>3. f \in Injection(V, 0..Cardinality(V) - 1)
  <2>1. ASSUME NEW x \in V, NEW y \in V, f[x] = f[y] PROVE x = y
    BY <1>1, <2>1, BelowApart
  <2> QED BY <1>2, <2>1 DEF Injection, IsInjective
<1>4. IsFiniteSet(V) /\ Cardinality(V) \in Nat
  BY FS_CardinalityType DEF Ordered
<1>5. /\ IsFiniteSet(0..Cardinality(V) - 1)
      /\ Cardinality(0..Cardinality(V) - 1) = Cardinality(V)
  <2>1. 0 \in Int /\ Cardinality(V) - 1 \in Int
    BY <1>4
  <2> QED BY <1>4, <2>1, FS_Interval
<1>6. f \in Surjection(V, 0..Cardinality(V) - 1)
  BY <1>3, <1>5, FS_Injection
<1>7. PICK x \in V : f[x] = k
  BY <1>6 DEF Surjection
<1> QED BY <1>1, <1>7

\* A page has no more than n entries, and n if there are so many.
LEMMA PageBounds ==
  ASSUME NEW p, NEW V, Ordered(p, V), NEW o \in Nat, NEW n \in Nat
  PROVE  /\ IsFiniteSet(Paged(p, V, o, n)) /\ Cardinality(Paged(p, V, o, n)) \in Nat
         /\ Cardinality(Paged(p, V, o, n)) <= n
         /\ Cardinality(V) >= o + n => Cardinality(Paged(p, V, o, n)) = n
<1>1. PICK G : G = Paged(p, V, o, n)
  OBVIOUS
<1>2. G \subseteq V
  BY <1>1 DEF Paged
<1>3. \A x \in V : Below(p, V, x) \in Nat
  BY BelowType
<1>4. PICK f : f = [x \in G |-> Below(p, V, x)]
  OBVIOUS
<1>5. f \in [G -> o..o + n - 1]
  BY <1>1, <1>2, <1>3, <1>4 DEF Paged
<1>6. f \in Injection(G, o..o + n - 1)
  <2>1. ASSUME NEW x \in G, NEW y \in G, f[x] = f[y] PROVE x = y
    BY <1>2, <1>4, <2>1, BelowApart
  <2> QED BY <1>5, <2>1 DEF Injection, IsInjective
<1>7. IsFiniteSet(o..o + n - 1) /\ Cardinality(o..o + n - 1) = n
  <2>1. o \in Int /\ o + n - 1 \in Int
    OBVIOUS
  <2> QED BY <2>1, FS_Interval
<1>8. IsFiniteSet(G) /\ Cardinality(G) <= n
  BY <1>6, <1>7, FS_Injection
<1>9. ASSUME Cardinality(V) >= o + n PROVE Cardinality(G) = n
  <2>1. ASSUME NEW k \in o..o + n - 1 PROVE \E x \in G : f[x] = k
    <3>1. k \in 0..Cardinality(V) - 1
      BY <1>9, FS_CardinalityType DEF Ordered
    <3>2. PICK x \in V : Below(p, V, x) = k
      BY <3>1, BelowOnto
    <3>3. x \in G
      BY <1>1, <3>2 DEF Paged
    <3> QED BY <1>4, <3>2, <3>3
  <2>2. f \in Surjection(G, o..o + n - 1)
    BY <1>5, <2>1 DEF Surjection
  <2> QED BY <1>6, <1>7, <2>2, FS_Injection
<1> QED BY <1>1, <1>8, <1>9, FS_CardinalityType

\* A short page, or a view that ends with it, leaves nothing behind it.
LEMMA Exhausted ==
  ASSUME NEW p, NEW V, Ordered(p, V), NEW o \in Nat, NEW n \in Nat,
         \/ Cardinality(Paged(p, V, o, n)) < n
         \/ Cardinality(V) <= o + n
  PROVE  Passed(p, V, o + n) = V
<1>1. Cardinality(V) \in Nat
  BY FS_CardinalityType DEF Ordered
<1>2. Cardinality(V) <= o + n
  <2>1. Cardinality(V) >= o + n => Cardinality(Paged(p, V, o, n)) = n
    BY PageBounds
  <2> QED BY <1>1, <2>1
<1>3. \A x \in V : Below(p, V, x) \in Nat /\ Below(p, V, x) < o + n
  BY <1>1, <1>2, BelowType
<1> QED BY <1>3 DEF Passed

LEMMA PassedOn ==
  ASSUME NEW p, NEW V, Ordered(p, V), NEW o \in Nat, NEW n \in Nat
  PROVE  /\ Passed(p, V, o + n) = Passed(p, V, o) \cup Paged(p, V, o, n)
         /\ Passed(p, V, 0) = {}
<1>1. \A x \in V : Below(p, V, x) \in Nat
  BY BelowType
<1> QED BY <1>1 DEF Passed, Paged

-----------------------------------------------------------------------------
(***************************************************************************)
(* One entry less, or one more.                                            *)
(***************************************************************************)
SameOrder(p, q, W) == \A x, y \in W : p[x] < p[y] <=> q[x] < q[y]

\* Without y the others keep their order, ...
LEMMA BelowWithout ==
  ASSUME NEW p, NEW q, NEW V, NEW y, Ordered(p, V), SameOrder(p, q, V \ {y}), NEW x \in V \ {y}
  PROVE  Below(q, V \ {y}, x) =
           IF y \in Lower(p, V, x) THEN Below(p, V, x) - 1 ELSE Below(p, V, x)
<1>1. Lower(q, V \ {y}, x) = Lower(p, V, x) \ {y}
  BY DEF Lower, SameOrder
<1>2. IsFiniteSet(Lower(p, V, x))
  BY BelowType
<1>3. Cardinality(Lower(p, V, x) \ {y}) =
        IF y \in Lower(p, V, x) THEN Cardinality(Lower(p, V, x)) - 1
        ELSE Cardinality(Lower(p, V, x))
  BY <1>2, FS_RemoveElement
<1> QED BY <1>1, <1>3 DEF Below

\* ... at most one more of them comes before a place, and none does if y was
\* behind it.
LEMMA PassedWithout ==
  ASSUME NEW p, NEW q, NEW V, NEW y, Ordered(p, V), SameOrder(p, q, V \ {y}), NEW o \in Nat
  PROVE  /\ Passed(p, V, o) \ {y} \subseteq Passed(q, V \ {y}, o)
         /\ \A x, z \in Passed(q, V \ {y}, o) \ Passed(p, V, o) : x = z
         /\ \A x \in Passed(q, V \ {y}, o) \ Passed(p, V, o) : y \in Passed(p, V, o)
<1>1. \A x \in V : Below(p, V, x) \in Nat
  BY BelowType
<1>2. Passed(p, V, o) \ {y} \subseteq Passed(q, V \ {y}, o)
  <2>1. SUFFICES ASSUME NEW x \in V \ {y}, Below(p, V, x) < o
                 PROVE  Below(q, V \ {y}, x) < o
    BY DEF Passed
  <2>2. Below(q, V \ {y}, x) =
          IF y \in Lower(p, V, x) THEN Below(p, V, x) - 1 ELSE Below(p, V, x)
    BY BelowWithout
  <2>3. Below(p, V, x) \in Nat
    BY <1>1
  <2> QED BY <2>1, <2>2, <2>3
<1>3. ASSUME NEW x \in Passed(q, V \ {y}, o) \ Passed(p, V, o)
      PROVE  x \in V /\ Below(p, V, x) = o /\ y \in Lower(p, V, x)
  <2>1. x \in V \ {y} /\ Below(q, V \ {y}, x) < o /\ ~(Below(p, V, x) < o)
    BY DEF Passed
  <2>2. Below(q, V \ {y}, x) =
          IF y \in Lower(p, V, x) THEN Below(p, V, x) - 1 ELSE Below(p, V, x)
    BY <2>1, BelowWithout
  <2>3. Below(p, V, x) \in Nat
    BY <1>1, <2>1
  <2> QED BY <2>1, <2>2, <2>3
<1>4. \A x, z \in Passed(q, V \ {y}, o) \ Passed(p, V, o) : x = z
  BY <1>3, BelowApart
<1>5. ASSUME NEW x \in Passed(q, V \ {y}, o) \ Passed(p, V, o) PROVE y \in Passed(p, V, o)
  <2>1. x \in V /\ Below(p, V, x) = o /\ y \in V /\ p[y] < p[x]
    BY <1>3 DEF Lower
  <2>2. Below(p, V, y) < Below(p, V, x)
    BY <2>1, BelowGrows
  <2> QED BY <2>1, <2>2 DEF Passed
<1> QED BY <1>2, <1>4, <1>5

LEMMA AtMostOneMore ==
  ASSUME NEW A, NEW B, IsFiniteSet(A), \A x, y \in B \ A : x = y
  PROVE  /\ IsFiniteSet(B) /\ Cardinality(B) \in Nat /\ Cardinality(A) \in Nat
         /\ Cardinality(B) <= Cardinality(A) + 1
<1>1. CASE B \subseteq A
  <2>1. IsFiniteSet(B) /\ Cardinality(B) <= Cardinality(A)
    BY <1>1, FS_Subset
  <2> QED BY <2>1, FS_CardinalityType
<1>2. CASE ~(B \subseteq A)
  <2>1. PICK z \in B : z \notin A
    BY <1>2
  <2>2. B \subseteq A \cup {z}
    BY <2>1
  <2>3. IsFiniteSet(A \cup {z}) /\ Cardinality(A \cup {z}) = Cardinality(A) + 1
    BY <2>1, FS_AddElement
  <2>4. IsFiniteSet(B) /\ Cardinality(B) <= Cardinality(A \cup {z})
    BY <2>2, <2>3, FS_Subset
  <2> QED BY <2>3, <2>4, FS_CardinalityType
<1> QED BY <1>1, <1>2

LEMMA Fewer ==
  ASSUME NEW A, NEW B, IsFiniteSet(A), B \subseteq A
  PROVE  /\ IsFiniteSet(B) /\ Cardinality(B) \in Nat /\ Cardinality(A) \in Nat
         /\ Cardinality(B) <= Cardinality(A)
BY FS_Subset, FS_CardinalityType

LEMMA Together ==
  ASSUME NEW A, NEW B, NEW C, IsFiniteSet(A), IsFiniteSet(B), C \subseteq A \cup B
  PROVE  /\ Cardinality(A) \in Nat /\ Cardinality(B) \in Nat /\ Cardinality(C) \in Nat
         /\ Cardinality(C) <= Cardinality(A) + Cardinality(B)
<1>1. /\ IsFiniteSet(A \cup B) /\ IsFiniteSet(A \cap B)
      /\ Cardinality(A \cup B) = Cardinality(A) + Cardinality(B) - Cardinality(A \cap B)
  BY FS_Union, FS_Intersection
<1>2. IsFiniteSet(C) /\ Cardinality(C) <= Cardinality(A \cup B)
  BY <1>1, FS_Subset
<1> QED BY <1>1, <1>2, FS_CardinalityType

-----------------------------------------------------------------------------
(***************************************************************************)
(* What is read, and what the provider lists.                              *)
(***************************************************************************)
Fields == {"pc", "alias", "offset", "out", "pages", "ids", "more", "err", "bare"}
Points == {"page", "details", "pictures"}
Offsets == {PageSize * n : n \in 0..Pages - 1}

\* Nothing is read twice, and what was read, or is about to be, was listed.
ReadOnce(r, ans, be) ==
    /\ DOMAIN r = Fields
    /\ r.pc \in Points \cup {"done", "failed"} /\ r.alias \in 1..Aliases
    /\ r.offset \in Offsets
    /\ r.out \in [Entries -> {0, 1}] /\ Seen(r.out) \subseteq be \ Strays
    /\ r.ids \subseteq be \ Seen(r.out)
    /\ r.more \in BOOLEAN /\ r.err \in BOOLEAN /\ r.bare \in BOOLEAN
    /\ r.more => r.offset + PageSize \in Offsets
    /\ r.alias \notin ans => Seen(r.out) = {} /\ r.ids = {}

\* A page that was read brings nothing new.
GoodRead(r, ans, be) ==
    /\ ReadOnce(r, ans, be)
    /\ r.pc \in {"page", "pictures"} => r.ids = {} /\ ~r.more
    /\ r.pc \in Points /\ ~r.bare => \A g \in r.pages : DOMAIN g \subseteq Seen(r.out) \cup Strays

FolderInv ==
    /\ provider \in {"o2", "movistar"} /\ answers \subseteq 1..Aliases /\ answers # {}
    /\ says \in BOOLEAN /\ names \in BOOLEAN /\ both \subseteq Pictures
    /\ listed \in Injection(DOMAIN listed, 1..Cardinality(DOMAIN listed))
    /\ DOMAIN listed \subseteq been /\ been \subseteq Entries
    /\ stayed \subseteq DOMAIN listed \ Strays
    /\ added \in Nat /\ removed \in Nat /\ added + removed <= MaxChanges
    /\ failures \in 0..MaxFailures

TypeInv ==
    /\ FolderInv /\ GoodRead(read, answers, been)
    /\ read.pc \in {"details", "pictures"} => provider = "movistar"

LEMMA OffsetsGrow ==
  /\ Offsets \subseteq Nat /\ 0 \in Offsets
  /\ \A o \in Offsets : o + PageSize < Pages * PageSize => o + PageSize \in Offsets
<1>1. PageSize \in Nat /\ PageSize > 0 /\ Pages \in Nat /\ Pages > 0
  BY ListingsAssumption
<1>2. Offsets \subseteq Nat
  BY <1>1 DEF Offsets
<1>3. 0 \in Offsets
  <2>1. 0 \in 0..Pages - 1 /\ PageSize * 0 = 0
    BY <1>1
  <2> QED BY <2>1 DEF Offsets
<1>4. ASSUME NEW o \in Offsets, o + PageSize < Pages * PageSize PROVE o + PageSize \in Offsets
  <2>1. PICK n \in 0..Pages - 1 : o = PageSize * n
    BY DEF Offsets
  <2>2. o + PageSize = PageSize * (n + 1)
    BY <1>1, <2>1
  <2>3. n + 1 < Pages
    <3>1. SUFFICES ASSUME n + 1 >= Pages PROVE FALSE
      BY <1>1
    <3>2. PICK k \in Nat : n + 1 = Pages + k
      <4>1. n + 1 - Pages \in Nat /\ n + 1 = Pages + (n + 1 - Pages)
        BY <1>1, <3>1
      <4> QED BY <4>1
    <3>3. PageSize * (Pages + k) = PageSize * Pages + PageSize * k
      BY <1>1
    <3>4. PageSize * k \in Nat /\ PageSize * Pages \in Nat /\ Pages * PageSize = PageSize * Pages
      BY <1>1
    <3> QED BY <1>4, <2>2, <3>2, <3>3, <3>4
  <2>4. n + 1 \in 0..Pages - 1
    BY <1>1, <2>3
  <2>5. PageSize * (n + 1) \in Offsets
    BY <2>4 DEF Offsets
  <2> QED BY <2>2, <2>5
<1> QED BY <1>2, <1>3, <1>4

LEMMA AndSeen ==
  ASSUME NEW out \in [Entries -> {0, 1}], NEW new \in SUBSET (Entries \ Seen(out))
  PROVE  And(out, new) \in [Entries -> {0, 1}] /\ Seen(And(out, new)) = Seen(out) \cup new
<1>1. \A x \in new : out[x] = 0
  BY DEF Seen
<1> QED BY <1>1 DEF And, Seen

LEMMA NothingSeen == Nothing \in [Entries -> {0, 1}] /\ Seen(Nothing) = {}
BY DEF Nothing, Seen

\* Where the next id of the folder is tried, or the loop ends.
LEMMA FinishIs ==
  ASSUME NEW r, DOMAIN r = Fields, NEW q, q = Finish(r)
  PROVE  /\ DOMAIN q = Fields /\ q.err = r.err /\ q.bare = r.bare
         /\ \/ /\ q.pc \in {"done", "failed"} /\ q.alias = r.alias /\ q.offset = r.offset
               /\ q.out = r.out /\ q.ids = r.ids /\ q.more = r.more /\ q.pages = r.pages
               /\ \/ q.pc = "done" /\ Seen(r.out) # {}
                  \/ Seen(r.out) = {} /\ ~(r.alias < Aliases) /\ (q.pc = "done" => ~r.err)
            \/ /\ Seen(r.out) = {} /\ r.alias < Aliases
               /\ q.pc = "page" /\ q.alias = r.alias + 1 /\ q.offset = 0 /\ q.out = Nothing
               /\ q.ids = {} /\ q.more = FALSE /\ q.pages = {}
<1>1. CASE Seen(r.out) # {}
  BY <1>1 DEF Finish, Fields
<1>2. CASE Seen(r.out) = {} /\ r.alias < Aliases
  <2>1. q = Reads(r.alias + 1, r.err, r.bare)
    BY <1>2 DEF Finish
  <2> QED BY <1>2, <2>1 DEF Reads, Fields
<1>3. CASE Seen(r.out) = {} /\ ~(r.alias < Aliases)
  BY <1>3 DEF Finish, Fields
<1> QED BY <1>1, <1>2, <1>3

LEMMA GoodFinish ==
  ASSUME NEW r, NEW ans, NEW be, ReadOnce(r, ans, be)
  PROVE  GoodRead(Finish(r), ans, be) /\ Finish(r).pc \notin {"details", "pictures"}
<1>1. PICK q : q = Finish(r)
  OBVIOUS
<1>2. DOMAIN r = Fields
  BY DEF ReadOnce
<1>3. /\ DOMAIN q = Fields /\ q.err = r.err /\ q.bare = r.bare
      /\ \/ /\ q.pc \in {"done", "failed"} /\ q.alias = r.alias /\ q.offset = r.offset
            /\ q.out = r.out /\ q.ids = r.ids /\ q.more = r.more /\ q.pages = r.pages
         \/ /\ r.alias < Aliases
            /\ q.pc = "page" /\ q.alias = r.alias + 1 /\ q.offset = 0 /\ q.out = Nothing
            /\ q.ids = {} /\ q.more = FALSE /\ q.pages = {}
  BY <1>1, <1>2, FinishIs
<1>4. CASE q.pc \in {"done", "failed"}
  BY <1>1, <1>3, <1>4 DEF GoodRead, ReadOnce, Points
<1>5. CASE q.pc = "page"
  <2>1. q.alias \in 1..Aliases
    BY <1>3, <1>5, ListingsAssumption DEF GoodRead, ReadOnce
  <2> QED BY <1>1, <1>3, <1>5, <2>1, NothingSeen, OffsetsGrow DEF GoodRead, ReadOnce, Points
<1> QED BY <1>3, <1>4, <1>5

-----------------------------------------------------------------------------
(***************************************************************************)
(* What the first listing the client reads may show, and the second: a     *)
(* picture may be in both.                                                 *)
(***************************************************************************)
First == Shows("page")
Rest == IF provider = "o2" THEN {} ELSE Pictures

\* Whatever may be in the folder is shown by one or the other.
LEMMA Listed ==
  ASSUME FolderInv
  PROVE  /\ First \subseteq Entries /\ Rest \subseteq Entries /\ Entries = First \cup Rest
         /\ provider = "o2" => First = Entries
         /\ provider = "movistar" => Rest = Shows("pictures")
BY ListingsAssumption DEF FolderInv, First, Rest, Shows

Here(pc) == Paged(listed, View(pc), read.offset, PageSize)

LEMMA PlacesOrder ==
  ASSUME NEW p, p \in Injection(DOMAIN p, 1..Cardinality(DOMAIN p)), DOMAIN p \subseteq Entries,
         NEW V, V \subseteq DOMAIN p
  PROVE  Ordered(p, V)
<1>1. IsFiniteSet(Entries) /\ V \subseteq Entries
  BY ListingsAssumption
<1>2. IsFiniteSet(V)
  BY <1>1, FS_Subset
<1>3. \A x \in V : p[x] \in Int
  BY DEF Injection
<1>4. \A x, y \in V : p[x] = p[y] => x = y
  BY DEF Injection, IsInjective
<1> QED BY <1>2, <1>3, <1>4 DEF Ordered

LEMMA ViewOrdered ==
  ASSUME FolderInv, NEW V, V \subseteq DOMAIN listed
  PROVE  Ordered(listed, V)
BY PlacesOrder DEF FolderInv

LEMMA ViewIs ==
  ASSUME FolderInv, NEW pc \in {"page", "pictures"}
  PROVE  /\ View(pc) \subseteq DOMAIN listed /\ Ordered(listed, View(pc))
         /\ read.alias \notin answers => View(pc) = {}
         /\ read.alias \in answers => View("page") = DOMAIN listed \cap First
         /\ read.alias \in answers /\ provider = "movistar" =>
                View("pictures") = DOMAIN listed \cap Rest
<1>1. DOMAIN listed \subseteq Entries
  BY DEF FolderInv
<1>2. View(pc) \subseteq DOMAIN listed
  BY DEF View
<1>3. Ordered(listed, View(pc))
  BY <1>2, ViewOrdered
<1>4. read.alias \notin answers => View(pc) = {}
  BY DEF View
<1>5. CASE provider = "o2"
  BY <1>1, <1>2, <1>3, <1>4, <1>5 DEF View, First, Shows
<1>6. CASE provider = "movistar"
  <2>1. ASSUME read.alias \in answers PROVE View("page") = DOMAIN listed \cap First
    BY <1>1, <1>6, <2>1 DEF View, First, Shows
  <2>2. ASSUME read.alias \in answers PROVE View("pictures") = DOMAIN listed \cap Rest
    BY <1>1, <1>6, <2>2, ListingsAssumption DEF View, Rest, Shows
  <2> QED BY <1>2, <1>3, <1>4, <2>1, <2>2
<1> QED BY <1>5, <1>6 DEF FolderInv

LEMMA PageIs ==
  ASSUME FolderInv, GoodRead(read, answers, been), NEW pc \in {"page", "pictures"}
  PROVE  /\ DOMAIN PageOf(View(pc)) = Here(pc)
         /\ Length(PageOf(View(pc))) = Cardinality(Here(pc))
         /\ Here(pc) \subseteq View(pc) /\ Here(pc) \subseteq been
         /\ IsFiniteSet(Here(pc)) /\ Cardinality(Here(pc)) \in 0..PageSize
         /\ read.alias \notin answers => Here(pc) = {}
<1>1. DOMAIN PageOf(View(pc)) = Here(pc)
  BY DEF PageOf, InPage, Rank, Before, Here, Paged, Below, Lower
<1>2. Here(pc) \subseteq View(pc)
  BY DEF Here, Paged
<1>3. read.offset \in Nat /\ PageSize \in Nat
  BY OffsetsGrow, ListingsAssumption DEF GoodRead, ReadOnce
<1>4. IsFiniteSet(Here(pc)) /\ Cardinality(Here(pc)) \in 0..PageSize
  <2>1. Ordered(listed, View(pc))
    BY ViewIs
  <2>2. PICK o \in Nat : o = read.offset
    BY <1>3
  <2>3. /\ IsFiniteSet(Paged(listed, View(pc), o, PageSize))
        /\ Cardinality(Paged(listed, View(pc), o, PageSize)) \in Nat
        /\ Cardinality(Paged(listed, View(pc), o, PageSize)) <= PageSize
    BY <1>3, <2>1, PageBounds
  <2> QED BY <1>3, <2>2, <2>3 DEF Here
<1> QED BY <1>1, <1>2, <1>4, ViewIs DEF Length, FolderInv

-----------------------------------------------------------------------------
(***************************************************************************)
(* The steps of the loops.                                                 *)
(***************************************************************************)
\* What a page brings to the O2 client, and when it is the last it asks for.
TakenHere(bare) == IF bare THEN {} ELSE (Here("page") \ Seen(read.out)) \ Strays
Stops(bare) ==
    \/ \E g \in read.pages : DOMAIN g = Here("page")
    \/ TakenHere(bare) = {}
    \/ Cardinality(Here("page")) < PageSize
    \/ read.offset + PageSize >= Pages * PageSize

LEMMA ReadBounds ==
  ASSUME TypeInv
  PROVE  /\ read.offset \in Nat /\ PageSize \in Nat /\ PageSize > 0
         /\ read.offset + PageSize \in Int /\ Pages * PageSize \in Nat
<1>1. read.offset \in Nat
  BY OffsetsGrow DEF TypeInv, GoodRead, ReadOnce
<1>2. PageSize \in Nat /\ PageSize > 0 /\ Pages \in Nat
  BY ListingsAssumption
<1> QED BY <1>1, <1>2

O2Read(r, bare) ==
    /\ GoodRead(r, answers, been) /\ r.pc = "page" /\ r.alias = read.alias
    /\ r.offset = read.offset /\ r.ids = {} /\ ~r.more /\ r.err = read.err
    /\ Seen(r.out) = Seen(read.out) \cup TakenHere(bare)
    /\ ~r.bare => ~read.bare /\ (bare => Here("page") = {})
    /\ \/ read' = Finish(r) /\ Stops(bare)
       \/ /\ read' = [r EXCEPT !.offset = @ + PageSize]
          /\ read.offset + PageSize < Pages * PageSize

LEMMA O2Reads ==
  ASSUME TypeInv, read.pc = "page", NEW bare \in BOOLEAN, O2Page(bare)
  PROVE  \E r : O2Read(r, bare)
<1>1. PICK g, H : g = PageOf(View("page")) /\ H = Here("page")
  OBVIOUS
<1>2. /\ DOMAIN g = H /\ Length(g) = Cardinality(H) /\ H \subseteq been
      /\ read.alias \notin answers => H = {}
  BY <1>1, PageIs DEF TypeInv
<1>3. PICK taken : taken = IF bare THEN {} ELSE Taken(g, read.out)
  OBVIOUS
<1>4. taken = TakenHere(bare)
  BY <1>1, <1>2, <1>3 DEF Taken, New, Files, TakenHere
<1>5. PICK r : r = [read EXCEPT !.out = And(@, taken), !.pages = @ \cup {g},
                                !.bare = @ \/ (bare /\ H # {})]
  OBVIOUS
<1>6. \/ read' = Finish(r) /\ Stops(bare)
      \/ /\ read' = [r EXCEPT !.offset = @ + PageSize]
         /\ read.offset + PageSize < Pages * PageSize
  <2>1. read' = IF \/ g \in read.pages \/ taken = {}
                   \/ (~(says /\ More(View("page"))) /\ Length(g) < PageSize) \/ LastPage
                THEN Finish(r) ELSE [r EXCEPT !.offset = @ + PageSize]
    BY <1>1, <1>2, <1>3, <1>5 DEF O2Page
  <2>2. read.offset + PageSize \in Int /\ Pages * PageSize \in Int
    BY ReadBounds
  <2> QED BY <1>1, <1>2, <1>4, <2>1, <2>2 DEF Stops, LastPage
<1>7. taken \subseteq been \ Strays /\ taken \in SUBSET (Entries \ Seen(read.out))
  BY <1>1, <1>2, <1>4 DEF TakenHere, TypeInv, FolderInv
<1>8. read.out \in [Entries -> {0, 1}] /\ DOMAIN read = Fields
  BY DEF TypeInv, GoodRead, ReadOnce
<1>9. And(read.out, taken) \in [Entries -> {0, 1}]
      /\ Seen(And(read.out, taken)) = Seen(read.out) \cup taken
  BY <1>7, <1>8, AndSeen
<1>10. /\ DOMAIN r = Fields /\ r.pc = read.pc /\ r.alias = read.alias /\ r.offset = read.offset
       /\ r.ids = read.ids /\ r.more = read.more /\ r.err = read.err
       /\ r.out = And(read.out, taken) /\ r.pages = read.pages \cup {g}
       /\ r.bare = (read.bare \/ (bare /\ H # {}))
  BY <1>5, <1>8 DEF Fields
<1>11. read.ids = {} /\ ~read.more
  BY DEF TypeInv, GoodRead, ReadOnce
<1>12. ~r.bare => ~read.bare /\ (bare => H = {})
  BY <1>10
<1>13. ~r.bare => \A f \in r.pages : DOMAIN f \subseteq Seen(r.out) \cup Strays
  <2>1. SUFFICES ASSUME ~r.bare, NEW f \in r.pages
                 PROVE  DOMAIN f \subseteq Seen(r.out) \cup Strays
    OBVIOUS
  <2>2. CASE f \in read.pages
    BY <1>9, <1>10, <1>12, <2>1, <2>2 DEF TypeInv, GoodRead, ReadOnce
  <2>3. CASE f = g
    BY <1>1, <1>2, <1>4, <1>9, <1>10, <1>12, <2>1, <2>3 DEF TakenHere
  <2> QED BY <1>10, <2>2, <2>3
<1>14. r.alias \notin answers => Seen(r.out) = {}
  BY <1>1, <1>2, <1>4, <1>9, <1>10 DEF TakenHere, TypeInv, GoodRead, ReadOnce
<1>15. r.bare \in BOOLEAN
  BY <1>10 DEF TypeInv, GoodRead, ReadOnce
<1>16. Seen(r.out) \subseteq been \ Strays
  BY <1>7, <1>9, <1>10 DEF TypeInv, GoodRead, ReadOnce
<1>17. GoodRead(r, answers, been)
  BY <1>9, <1>10, <1>11, <1>13, <1>14, <1>15, <1>16 DEF TypeInv, GoodRead, ReadOnce
<1>18. O2Read(r, bare)
  BY <1>1, <1>4, <1>6, <1>9, <1>10, <1>11, <1>12, <1>17 DEF O2Read
<1> QED BY <1>18

\* The ids of a page, ...
AfterIds ==
    /\ provider = "movistar" /\ read.pc = "page" /\ read.ids = {}
    /\ DOMAIN read' = Fields /\ read'.alias = read.alias /\ read'.out = read.out
    /\ read'.err = read.err /\ read'.bare = read.bare /\ read'.pages = read.pages
    /\ \/ /\ Here("page") \subseteq Seen(read.out) /\ read'.pc = "pictures"
          /\ read'.offset = 0 /\ read'.ids = {} /\ read'.more = FALSE
       \/ /\ read'.pc = "details" /\ read'.offset = read.offset
          /\ read'.ids = Here("page") \ Seen(read.out) /\ read'.more \in BOOLEAN
          /\ \/ read'.more /\ read.offset + PageSize < Pages * PageSize
             \/ /\ ~read'.more
                /\ \/ Cardinality(View("page")) <= read.offset + PageSize
                   \/ Cardinality(Here("page")) < PageSize
                   \/ read.offset + PageSize >= Pages * PageSize

LEMMA IdsReads ==
  ASSUME TypeInv, Ids
  PROVE  AfterIds
<1>1. PICK g, H, new, more :
        /\ g = PageOf(View("page")) /\ H = Here("page") /\ new = New(g, read.out)
        /\ more = (More(View("page")) /\ Length(g) = PageSize /\ ~LastPage)
  OBVIOUS
<1>2. DOMAIN g = H /\ Length(g) = Cardinality(H) /\ Cardinality(H) \in 0..PageSize
  BY <1>1, PageIs DEF TypeInv
<1>3. new = H \ Seen(read.out)
  BY <1>1, <1>2 DEF New
<1>4. DOMAIN read = Fields /\ read.ids = {} /\ read.more = FALSE
  BY DEF TypeInv, GoodRead, ReadOnce, Ids
<1>5. /\ provider = "movistar" /\ read.pc = "page"
      /\ read' = IF new = {} THEN [read EXCEPT !.pc = "pictures", !.offset = 0]
                 ELSE [read EXCEPT !.pc = "details", !.ids = new, !.more = more]
  BY <1>1 DEF Ids
<1>6. CASE new = {}
  BY <1>1, <1>3, <1>4, <1>5, <1>6 DEF Fields, AfterIds
<1>7. CASE new # {}
  <2>1. /\ DOMAIN read' = Fields /\ read'.alias = read.alias /\ read'.out = read.out
        /\ read'.err = read.err /\ read'.bare = read.bare /\ read'.pages = read.pages
        /\ read'.pc = "details" /\ read'.offset = read.offset
        /\ read'.ids = new /\ read'.more = more
    BY <1>4, <1>5, <1>7 DEF Fields
  <2>2. /\ read.offset + PageSize \in Int /\ Pages * PageSize \in Int /\ PageSize \in Nat
        /\ Cardinality(View("page")) \in Int
    <3>1. Ordered(listed, View("page"))
      BY ViewIs DEF TypeInv
    <3>2. Cardinality(View("page")) \in Nat
      BY <3>1, FS_CardinalityType DEF Ordered
    <3> QED BY <3>2, ReadBounds
  <2>3. more <=> /\ Cardinality(View("page")) > read.offset + PageSize
                 /\ Cardinality(H) = PageSize
                 /\ ~(read.offset + PageSize >= Pages * PageSize)
    BY <1>1, <1>2 DEF More, LastPage
  <2>4. more \in BOOLEAN
    BY <1>1
  <2>5. \/ more /\ read.offset + PageSize < Pages * PageSize
        \/ /\ ~more
           /\ \/ Cardinality(View("page")) <= read.offset + PageSize
              \/ Cardinality(H) < PageSize
              \/ read.offset + PageSize >= Pages * PageSize
    BY <1>2, <2>2, <2>3
  <2> QED BY <1>1, <1>3, <1>4, <1>5, <2>1, <2>4, <2>5 DEF AfterIds
<1> QED BY <1>6, <1>7

\* ... their details, ...
AfterDetails ==
    /\ provider = "movistar" /\ read.pc = "details"
    /\ DOMAIN read' = Fields /\ read'.alias = read.alias
    /\ read'.err = read.err /\ read'.bare = read.bare /\ read'.pages = read.pages
    /\ read'.out \in [Entries -> {0, 1}] /\ read'.ids = {} /\ read'.more = FALSE
    /\ Seen(read'.out) = Seen(read.out) \cup ((read.ids \cap DOMAIN listed) \ Strays)
    /\ \/ read.more /\ read'.pc = "page" /\ read'.offset = read.offset + PageSize
       \/ ~read.more /\ read'.pc = "pictures" /\ read'.offset = 0

LEMMA DetailsReads ==
  ASSUME TypeInv, Details
  PROVE  AfterDetails
<1>1. read.pc = "details" /\ DOMAIN read = Fields /\ read.out \in [Entries -> {0, 1}]
  BY DEF Details, TypeInv, GoodRead, ReadOnce
<1>2. PICK new : new = Detailed(read.ids)
  OBVIOUS
<1>3. new = (read.ids \cap DOMAIN listed) \ Strays
  BY <1>2 DEF Detailed, Files
<1>4. new \in SUBSET (Entries \ Seen(read.out))
  BY <1>3 DEF TypeInv, FolderInv, GoodRead, ReadOnce
<1>5. /\ And(read.out, new) \in [Entries -> {0, 1}]
      /\ Seen(And(read.out, new)) = Seen(read.out) \cup new
  BY <1>1, <1>4, AndSeen
<1>6. PICK r : r = [read EXCEPT !.out = And(@, new), !.ids = {}, !.more = FALSE]
  OBVIOUS
<1>7. /\ DOMAIN r = Fields /\ r.alias = read.alias /\ r.err = read.err /\ r.bare = read.bare
      /\ r.out = And(read.out, new) /\ r.ids = {} /\ r.more = FALSE /\ r.offset = read.offset
      /\ r.pages = read.pages
  BY <1>1, <1>6 DEF Fields
<1>8. read' = IF read.more THEN [r EXCEPT !.pc = "page", !.offset = @ + PageSize]
              ELSE [r EXCEPT !.pc = "pictures", !.offset = 0]
  BY <1>2, <1>6 DEF Details
<1>9. provider = "movistar"
  BY <1>1 DEF TypeInv
<1>10. CASE read.more
  <2>1. read' = [r EXCEPT !.pc = "page", !.offset = @ + PageSize]
    BY <1>8, <1>10
  <2> QED BY <1>1, <1>3, <1>5, <1>7, <1>9, <1>10, <2>1 DEF Fields, AfterDetails
<1>11. CASE ~read.more
  <2>1. read' = [r EXCEPT !.pc = "pictures", !.offset = 0]
    BY <1>8, <1>11
  <2> QED BY <1>1, <1>3, <1>5, <1>7, <1>9, <1>11, <2>1 DEF Fields, AfterDetails
<1> QED BY <1>10, <1>11

\* ... and the pictures.
PictureRead(r) ==
    /\ GoodRead(r, answers, been) /\ r.pc = "pictures" /\ r.alias = read.alias
    /\ r.offset = read.offset /\ r.ids = {} /\ ~r.more
    /\ r.err = read.err /\ r.bare = read.bare
    /\ Seen(r.out) = Seen(read.out) \cup (Here("pictures") \ Strays)
    /\ \/ /\ read' = Finish(r)
          /\ \/ Cardinality(Here("pictures")) < PageSize
             \/ read.offset + PageSize >= Pages * PageSize
       \/ /\ read' = [r EXCEPT !.offset = @ + PageSize]
          /\ read.offset + PageSize < Pages * PageSize

LEMMA PicturesRead ==
  ASSUME TypeInv, ReadPictures
  PROVE  /\ provider = "movistar" /\ read.pc = "pictures" /\ read.ids = {}
         /\ \E r : PictureRead(r)
<1>1. /\ read.pc = "pictures" /\ DOMAIN read = Fields /\ read.out \in [Entries -> {0, 1}]
      /\ read.ids = {} /\ ~read.more /\ provider = "movistar"
  BY DEF ReadPictures, TypeInv, GoodRead, ReadOnce
<1>2. PICK g, H : g = PageOf(View("pictures")) /\ H = Here("pictures")
  OBVIOUS
<1>3. /\ DOMAIN g = H /\ Length(g) = Cardinality(H) /\ H \subseteq been
      /\ read.alias \notin answers => H = {}
  BY <1>2, PageIs DEF TypeInv
<1>4. PICK taken : taken = Taken(g, read.out)
  OBVIOUS
<1>5. taken = (H \ Seen(read.out)) \ Strays
  BY <1>3, <1>4 DEF Taken, New, Files
<1>6. taken \in SUBSET (Entries \ Seen(read.out)) /\ taken \subseteq been \ Strays
  BY <1>3, <1>5 DEF TypeInv, FolderInv
<1>7. /\ And(read.out, taken) \in [Entries -> {0, 1}]
      /\ Seen(And(read.out, taken)) = Seen(read.out) \cup taken
  BY <1>1, <1>6, AndSeen
<1>8. PICK r : r = [read EXCEPT !.out = And(@, taken)]
  OBVIOUS
<1>9. /\ DOMAIN r = Fields /\ r.pc = read.pc /\ r.alias = read.alias /\ r.offset = read.offset
      /\ r.ids = read.ids /\ r.more = read.more /\ r.err = read.err /\ r.bare = read.bare
      /\ r.out = And(read.out, taken) /\ r.pages = read.pages
  BY <1>1, <1>8 DEF Fields
<1>10. \/ /\ read' = Finish(r)
          /\ Cardinality(H) < PageSize \/ read.offset + PageSize >= Pages * PageSize
       \/ /\ read' = [r EXCEPT !.offset = @ + PageSize]
          /\ read.offset + PageSize < Pages * PageSize
  <2>1. read' = IF Length(g) < PageSize \/ LastPage THEN Finish(r)
                ELSE [r EXCEPT !.offset = @ + PageSize]
    BY <1>2, <1>4, <1>8 DEF ReadPictures
  <2>2. read.offset + PageSize \in Int /\ Pages * PageSize \in Int
    BY ReadBounds
  <2> QED BY <1>3, <2>1, <2>2 DEF LastPage
<1>11. Seen(r.out) = Seen(read.out) \cup (H \ Strays)
  BY <1>5, <1>7, <1>9
<1>12. Seen(r.out) \subseteq been \ Strays
  BY <1>6, <1>7, <1>9 DEF TypeInv, GoodRead, ReadOnce
<1>13. r.alias \notin answers => Seen(r.out) = {}
  BY <1>3, <1>9, <1>11 DEF TypeInv, GoodRead, ReadOnce
<1>14. GoodRead(r, answers, been)
  BY <1>1, <1>7, <1>9, <1>12, <1>13 DEF TypeInv, GoodRead, ReadOnce
<1>15. PictureRead(r)
  BY <1>1, <1>2, <1>9, <1>10, <1>11, <1>14 DEF PictureRead
<1> QED BY <1>1, <1>15

\* A failed request ends the listing of this id with nothing.
LEMMA FailsRead ==
  ASSUME TypeInv, Fails
  PROVE  /\ read.pc \in Points
         /\ \E r : /\ ReadOnce(r, answers, been) /\ r.alias = read.alias
                  /\ r.err /\ r.bare = read.bare /\ Seen(r.out) = {} /\ read' = Finish(r)
<1>1. read.pc \in Points
  BY DEF Fails, Points
<1>2. PICK r : r = [read EXCEPT !.err = TRUE, !.out = Nothing]
  OBVIOUS
<1>3. /\ DOMAIN r = Fields /\ r.pc = read.pc /\ r.alias = read.alias /\ r.offset = read.offset
      /\ r.ids = read.ids /\ r.more = read.more /\ r.err = TRUE /\ r.bare = read.bare
      /\ r.out = Nothing
  BY <1>2 DEF Fields, TypeInv, GoodRead, ReadOnce
<1>4. ReadOnce(r, answers, been)
  BY <1>3, NothingSeen DEF TypeInv, GoodRead, ReadOnce
<1>5. read' = Finish(r)
  BY <1>2 DEF Fails, Abandoned
<1> QED BY <1>1, <1>3, <1>4, <1>5, NothingSeen

-----------------------------------------------------------------------------
(***************************************************************************)
(* Type correctness, and each file once.                                   *)
(***************************************************************************)
LEMMA Inhabited ==
  ASSUME NEW A, NEW T, A \in T \ {{}}
  PROVE  A \in T /\ A # {}
OBVIOUS

LEMMA InitType == Init => TypeInv
<1> SUFFICES ASSUME Init PROVE TypeInv
  OBVIOUS
<1>1. PICK S \in SUBSET Entries :
        /\ listed \in Injection(S, 1..Cardinality(S)) /\ stayed = S \ Strays /\ been = S
  BY DEF Init
<1>2. DOMAIN listed = S
  BY <1>1 DEF Injection
<1>3. FolderInv
  <2>1. provider \in {"o2", "movistar"} /\ answers \subseteq 1..Aliases /\ answers # {}
    <3>1. answers \in SUBSET (1..Aliases) /\ answers # {}
      BY Inhabited DEF Init
    <3> QED BY <3>1 DEF Init
  <2>2. says \in BOOLEAN /\ names \in BOOLEAN /\ both \subseteq Pictures
    BY <2>1 DEF Init
  <2>3. /\ added \in Nat /\ removed \in Nat /\ added + removed <= MaxChanges
        /\ failures \in 0..MaxFailures
    BY ListingsAssumption DEF Init
  <2>4. listed \in Injection(DOMAIN listed, 1..Cardinality(DOMAIN listed))
    BY <1>1, <1>2
  <2> QED BY <1>1, <1>2, <2>1, <2>2, <2>3, <2>4 DEF FolderInv
<1>4. /\ DOMAIN read = Fields /\ read.pc = "page" /\ read.alias = 1 /\ read.offset = 0
      /\ read.out = Nothing /\ read.pages = {} /\ read.ids = {} /\ read.more = FALSE
      /\ read.err = FALSE /\ read.bare = FALSE
  BY DEF Init, Reads, Fields
<1>5. GoodRead(read, answers, been)
  <2>1. 1 \in 1..Aliases
    BY ListingsAssumption
  <2>2. ReadOnce(read, answers, been)
    BY <1>4, <2>1, OffsetsGrow, NothingSeen DEF ReadOnce, Points
  <2> QED BY <1>4, <2>2 DEF GoodRead
<1> QED BY <1>3, <1>4, <1>5 DEF TypeInv

\* The provider's order stays one.
LEMMA OrderKept ==
  ASSUME TypeInv, NEW x \in Entries, Leaves(x) \/ \E n \in 1..Cardinality(DOMAIN listed) + 1 : Enters(x, n)
  PROVE  listed' \in Injection(DOMAIN listed', 1..Cardinality(DOMAIN listed'))
<1>1. /\ listed \in [DOMAIN listed -> 1..Cardinality(DOMAIN listed)]
      /\ \A y, z \in DOMAIN listed : listed[y] = listed[z] => y = z
  BY DEF TypeInv, FolderInv, Injection, IsInjective
<1>2. PICK D, k : D = DOMAIN listed /\ k = Cardinality(D)
  OBVIOUS
<1>3. IsFiniteSet(D) /\ k \in Nat
  <2>1. D \subseteq Entries
    BY <1>2 DEF TypeInv, FolderInv
  <2> QED BY <1>2, <2>1, FS_Subset, FS_CardinalityType, ListingsAssumption
<1>4. \A y \in D : listed[y] \in Int /\ 1 <= listed[y] /\ listed[y] <= k
  BY <1>1, <1>2, <1>3
<1>5. CASE Leaves(x)
  <2>1. x \in D
    BY <1>2, <1>5 DEF Leaves
  <2>2. Cardinality(D \ {x}) = k - 1
    BY <1>2, <1>3, <2>1, FS_RemoveElement
  <2>3. listed' = [y \in D \ {x} |-> IF listed[y] < listed[x] THEN listed[y] ELSE listed[y] - 1]
    BY <1>2, <1>5 DEF Leaves
  <2>4. ASSUME NEW y \in D \ {x} PROVE listed'[y] \in 1..k - 1
    <3>1. listed[y] # listed[x]
      BY <1>1, <1>2, <2>1
    <3> QED BY <1>3, <1>4, <2>1, <2>3, <3>1
  <2>5. ASSUME NEW y \in D \ {x}, NEW z \in D \ {x}, listed'[y] = listed'[z] PROVE y = z
    <3>1. listed[y] # listed[x] /\ listed[z] # listed[x]
      BY <1>1, <1>2, <2>1
    <3>2. listed[y] = listed[z]
      BY <1>4, <2>1, <2>3, <2>5, <3>1
    <3> QED BY <1>1, <1>2, <3>2
  <2>6. listed' \in [D \ {x} -> 1..k - 1] /\ DOMAIN listed' = D \ {x}
    BY <2>3, <2>4
  <2> QED BY <2>2, <2>5, <2>6 DEF Injection, IsInjective
<1>6. CASE \E n \in 1..Cardinality(DOMAIN listed) + 1 : Enters(x, n)
  <2>1. PICK n \in 1..k + 1 : Enters(x, n)
    BY <1>2, <1>6
  <2>2. x \notin D /\ n \in Int /\ 1 <= n /\ n <= k + 1
    BY <1>2, <1>3, <2>1 DEF Enters
  <2>3. Cardinality(D \cup {x}) = k + 1
    BY <1>2, <1>3, <2>2, FS_AddElement
  <2>4. listed' = [y \in D \cup {x} |->
                     IF y = x THEN n ELSE IF listed[y] < n THEN listed[y] ELSE listed[y] + 1]
    BY <1>2, <2>1 DEF Enters
  <2>5. ASSUME NEW y \in D \cup {x} PROVE listed'[y] \in 1..k + 1
    BY <1>3, <1>4, <2>2, <2>4
  <2>6. ASSUME NEW y \in D \cup {x}, NEW z \in D \cup {x}, listed'[y] = listed'[z] PROVE y = z
    <3>1. CASE y = x \/ z = x
      BY <1>4, <2>2, <2>4, <2>6, <3>1
    <3>2. CASE y # x /\ z # x
      <4>1. listed[y] = listed[z]
        BY <1>4, <2>2, <2>4, <2>6, <3>2
      <4> QED BY <1>1, <1>2, <3>2, <4>1
    <3> QED BY <3>1, <3>2
  <2>7. listed' \in [D \cup {x} -> 1..k + 1] /\ DOMAIN listed' = D \cup {x}
    BY <2>4, <2>5
  <2> QED BY <2>3, <2>6, <2>7 DEF Injection, IsInjective
<1> QED BY <1>5, <1>6

LEMMA ChangeType ==
  ASSUME TypeInv, NEW x \in Entries, Leaves(x) \/ \E n \in 1..Cardinality(DOMAIN listed) + 1 : Enters(x, n)
  PROVE  TypeInv'
<1>1. /\ DOMAIN listed' \subseteq been' /\ been \subseteq been' /\ been' \subseteq Entries
      /\ stayed' \subseteq DOMAIN listed' \ Strays
  BY DEF Leaves, Enters, TypeInv, FolderInv
<1>2. added' \in Nat /\ removed' \in Nat /\ added' + removed' <= MaxChanges
  BY ListingsAssumption DEF Leaves, Enters, TypeInv, FolderInv
<1>3. UNCHANGED <<nature, read, failures>>
  BY DEF Leaves, Enters
<1>4. FolderInv'
  BY <1>1, <1>2, <1>3, OrderKept DEF TypeInv, FolderInv, nature
<1>5. GoodRead(read', answers', been')
  <2>1. GoodRead(read, answers, been')
    BY <1>1 DEF TypeInv, GoodRead, ReadOnce
  <2> QED BY <1>3, <2>1 DEF nature
<1> QED BY <1>3, <1>4, <1>5 DEF TypeInv, nature

LEMMA ReadType ==
  ASSUME TypeInv, Reading, GoodRead(read', answers, been),
         read'.pc \in {"details", "pictures"} => provider = "movistar"
  PROVE  TypeInv'
<1>1. UNCHANGED <<nature, folder>> /\ failures' \in 0..MaxFailures
  <2>1. /\ UNCHANGED <<nature, folder>>
        /\ \/ failures' = failures
           \/ failures < MaxFailures /\ failures' = failures + 1
    BY DEF Reading, ReadPage, ReadBarePage, Ids, Details, ReadPictures, Fails
  <2> QED BY <2>1, ListingsAssumption DEF TypeInv, FolderInv
<1>2. FolderInv'
  BY <1>1 DEF TypeInv, FolderInv, nature, folder
<1> QED BY <1>1, <1>2 DEF TypeInv, nature, folder

\* A loop that goes on, at the next offset.
LEMMA NextPageGood ==
  ASSUME NEW r, GoodRead(r, answers, been), r.pc \in {"page", "pictures"},
         r.offset + PageSize < Pages * PageSize
  PROVE  LET q == [r EXCEPT !.offset = @ + PageSize]
         IN  /\ GoodRead(q, answers, been) /\ DOMAIN q = Fields /\ q.pc = r.pc
             /\ q.alias = r.alias /\ q.offset = r.offset + PageSize /\ q.out = r.out
             /\ q.ids = r.ids /\ q.more = r.more /\ q.err = r.err /\ q.bare = r.bare
<1>1. PICK q : q = [r EXCEPT !.offset = @ + PageSize]
  OBVIOUS
<1>2. /\ DOMAIN q = Fields /\ q.pc = r.pc
      /\ q.alias = r.alias /\ q.offset = r.offset + PageSize /\ q.out = r.out /\ q.pages = r.pages
      /\ q.ids = r.ids /\ q.more = r.more /\ q.err = r.err /\ q.bare = r.bare
  BY <1>1 DEF GoodRead, ReadOnce, Fields
<1>3. q.offset \in Offsets
  BY <1>2, OffsetsGrow DEF GoodRead, ReadOnce
<1>4. GoodRead(q, answers, been)
  BY <1>2, <1>3 DEF GoodRead, ReadOnce
<1> QED BY <1>1, <1>2, <1>4

LEMMA ReadingType ==
  ASSUME TypeInv, Reading
  PROVE  TypeInv'
<1>1. SUFFICES /\ GoodRead(read', answers, been)
               /\ read'.pc \in {"details", "pictures"} => provider = "movistar"
  BY ReadType
<1>2. CASE ReadPage \/ ReadBarePage
  <2>1. PICK bare \in BOOLEAN : O2Page(bare)
    <3>1. CASE ReadPage
      BY <3>1 DEF ReadPage
    <3>2. CASE ReadBarePage
      BY <3>2 DEF ReadBarePage, TypeInv, FolderInv
    <3> QED BY <1>2, <3>1, <3>2
  <2>2. read.pc = "page"
    BY <1>2 DEF ReadPage, ReadBarePage
  <2>3. PICK r : O2Read(r, bare)
    BY <2>1, <2>2, O2Reads
  <2>4. CASE read' = Finish(r)
    BY <2>3, <2>4, GoodFinish DEF O2Read, GoodRead
  <2>5. CASE /\ read' = [r EXCEPT !.offset = @ + PageSize]
             /\ read.offset + PageSize < Pages * PageSize
    BY <2>3, <2>5, NextPageGood DEF O2Read
  <2> QED BY <2>3, <2>4, <2>5 DEF O2Read
<1>3. CASE Ids
  <2>1. AfterIds
    BY <1>3, IdsReads
  <2>2. Here("page") \subseteq been /\ (read.alias \notin answers => Here("page") = {})
    BY PageIs DEF TypeInv
  <2>3. read'.offset \in Offsets /\ (read'.more => read'.offset + PageSize \in Offsets)
    BY <2>1, OffsetsGrow DEF AfterIds, TypeInv, GoodRead, ReadOnce
  <2>4. GoodRead(read', answers, been)
    <3>1. read'.out \in [Entries -> {0, 1}] /\ Seen(read'.out) \subseteq been \ Strays
      BY <2>1 DEF AfterIds, TypeInv, GoodRead, ReadOnce
    <3>2. read'.ids \subseteq been \ Seen(read'.out)
      BY <2>1, <2>2 DEF AfterIds
    <3>3. read'.alias \notin answers => Seen(read'.out) = {} /\ read'.ids = {}
      BY <2>1, <2>2 DEF AfterIds, TypeInv, GoodRead, ReadOnce
    <3>4. /\ DOMAIN read' = Fields /\ read'.pc \in {"details", "pictures"}
          /\ read'.alias \in 1..Aliases /\ read'.err \in BOOLEAN /\ read'.bare \in BOOLEAN
      BY <2>1 DEF AfterIds, TypeInv, GoodRead, ReadOnce
    <3>5. read'.more \in BOOLEAN /\ (read'.pc = "pictures" => read'.ids = {} /\ ~read'.more)
      BY <2>1 DEF AfterIds
    <3>6. ReadOnce(read', answers, been)
      BY <2>3, <3>1, <3>2, <3>3, <3>4, <3>5 DEF ReadOnce, Points
    <3>7. ~read'.bare => \A g \in read'.pages : DOMAIN g \subseteq Seen(read'.out) \cup Strays
      BY <2>1 DEF AfterIds, TypeInv, GoodRead, Points
    <3> QED BY <3>4, <3>5, <3>6, <3>7 DEF GoodRead
  <2> QED BY <2>1, <2>4 DEF AfterIds
<1>4. CASE Details
  <2>1. AfterDetails
    BY <1>4, DetailsReads
  <2>2. read'.offset \in Offsets
    BY <2>1, OffsetsGrow DEF AfterDetails, TypeInv, GoodRead, ReadOnce
  <2>3. Seen(read'.out) \subseteq been \ Strays
    BY <2>1 DEF AfterDetails, TypeInv, GoodRead, ReadOnce
  <2>4. read'.alias \notin answers => Seen(read'.out) = {}
    BY <2>1 DEF AfterDetails, TypeInv, GoodRead, ReadOnce
  <2>5. GoodRead(read', answers, been)
    <3>1. /\ DOMAIN read' = Fields /\ read'.pc \in {"page", "pictures"}
          /\ read'.alias \in 1..Aliases /\ read'.more = FALSE /\ read'.err \in BOOLEAN
          /\ read'.bare \in BOOLEAN /\ read'.ids = {} /\ read'.out \in [Entries -> {0, 1}]
      BY <2>1 DEF AfterDetails, TypeInv, GoodRead, ReadOnce
    <3>2. ReadOnce(read', answers, been)
      BY <2>2, <2>3, <2>4, <3>1 DEF ReadOnce, Points
    <3>3. ~read'.bare => \A g \in read'.pages : DOMAIN g \subseteq Seen(read'.out) \cup Strays
      BY <2>1 DEF AfterDetails, TypeInv, GoodRead, Points
    <3> QED BY <3>1, <3>2, <3>3 DEF GoodRead
  <2> QED BY <2>1, <2>5 DEF AfterDetails
<1>5. CASE ReadPictures
  <2>1. provider = "movistar"
    BY <1>5, PicturesRead
  <2>2. PICK r : PictureRead(r)
    BY <1>5, PicturesRead
  <2>3. CASE read' = Finish(r)
    BY <2>2, <2>3, GoodFinish DEF PictureRead, GoodRead
  <2>4. CASE /\ read' = [r EXCEPT !.offset = @ + PageSize]
             /\ read.offset + PageSize < Pages * PageSize
    BY <2>1, <2>2, <2>4, NextPageGood DEF PictureRead
  <2> QED BY <2>2, <2>3, <2>4 DEF PictureRead
<1>6. CASE Fails
  BY <1>6, FailsRead, GoodFinish
<1> QED BY <1>2, <1>3, <1>4, <1>5, <1>6 DEF Reading

LEMMA NextType == TypeInv /\ [Next]_vars => TypeInv'
<1> SUFFICES ASSUME TypeInv, [Next]_vars PROVE TypeInv'
  OBVIOUS
<1>1. CASE Reading
  BY <1>1, ReadingType
<1>2. CASE Changing
  BY <1>2, ChangeType DEF Changing
<1>3. CASE UNCHANGED vars
  BY <1>3 DEF vars, nature, folder, TypeInv, FolderInv
<1> QED BY <1>1, <1>2, <1>3 DEF Next

(***************************************************************************)
(* The state of the folder and of the listing is well typed: no offset is  *)
(* past the last page, and no id past the last (o2/api.py, o2/movistar.py).*)
(***************************************************************************)
THEOREM ListingsTyped == Spec => []TypeOK
<1>1. TypeInv => TypeOK
  <2> SUFFICES ASSUME TypeInv PROVE TypeOK
    OBVIOUS
  <2>1. DOMAIN listed \subseteq Entries /\ stayed \subseteq Entries /\ been \subseteq Entries
    BY DEF TypeInv, FolderInv
  <2>2. read.out \in [Entries -> Nat]
    BY DEF TypeInv, GoodRead, ReadOnce
  <2>3. read.ids \subseteq Entries
    BY <2>1 DEF TypeInv, GoodRead, ReadOnce
  <2>4. added + removed \in 0..MaxChanges
    BY ListingsAssumption DEF TypeInv, FolderInv
  <2>5. {read.more, read.err, read.bare} \subseteq BOOLEAN
    BY DEF TypeInv, GoodRead, ReadOnce
  <2> QED BY <2>1, <2>2, <2>3, <2>4, <2>5
          DEF TypeInv, FolderInv, GoodRead, ReadOnce, Points, Offsets, TypeOK
<1> QED BY <1>1, InitType, NextType, PTL DEF Spec

(***************************************************************************)
(* A file is listed once, however entries move between the pages while     *)
(* they are read, in whichever page, listing or id it is met, and only a   *)
(* file of this folder is.                                                 *)
(***************************************************************************)
THEOREM FilesListedOnce == Spec => []EachFileOnce
<1>1. TypeInv => EachFileOnce
  <2> SUFFICES ASSUME TypeInv PROVE EachFileOnce
    OBVIOUS
  <2>1. read.out \in [Entries -> {0, 1}] /\ Seen(read.out) \subseteq been \ Strays
    BY DEF TypeInv, GoodRead, ReadOnce
  <2> QED BY <2>1 DEF EachFileOnce
<1> QED BY <1>1, InitType, NextType, PTL DEF Spec

-----------------------------------------------------------------------------
(***************************************************************************)
(* What may be missed.                                                     *)
(***************************************************************************)
\* What is read or about to be, and the offset up to which was asked.
Got(r) == Seen(r.out) \cup r.ids
Reached(r) == IF r.pc = "details" THEN r.offset + PageSize ELSE r.offset

\* Files of a listing S that the loop r has gone past without reading them,
\* entries it has read and will meet again, and files it has not read.
Missed(p, st, S, r) == (Passed(p, DOMAIN p \cap S, Reached(r)) \cap st) \ Got(r)
Again(p, S, r) == ((DOMAIN p \cap S) \ Passed(p, DOMAIN p \cap S, Reached(r))) \cap Got(r)
Unread(st, S, r) == (st \cap S) \ Got(r)

\* The conditions of MissesNoMoreThanWereRemoved.
Fair(be, a, r) ==
    /\ ~r.bare /\ a + Cardinality(be \cap Strays) < PageSize
    /\ Cardinality(be) <= Pages * PageSize

\* One that was removed lets at most one other slip past the offset, one that
\* was added brings at most one back behind it.  S is the first listing, T the
\* second.
Counted(p, st, be, a, m, S, T, r) ==
    /\ r.pc # "pictures" => Cardinality(Again(p, S, r)) <= a
    /\ Fair(be, a, r) =>
          /\ r.pc = "page" \/ r.more => Cardinality(Missed(p, st, S, r)) <= m
          /\ r.pc = "details" /\ ~r.more => Cardinality(Unread(st, S, r)) <= m
          /\ r.pc = "pictures" =>
                Cardinality(Unread(st, S, r)) + Cardinality(Missed(p, st, T, r)) <= m

CountInv ==
    read.pc \in Points /\ read.alias \in answers =>
        Counted(listed, stayed, been, added, removed, First, Rest, read)

\* The ids tried before, if the folder had one of them, gave nothing.
PastInv ==
    /\ read.pc \in Points /\ Fair(been, added, read) /\ ~read.err
    /\ \E a \in answers : a < read.alias
    => Cardinality(stayed) <= removed

DoneInv ==
    read.pc = "done" /\ Fair(been, added, read) => Cardinality(stayed \ Seen(read.out)) <= removed

MissInv == CountInv /\ PastInv /\ DoneInv

LEMMA Small ==
  ASSUME NEW X, X \subseteq Entries
  PROVE  IsFiniteSet(X) /\ Cardinality(X) \in Nat
BY FS_Subset, FS_CardinalityType, ListingsAssumption

\* Nothing is passed by a loop that has asked for nothing.
LEMMA FreshCounts ==
  ASSUME FolderInv, NEW S, NEW T, NEW r, r.pc = "page", r.offset = 0, Got(r) = {}, r.more = FALSE
  PROVE  Counted(listed, stayed, been, added, removed, S, T, r)
<1>1. Again(listed, S, r) = {}
  BY DEF Again
<1>2. Ordered(listed, DOMAIN listed \cap S)
  BY ViewOrdered
<1>3. Passed(listed, DOMAIN listed \cap S, 0) = {}
  <2>1. \A x \in DOMAIN listed \cap S : Below(listed, DOMAIN listed \cap S, x) \in Nat
    BY <1>2, BelowType
  <2> QED BY <2>1 DEF Passed
<1>4. Missed(listed, stayed, S, r) = {}
  BY <1>3 DEF Missed, Reached
<1>5. Cardinality({}) = 0
  BY FS_EmptySet
<1> QED BY <1>1, <1>4, <1>5 DEF Counted, FolderInv

\* The end of a listing, or of one of its ids.
LEMMA FinishCounts ==
  ASSUME TypeInv, MissInv, read.pc \in Points, NEW r, ReadOnce(r, answers, been),
         r.alias = read.alias, r.bare = FALSE => read.bare = FALSE, r.err = FALSE => read.err = FALSE,
         /\ r.alias \in answers /\ Fair(been, added, r) /\ (Seen(r.out) # {} \/ ~r.err)
         => Cardinality(stayed \ Seen(r.out)) <= removed,
         read' = Finish(r), UNCHANGED <<nature, folder>>
  PROVE  MissInv'
<1>1. PICK q : q = Finish(r)
  OBVIOUS
<1>2. DOMAIN r = Fields /\ (r.alias \notin answers => Seen(r.out) = {})
  BY DEF ReadOnce
<1>3. /\ q.err = r.err /\ q.bare = r.bare
      /\ \/ /\ q.pc \in {"done", "failed"} /\ q.out = r.out
            /\ \/ q.pc = "done" /\ Seen(r.out) # {}
               \/ Seen(r.out) = {} /\ ~(r.alias < Aliases) /\ (q.pc = "done" => ~r.err)
         \/ /\ Seen(r.out) = {} /\ r.alias < Aliases
            /\ q.pc = "page" /\ q.alias = r.alias + 1 /\ q.offset = 0 /\ q.out = Nothing
            /\ q.ids = {} /\ q.more = FALSE
  BY <1>1, <1>2, FinishIs
<1>4. r.bare \in BOOLEAN /\ r.err \in BOOLEAN /\ r.alias \in 1..Aliases /\ Aliases \in Nat
  BY ListingsAssumption DEF ReadOnce
<1>5. Fair(been, added, q) <=> Fair(been, added, r)
  BY <1>3 DEF Fair
<1>6. Fair(been, added, r) => Fair(been, added, read)
  BY <1>4 DEF Fair
\* An id before this one, or this one, gave nothing.
<1>7. ASSUME Seen(r.out) = {}, Fair(been, added, r), ~r.err, NEW a \in answers, a <= r.alias
      PROVE  Cardinality(stayed) <= removed
  <2>1. CASE r.alias \in answers
    BY <1>7, <2>1
  <2>2. CASE r.alias \notin answers
    <3>1. a < read.alias
      BY <1>4, <1>7, <2>2 DEF TypeInv, FolderInv
    <3> QED BY <1>4, <1>6, <1>7, <3>1 DEF MissInv, PastInv
  <2> QED BY <2>1, <2>2
<1>8. /\ (CountInv)' <=> (q.pc \in Points /\ q.alias \in answers =>
                            Counted(listed, stayed, been, added, removed, First, Rest, q))
      /\ PastInv' <=> (/\ q.pc \in Points /\ Fair(been, added, q) /\ ~q.err
                       /\ \E a \in answers : a < q.alias
                       => Cardinality(stayed) <= removed)
      /\ DoneInv' <=> (q.pc = "done" /\ Fair(been, added, q) =>
                         Cardinality(stayed \ Seen(q.out)) <= removed)
  BY <1>1 DEF CountInv, PastInv, DoneInv, nature, folder, First, Rest, Shows
<1>9. CASE q.pc \in {"done", "failed"}
  <2>1. ASSUME q.pc = "done", Fair(been, added, q) PROVE Cardinality(stayed \ Seen(q.out)) <= removed
    <3>1. CASE Seen(r.out) # {}
      BY <1>2, <1>3, <1>5, <1>9, <2>1, <3>1
    <3>2. CASE Seen(r.out) = {}
      <4>1. ~r.err /\ q.out = r.out /\ r.alias = Aliases
        BY <1>3, <1>4, <1>9, <2>1, <3>2
      <4>2. PICK a \in answers : a <= r.alias
        <5>1. answers \subseteq 1..Aliases /\ answers # {}
          BY DEF TypeInv, FolderInv
        <5>2. ASSUME NEW b \in answers PROVE b <= r.alias
          <6>1. r.alias = Aliases /\ Aliases \in Nat
            BY <1>4, <4>1
          <6>2. b \in 1..Aliases
            BY <5>1
          <6> QED BY <6>1, <6>2
        <5> QED BY <5>1, <5>2
      <4>3. Cardinality(stayed) <= removed
        BY <1>5, <1>7, <2>1, <3>2, <4>1, <4>2
      <4>4. stayed \ Seen(q.out) = stayed
        BY <3>2, <4>1
      <4> QED BY <4>3, <4>4
    <3> QED BY <3>1, <3>2
  <2> QED BY <1>8, <1>9, <2>1 DEF MissInv, Points
<1>10. CASE q.pc = "page"
  <2>1. Counted(listed, stayed, been, added, removed, First, Rest, q)
    <3>1. Got(q) = {}
      BY <1>3, <1>10, NothingSeen DEF Got
    <3> QED BY <1>3, <1>10, <3>1, FreshCounts DEF TypeInv
  <2>2. ASSUME Fair(been, added, q), ~q.err, NEW a \in answers, a < q.alias
        PROVE  Cardinality(stayed) <= removed
    <3>1. a <= r.alias
      BY <1>3, <1>4, <1>10, <2>2 DEF TypeInv, FolderInv
    <3> QED BY <1>3, <1>5, <1>7, <1>10, <2>2, <3>1
  <2> QED BY <1>8, <1>10, <2>1, <2>2 DEF MissInv
<1> QED BY <1>3, <1>9, <1>10

\* A loop that goes on.
LEMMA GoesOnCounts ==
  ASSUME TypeInv, MissInv, read.pc \in Points, NEW q, q = read', q.pc \in Points,
         q.alias = read.alias, q.bare = FALSE => read.bare = FALSE, q.bare \in BOOLEAN,
         q.err = read.err,
         q.alias \in answers => Counted(listed, stayed, been, added, removed, First, Rest, q),
         UNCHANGED <<nature, folder>>
  PROVE  MissInv'
<1>1. Fair(been, added, q) => Fair(been, added, read)
  BY DEF Fair, TypeInv, GoodRead, ReadOnce
<1>2. CountInv'
  BY DEF CountInv, nature, folder, First, Rest, Shows
<1>3. PastInv'
  BY <1>1 DEF MissInv, PastInv, nature, folder, TypeInv, GoodRead, ReadOnce
<1>4. DoneInv'
  BY DEF DoneInv, Points
<1> QED BY <1>2, <1>3, <1>4 DEF MissInv

-----------------------------------------------------------------------------
(***************************************************************************)
(* Pages.                                                                  *)
(***************************************************************************)
\* What lies before the page, in it, and behind it.
LEMMA PassesHere ==
  ASSUME TypeInv, NEW pc \in {"page", "pictures"}, NEW V, V = View(pc), NEW o, o = read.offset
  PROVE  /\ Passed(listed, V, o + PageSize) = Passed(listed, V, o) \cup Here(pc)
         /\ Passed(listed, V, o) \cap Here(pc) = {} /\ Here(pc) \subseteq V
<1>1. Ordered(listed, V)
  BY ViewIs DEF TypeInv
<1>2. o \in Nat /\ PageSize \in Nat
  BY ReadBounds
<1>3. Passed(listed, V, o + PageSize) = Passed(listed, V, o) \cup Paged(listed, V, o, PageSize)
  BY <1>1, <1>2, PassedOn
<1>4. \A x \in V : Below(listed, V, x) \in Nat
  BY <1>1, BelowType
<1>5. Passed(listed, V, o) \cap Paged(listed, V, o, PageSize) = {}
  BY <1>2, <1>4 DEF Passed, Paged
<1> QED BY <1>3, <1>5 DEF Here, Paged

LEMMA NothingBehind ==
  ASSUME TypeInv, NEW pc \in {"page", "pictures"}, NEW V, V = View(pc), NEW o, o = read.offset,
         Cardinality(been) <= Pages * PageSize,
         \/ Cardinality(V) <= o + PageSize
         \/ Cardinality(Here(pc)) < PageSize
         \/ o + PageSize >= Pages * PageSize
  PROVE  Passed(listed, V, o + PageSize) = V
<1>1. Ordered(listed, V) /\ V \subseteq DOMAIN listed
  BY ViewIs DEF TypeInv
<1>2. o \in Nat /\ PageSize \in Nat /\ Pages * PageSize \in Nat
  BY ReadBounds
<1>3. V \subseteq been /\ been \subseteq Entries
  BY <1>1 DEF TypeInv, FolderInv
<1>4. /\ Cardinality(V) \in Nat /\ Cardinality(been) \in Nat
      /\ Cardinality(V) <= Cardinality(been)
  BY <1>3, Small, Fewer
<1>5. CASE Cardinality(Here(pc)) < PageSize
  <2>1. Cardinality(Paged(listed, V, o, PageSize)) < PageSize
    BY <1>5 DEF Here
  <2> QED BY <1>1, <1>2, <2>1, Exhausted
<1>6. CASE ~(Cardinality(Here(pc)) < PageSize)
  <2>1. Cardinality(V) <= o + PageSize
    BY <1>2, <1>4, <1>6
  <2> QED BY <1>1, <1>2, <2>1, Exhausted
<1> QED BY <1>5, <1>6

\* A page that brings nothing new is short, unless so much was added.
LEMMA NothingNewIsShort ==
  ASSUME TypeInv, CountInv, read.pc = "page", read.alias \in answers,
         Fair(been, added, read), Here("page") \subseteq Seen(read.out) \cup Strays
  PROVE  Cardinality(Here("page")) < PageSize
<1>1. PICK V, o : V = View("page") /\ o = read.offset
  OBVIOUS
<1>2. V = DOMAIN listed \cap First
  BY <1>1, ViewIs DEF TypeInv
<1>3. Passed(listed, V, o) \cap Here("page") = {} /\ Here("page") \subseteq V
  BY <1>1, PassesHere
<1>4. Here("page") \subseteq been
  BY PageIs DEF TypeInv
<1>5. Here("page") \subseteq Again(listed, First, read) \cup (been \cap Strays)
  BY <1>1, <1>2, <1>3, <1>4 DEF Again, Reached, Got
<1>6. Again(listed, First, read) \subseteq Entries /\ been \cap Strays \subseteq Entries
  BY DEF Again, TypeInv, FolderInv
<1>7. /\ Cardinality(Again(listed, First, read)) \in Nat /\ Cardinality(been \cap Strays) \in Nat
      /\ Cardinality(Here("page")) \in Nat
      /\ Cardinality(Here("page")) <=
           Cardinality(Again(listed, First, read)) + Cardinality(been \cap Strays)
  BY <1>5, <1>6, Small, Together
<1>8. Cardinality(Again(listed, First, read)) <= added
  BY DEF CountInv, Counted, Points
<1>9. added + Cardinality(been \cap Strays) < PageSize /\ added \in Nat /\ PageSize \in Nat
  BY ReadBounds DEF Fair, TypeInv, FolderInv
<1> QED BY <1>7, <1>8, <1>9

\* A loop that reads a page.
LEMMA PageCounts ==
  ASSUME TypeInv, CountInv, read.pc = "page", read.alias \in answers, NEW q,
         Reached(q) = read.offset + PageSize,
         Got(q) \subseteq Got(read) \cup Here("page"), Seen(read.out) \subseteq Got(q)
  PROVE  /\ Cardinality(Again(listed, First, q)) <= added
         /\ Fair(been, added, read) /\ Here("page") \cap stayed \subseteq Got(q) =>
              /\ Cardinality(Missed(listed, stayed, First, q)) <= removed
              /\ \/ Cardinality(View("page")) <= read.offset + PageSize
                 \/ Cardinality(Here("page")) < PageSize
                 \/ read.offset + PageSize >= Pages * PageSize
                 => Cardinality(Unread(stayed, First, q)) <= removed
<1>1. PICK V, o : V = View("page") /\ o = read.offset
  OBVIOUS
<1>2. V = DOMAIN listed \cap First
  BY <1>1, ViewIs DEF TypeInv
<1>3. /\ Passed(listed, V, o + PageSize) = Passed(listed, V, o) \cup Here("page")
      /\ Passed(listed, V, o) \cap Here("page") = {} /\ Here("page") \subseteq V
  BY <1>1, PassesHere
<1>4. Got(read) = Seen(read.out) /\ Reached(read) = o
  BY <1>1 DEF Got, Reached, TypeInv, GoodRead
<1>5. Again(listed, First, q) \subseteq Again(listed, First, read)
  BY <1>1, <1>2, <1>3, <1>4 DEF Again
<1>6. Again(listed, First, read) \subseteq Entries
  BY DEF Again, TypeInv, FolderInv
<1>7. Cardinality(Again(listed, First, read)) <= added
  BY DEF CountInv, Counted, Points
<1>8. Cardinality(Again(listed, First, q)) <= added
  <2>1. /\ Cardinality(Again(listed, First, q)) \in Nat
        /\ Cardinality(Again(listed, First, read)) \in Nat
        /\ Cardinality(Again(listed, First, q)) <= Cardinality(Again(listed, First, read))
    BY <1>5, <1>6, Small, Fewer
  <2> QED BY <1>7, <2>1 DEF TypeInv, FolderInv
<1>9. ASSUME Fair(been, added, read), Here("page") \cap stayed \subseteq Got(q),
             NEW X, X \subseteq Missed(listed, stayed, First, read)
      PROVE  Cardinality(X) <= removed
  <2>1. Cardinality(Missed(listed, stayed, First, read)) <= removed
    BY <1>9 DEF CountInv, Counted, Points
  <2>2. Missed(listed, stayed, First, read) \subseteq Entries
    BY DEF Missed, TypeInv, FolderInv
  <2>3. /\ Cardinality(X) \in Nat
        /\ Cardinality(Missed(listed, stayed, First, read)) \in Nat
        /\ Cardinality(X) <= Cardinality(Missed(listed, stayed, First, read))
    BY <1>9, <2>2, Small, Fewer
  <2> QED BY <2>1, <2>3 DEF TypeInv, FolderInv
<1>10. ASSUME Fair(been, added, read), Here("page") \cap stayed \subseteq Got(q)
       PROVE  Cardinality(Missed(listed, stayed, First, q)) <= removed
  <2>1. Missed(listed, stayed, First, q) \subseteq Missed(listed, stayed, First, read)
    BY <1>1, <1>2, <1>3, <1>4, <1>10 DEF Missed
  <2> QED BY <1>9, <1>10, <2>1
<1>11. ASSUME Fair(been, added, read), Here("page") \cap stayed \subseteq Got(q),
              \/ Cardinality(V) <= o + PageSize
              \/ Cardinality(Here("page")) < PageSize
              \/ o + PageSize >= Pages * PageSize
       PROVE  Cardinality(Unread(stayed, First, q)) <= removed
  <2>1. Passed(listed, V, o + PageSize) = V
    BY <1>1, <1>11, NothingBehind DEF Fair
  <2>2. stayed \subseteq DOMAIN listed
    BY DEF TypeInv, FolderInv
  <2>3. Unread(stayed, First, q) \subseteq Missed(listed, stayed, First, read)
    BY <1>2, <1>3, <1>4, <1>11, <2>1, <2>2 DEF Unread, Missed
  <2> QED BY <1>9, <1>11, <2>3
<1> QED BY <1>1, <1>8, <1>10, <1>11

-----------------------------------------------------------------------------
(***************************************************************************)
(* The steps of the loops keep the counts.                                 *)
(***************************************************************************)
LEMMA O2Counts ==
  ASSUME TypeInv, MissInv, ReadPage \/ ReadBarePage
  PROVE  MissInv'
<1>1. /\ provider = "o2" /\ read.pc = "page" /\ UNCHANGED <<nature, folder>>
      /\ \E bare \in BOOLEAN : O2Page(bare)
  BY DEF ReadPage, ReadBarePage, TypeInv, FolderInv
<1>2. PICK bare \in BOOLEAN : O2Page(bare)
  BY <1>1
<1>3. PICK r : O2Read(r, bare)
  BY <1>1, <1>2, O2Reads
<1>4. /\ GoodRead(r, answers, been) /\ r.pc = "page" /\ r.alias = read.alias
      /\ r.offset = read.offset /\ r.ids = {} /\ ~r.more /\ r.err = read.err
      /\ Seen(r.out) = Seen(read.out) \cup TakenHere(bare)
      /\ ~r.bare => ~read.bare /\ (bare => Here("page") = {})
  BY <1>3 DEF O2Read
<1>5. /\ First = Entries /\ stayed \subseteq Entries /\ stayed \cap Strays = {}
      /\ read.ids = {} /\ read.bare \in BOOLEAN /\ r.bare \in BOOLEAN
  BY <1>1, <1>4, Listed DEF TypeInv, FolderInv, GoodRead, ReadOnce
<1>6. /\ Got(r) \subseteq Got(read) \cup Here("page") /\ Seen(read.out) \subseteq Got(r)
      /\ Got(r) = Seen(r.out)
  BY <1>4 DEF Got, TakenHere
<1>7. ~r.bare => Here("page") \cap stayed \subseteq Got(r)
  BY <1>4, <1>5, <1>6 DEF TakenHere
<1>8. Fair(been, added, r) => Fair(been, added, read)
  BY <1>4 DEF Fair
<1>9. CASE read' = Finish(r) /\ Stops(bare)
  <2>1. ASSUME r.alias \in answers, Fair(been, added, r)
        PROVE  Cardinality(stayed \ Seen(r.out)) <= removed
    <3>1. ~r.bare
      BY <2>1 DEF Fair
    <3>2. PICK q : q = [r EXCEPT !.offset = @ + PageSize]
      OBVIOUS
    <3>3. q.pc = "page" /\ q.out = r.out /\ q.ids = r.ids /\ q.offset = read.offset + PageSize
      BY <1>4, <3>2 DEF GoodRead, ReadOnce, Fields
    <3>4. Got(q) = Got(r) /\ Reached(q) = read.offset + PageSize
      BY <3>3 DEF Got, Reached
    <3>5. \/ Here("page") \subseteq Seen(read.out) \cup Strays
          \/ Cardinality(Here("page")) < PageSize
          \/ read.offset + PageSize >= Pages * PageSize
      <4>1. ASSUME NEW g \in read.pages, DOMAIN g = Here("page")
            PROVE  Here("page") \subseteq Seen(read.out) \cup Strays
        BY <1>1, <1>4, <3>1, <4>1 DEF TypeInv, GoodRead, Points
      <4>2. ASSUME TakenHere(bare) = {}
            PROVE  Here("page") \subseteq Seen(read.out) \cup Strays
        BY <1>4, <3>1, <4>2 DEF TakenHere
      <4> QED BY <1>9, <4>1, <4>2 DEF Stops
    <3>6. \/ Cardinality(Here("page")) < PageSize
          \/ read.offset + PageSize >= Pages * PageSize
      BY <1>1, <1>4, <1>8, <2>1, <3>5, NothingNewIsShort DEF MissInv
    <3>7. Cardinality(Unread(stayed, First, q)) <= removed
      BY <1>1, <1>4, <1>6, <1>7, <1>8, <2>1, <3>1, <3>4, <3>6, PageCounts DEF MissInv
    <3>8. Unread(stayed, First, q) = stayed \ Seen(r.out)
      BY <1>5, <1>6, <3>4 DEF Unread
    <3> QED BY <3>7, <3>8
  <2> QED BY <1>1, <1>4, <1>5, <1>9, <2>1, FinishCounts DEF GoodRead, Points
<1>10. CASE /\ read' = [r EXCEPT !.offset = @ + PageSize]
            /\ read.offset + PageSize < Pages * PageSize
  <2>1. PICK q : q = read'
    OBVIOUS
  <2>2. /\ q.pc = "page" /\ q.alias = read.alias /\ q.offset = read.offset + PageSize
        /\ q.out = r.out /\ q.ids = r.ids /\ q.more = r.more /\ q.err = r.err /\ q.bare = r.bare
    BY <1>4, <1>10, <2>1, NextPageGood
  <2>3. Got(q) = Got(r) /\ Reached(q) = read.offset + PageSize
    BY <2>2 DEF Got, Reached
  <2>4. ASSUME q.alias \in answers
        PROVE  Counted(listed, stayed, been, added, removed, First, Rest, q)
    <3>1. Cardinality(Again(listed, First, q)) <= added
      BY <1>1, <1>6, <2>2, <2>3, <2>4, PageCounts DEF MissInv
    <3>2. Fair(been, added, q) => Fair(been, added, read) /\ ~r.bare
      BY <1>8, <2>2 DEF Fair
    <3>3. Fair(been, added, q) => Cardinality(Missed(listed, stayed, First, q)) <= removed
      BY <1>1, <1>6, <1>7, <2>2, <2>3, <2>4, <3>2, PageCounts DEF MissInv
    <3> QED BY <2>2, <3>1, <3>3, <1>4 DEF Counted
  <2> QED BY <1>1, <1>4, <1>5, <2>1, <2>2, <2>4, GoesOnCounts DEF Points
<1> QED BY <1>3, <1>9, <1>10 DEF O2Read

LEMMA IdsCounts ==
  ASSUME TypeInv, MissInv, Ids
  PROVE  MissInv'
<1>1. AfterIds /\ UNCHANGED <<nature, folder>>
  BY IdsReads DEF Ids
<1>2. PICK q : q = read'
  OBVIOUS
<1>3. /\ provider = "movistar" /\ read.pc = "page" /\ read.ids = {}
      /\ q.alias = read.alias /\ q.out = read.out /\ q.err = read.err /\ q.bare = read.bare
      /\ \/ /\ Here("page") \subseteq Seen(read.out) /\ q.pc = "pictures"
            /\ q.offset = 0 /\ q.ids = {} /\ q.more = FALSE
         \/ /\ q.pc = "details" /\ q.offset = read.offset
            /\ q.ids = Here("page") \ Seen(read.out) /\ q.more \in BOOLEAN
            /\ \/ q.more /\ read.offset + PageSize < Pages * PageSize
               \/ /\ ~q.more
                  /\ \/ Cardinality(View("page")) <= read.offset + PageSize
                     \/ Cardinality(Here("page")) < PageSize
                     \/ read.offset + PageSize >= Pages * PageSize
  BY <1>1, <1>2 DEF AfterIds
<1>4. Fair(been, added, q) <=> Fair(been, added, read)
  BY <1>3 DEF Fair
<1>5. ASSUME q.alias \in answers
      PROVE  Counted(listed, stayed, been, added, removed, First, Rest, q)
  <2>1. CASE q.pc = "details"
    <3>1. /\ Reached(q) = read.offset + PageSize
          /\ Got(q) = Seen(read.out) \cup Here("page") /\ Got(read) = Seen(read.out)
      BY <1>3, <2>1 DEF Reached, Got
    <3>2. /\ Got(q) \subseteq Got(read) \cup Here("page") /\ Seen(read.out) \subseteq Got(q)
          /\ Here("page") \cap stayed \subseteq Got(q)
      BY <3>1
    <3>3. Cardinality(Again(listed, First, q)) <= added
      BY <1>3, <1>5, <3>1, <3>2, PageCounts DEF MissInv
    <3>4. ASSUME Fair(been, added, q)
          PROVE  /\ Cardinality(Missed(listed, stayed, First, q)) <= removed
                 /\ ~q.more => Cardinality(Unread(stayed, First, q)) <= removed
      BY <1>3, <1>4, <1>5, <2>1, <3>1, <3>2, <3>4, PageCounts DEF MissInv
    <3> QED BY <2>1, <3>3, <3>4 DEF Counted
  <2>2. CASE q.pc = "pictures"
    <3>1. Here("page") \subseteq Seen(read.out) /\ q.offset = 0 /\ q.ids = {} /\ ~q.more
      BY <1>3, <2>2
    <3>2. ASSUME Fair(been, added, q)
          PROVE  /\ Cardinality(Unread(stayed, First, q)) <= removed
                 /\ Cardinality(Missed(listed, stayed, Rest, q)) = 0
      <4>1. Cardinality(Here("page")) < PageSize
        BY <1>3, <1>4, <1>5, <3>1, <3>2, NothingNewIsShort DEF MissInv
      \* The loop as if it had asked for one page more.
      <4>2. PICK z : z = [q EXCEPT !.pc = "page", !.offset = read.offset + PageSize]
        OBVIOUS
      <4>3. DOMAIN q = Fields
        BY <1>1, <1>2 DEF AfterIds
      <4>4. z.pc = "page" /\ z.offset = read.offset + PageSize /\ z.out = q.out /\ z.ids = q.ids
        BY <4>2, <4>3 DEF Fields
      <4>5. /\ Reached(z) = read.offset + PageSize /\ Got(z) = Seen(read.out)
            /\ Got(q) = Seen(read.out) /\ Got(read) = Seen(read.out)
        BY <1>3, <3>1, <4>4 DEF Reached, Got
      <4>6. /\ Got(z) \subseteq Got(read) \cup Here("page") /\ Seen(read.out) \subseteq Got(z)
            /\ Here("page") \cap stayed \subseteq Got(z)
        BY <3>1, <4>5
      <4>7. Cardinality(Unread(stayed, First, z)) <= removed
        BY <1>3, <1>4, <1>5, <3>2, <4>1, <4>5, <4>6, PageCounts DEF MissInv
      <4>8. Unread(stayed, First, q) = Unread(stayed, First, z)
        BY <4>5 DEF Unread
      <4>9. Missed(listed, stayed, Rest, q) = {}
        <5>1. Ordered(listed, DOMAIN listed \cap Rest)
          BY ViewOrdered DEF TypeInv
        <5>2. Passed(listed, DOMAIN listed \cap Rest, 0) = {}
          <6>1. \A x \in DOMAIN listed \cap Rest :
                  Below(listed, DOMAIN listed \cap Rest, x) \in Nat
            BY <5>1, BelowType
          <6> QED BY <6>1 DEF Passed
        <5>3. Reached(q) = 0
          BY <2>2, <3>1 DEF Reached
        <5> QED BY <5>2, <5>3 DEF Missed
      <4> QED BY <4>7, <4>8, <4>9, FS_EmptySet
    <3>3. ASSUME Fair(been, added, q)
          PROVE  Cardinality(Unread(stayed, First, q)) +
                   Cardinality(Missed(listed, stayed, Rest, q)) <= removed
      <4>1. Cardinality(Unread(stayed, First, q)) \in Nat
        <5>1. Unread(stayed, First, q) \subseteq Entries
          BY DEF Unread, TypeInv, FolderInv
        <5> QED BY <5>1, Small
      <4> QED BY <3>2, <3>3, <4>1
    <3> QED BY <2>2, <3>1, <3>3 DEF Counted
  <2> QED BY <1>3, <2>1, <2>2
<1> QED BY <1>1, <1>2, <1>3, <1>5, GoesOnCounts DEF Points, TypeInv, GoodRead, ReadOnce

LEMMA DetailsCounts ==
  ASSUME TypeInv, MissInv, Details
  PROVE  MissInv'
<1>1. AfterDetails /\ UNCHANGED <<nature, folder>>
  BY DetailsReads DEF Details
<1>2. PICK q : q = read'
  OBVIOUS
<1>3. /\ read.pc = "details" /\ q.alias = read.alias /\ q.err = read.err /\ q.bare = read.bare
      /\ q.ids = {} /\ q.more = FALSE
      /\ Seen(q.out) = Seen(read.out) \cup ((read.ids \cap DOMAIN listed) \ Strays)
      /\ \/ read.more /\ q.pc = "page" /\ q.offset = read.offset + PageSize
         \/ ~read.more /\ q.pc = "pictures" /\ q.offset = 0
  BY <1>1, <1>2 DEF AfterDetails
<1>4. Fair(been, added, q) <=> Fair(been, added, read)
  BY <1>3 DEF Fair
<1>5. Got(q) \subseteq Got(read) /\ stayed \cap Got(read) \subseteq Got(q)
  BY <1>3 DEF Got, TypeInv, FolderInv
<1>6. stayed \subseteq Entries /\ removed \in Nat /\ added \in Nat /\ DOMAIN listed \subseteq Entries
  BY DEF TypeInv, FolderInv
<1>7. ASSUME q.alias \in answers
      PROVE  Counted(listed, stayed, been, added, removed, First, Rest, q)
  <2>1. Counted(listed, stayed, been, added, removed, First, Rest, read)
    BY <1>3, <1>7 DEF MissInv, CountInv, Points
  <2>2. CASE q.pc = "page"
    <3>1. read.more /\ Reached(q) = Reached(read)
      BY <1>3, <2>2 DEF Reached
    <3>2. /\ Again(listed, First, q) \subseteq Again(listed, First, read)
          /\ Missed(listed, stayed, First, q) \subseteq Missed(listed, stayed, First, read)
      BY <1>5, <3>1 DEF Again, Missed
    <3>3. /\ Again(listed, First, read) \subseteq Entries
          /\ Missed(listed, stayed, First, read) \subseteq Entries
      BY <1>6 DEF Again, Missed
    <3>4. /\ Cardinality(Again(listed, First, q)) \in Nat
          /\ Cardinality(Again(listed, First, read)) \in Nat
          /\ Cardinality(Again(listed, First, q)) <= Cardinality(Again(listed, First, read))
      BY <3>2, <3>3, Small, Fewer
    <3>5. /\ Cardinality(Missed(listed, stayed, First, q)) \in Nat
          /\ Cardinality(Missed(listed, stayed, First, read)) \in Nat
          /\ Cardinality(Missed(listed, stayed, First, q)) <=
               Cardinality(Missed(listed, stayed, First, read))
      BY <3>2, <3>3, Small, Fewer
    <3>6. Cardinality(Again(listed, First, q)) <= added
      BY <1>3, <1>6, <2>1, <3>4 DEF Counted
    <3>7. Fair(been, added, q) => Cardinality(Missed(listed, stayed, First, q)) <= removed
      BY <1>4, <1>6, <2>1, <3>1, <3>5 DEF Counted
    <3> QED BY <1>3, <2>2, <3>6, <3>7 DEF Counted
  <2>3. CASE q.pc = "pictures"
    <3>1. ~read.more /\ Reached(q) = 0
      BY <1>3, <2>3 DEF Reached
    <3>2. Unread(stayed, First, q) \subseteq Unread(stayed, First, read)
      BY <1>5 DEF Unread
    <3>3. Unread(stayed, First, read) \subseteq Entries
      BY <1>6 DEF Unread
    <3>4. /\ Cardinality(Unread(stayed, First, q)) \in Nat
          /\ Cardinality(Unread(stayed, First, read)) \in Nat
          /\ Cardinality(Unread(stayed, First, q)) <= Cardinality(Unread(stayed, First, read))
      BY <3>2, <3>3, Small, Fewer
    <3>5. Missed(listed, stayed, Rest, q) = {}
      <4>1. Ordered(listed, DOMAIN listed \cap Rest)
        BY ViewOrdered DEF TypeInv
      <4>2. Passed(listed, DOMAIN listed \cap Rest, 0) = {}
        <5>1. \A x \in DOMAIN listed \cap Rest :
                Below(listed, DOMAIN listed \cap Rest, x) \in Nat
          BY <4>1, BelowType
        <5> QED BY <5>1 DEF Passed
      <4> QED BY <3>1, <4>2 DEF Missed
    <3>6. Cardinality(Missed(listed, stayed, Rest, q)) = 0
      BY <3>5, FS_EmptySet
    <3>7. Fair(been, added, q) => Cardinality(Unread(stayed, First, q)) <= removed
      BY <1>3, <1>4, <1>6, <2>1, <3>1, <3>4 DEF Counted
    <3> QED BY <1>3, <1>6, <2>3, <3>4, <3>6, <3>7 DEF Counted
  <2> QED BY <1>3, <2>2, <2>3
<1> QED BY <1>1, <1>2, <1>3, <1>7, GoesOnCounts DEF Points, TypeInv, GoodRead, ReadOnce

LEMMA PicturesCounts ==
  ASSUME TypeInv, MissInv, ReadPictures
  PROVE  MissInv'
<1>1. /\ provider = "movistar" /\ read.pc = "pictures" /\ read.ids = {}
      /\ UNCHANGED <<nature, folder>>
  BY PicturesRead DEF ReadPictures
<1>2. PICK r : PictureRead(r)
  BY PicturesRead
<1>3. /\ GoodRead(r, answers, been) /\ r.pc = "pictures" /\ r.alias = read.alias
      /\ r.offset = read.offset /\ r.ids = {} /\ ~r.more
      /\ r.err = read.err /\ r.bare = read.bare
      /\ Seen(r.out) = Seen(read.out) \cup (Here("pictures") \ Strays)
  BY <1>2 DEF PictureRead
<1>4. Fair(been, added, r) <=> Fair(been, added, read)
  BY <1>3 DEF Fair
<1>5. PICK V, o, T : V = View("pictures") /\ o = read.offset /\ T = Rest
  OBVIOUS
<1>6. /\ Passed(listed, V, o + PageSize) = Passed(listed, V, o) \cup Here("pictures")
      /\ Passed(listed, V, o) \cap Here("pictures") = {} /\ Here("pictures") \subseteq V
  BY <1>5, PassesHere
<1>7. read.alias \in answers => V = DOMAIN listed \cap T
  BY <1>1, <1>5, ViewIs DEF TypeInv, Rest
<1>8. /\ stayed \subseteq Entries /\ stayed \cap Strays = {} /\ removed \in Nat
      /\ stayed \subseteq DOMAIN listed /\ read.bare \in BOOLEAN
  BY DEF TypeInv, FolderInv, GoodRead, ReadOnce
<1>9. Got(r) = Seen(r.out) /\ Got(read) = Seen(read.out) /\ Reached(read) = o
  BY <1>1, <1>3, <1>5 DEF Got, Reached
<1>10. PICK A, B : A = Unread(stayed, First, read) /\ B = Missed(listed, stayed, T, read)
  OBVIOUS
<1>11. IsFiniteSet(A) /\ IsFiniteSet(B) /\ Cardinality(A) \in Nat /\ Cardinality(B) \in Nat
  <2>1. A \subseteq Entries /\ B \subseteq Entries
    BY <1>8, <1>10 DEF Unread, Missed
  <2> QED BY <2>1, Small
<1>12. read.alias \in answers /\ Fair(been, added, read) => Cardinality(A) + Cardinality(B) <= removed
  BY <1>1, <1>5, <1>10 DEF MissInv, CountInv, Counted, Points
<1>13. CASE /\ read' = Finish(r)
            /\ \/ Cardinality(Here("pictures")) < PageSize
               \/ read.offset + PageSize >= Pages * PageSize
  <2>1. ASSUME r.alias \in answers, Fair(been, added, r)
        PROVE  Cardinality(stayed \ Seen(r.out)) <= removed
    <3>1. Passed(listed, V, o + PageSize) = V
      BY <1>4, <1>5, <1>13, <2>1, NothingBehind DEF Fair
    <3>2. V = DOMAIN listed \cap T
      BY <1>3, <1>7, <2>1
    <3>3. stayed \ Seen(r.out) \subseteq A \cup B
      <4>1. SUFFICES ASSUME NEW x \in stayed, x \notin Seen(r.out) PROVE x \in A \cup B
        OBVIOUS
      <4>2. x \notin Seen(read.out) /\ x \notin Here("pictures")
        BY <1>3, <1>8, <4>1
      <4>3. CASE x \in First
        BY <1>9, <1>10, <4>2, <4>3 DEF Unread
      <4>4. CASE x \notin First
        <5>1. x \in V
          BY <1>5, <1>8, <3>2, <4>4, Listed DEF TypeInv
        <5>2. x \in Passed(listed, V, o)
          BY <1>6, <3>1, <4>2, <5>1
        <5> QED BY <1>9, <1>10, <3>2, <4>2, <5>2 DEF Missed
      <4> QED BY <4>3, <4>4
    <3>4. /\ Cardinality(stayed \ Seen(r.out)) \in Nat
          /\ Cardinality(stayed \ Seen(r.out)) <= Cardinality(A) + Cardinality(B)
      BY <1>11, <3>3, Together
    <3> QED BY <1>3, <1>4, <1>8, <1>11, <1>12, <2>1, <3>4
  <2> QED BY <1>1, <1>3, <1>13, <2>1, FinishCounts DEF GoodRead, Points
<1>14. CASE /\ read' = [r EXCEPT !.offset = @ + PageSize]
            /\ read.offset + PageSize < Pages * PageSize
  <2>1. PICK q : q = read'
    OBVIOUS
  <2>2. /\ q.pc = "pictures" /\ q.alias = read.alias /\ q.offset = o + PageSize
        /\ q.out = r.out /\ q.ids = r.ids /\ q.more = r.more /\ q.err = r.err /\ q.bare = r.bare
    BY <1>3, <1>5, <1>14, <2>1, NextPageGood
  <2>3. Got(q) = Seen(r.out) /\ Reached(q) = o + PageSize
    BY <1>3, <2>2 DEF Got, Reached
  <2>4. ASSUME q.alias \in answers, Fair(been, added, q)
        PROVE  Cardinality(Unread(stayed, First, q)) + Cardinality(Missed(listed, stayed, T, q)) <= removed
    <3>1. V = DOMAIN listed \cap T
      BY <1>7, <2>2, <2>4
    <3>2. Unread(stayed, First, q) \subseteq A
      BY <1>3, <1>9, <1>10, <2>3 DEF Unread
    <3>3. Missed(listed, stayed, T, q) \subseteq B
      BY <1>3, <1>6, <1>8, <1>9, <1>10, <2>3, <3>1 DEF Missed
    <3>4. /\ Cardinality(Unread(stayed, First, q)) \in Nat
          /\ Cardinality(Unread(stayed, First, q)) <= Cardinality(A)
      BY <1>11, <3>2, Fewer
    <3>5. /\ Cardinality(Missed(listed, stayed, T, q)) \in Nat
          /\ Cardinality(Missed(listed, stayed, T, q)) <= Cardinality(B)
      BY <1>11, <3>3, Fewer
    <3>6. Fair(been, added, read)
      BY <1>3, <2>2, <2>4 DEF Fair
    <3> QED BY <1>8, <1>11, <1>12, <2>2, <2>4, <3>4, <3>5, <3>6
  <2>5. ASSUME q.alias \in answers
        PROVE  Counted(listed, stayed, been, added, removed, First, Rest, q)
    BY <1>3, <1>5, <2>2, <2>4, <2>5 DEF Counted
  <2> QED BY <1>1, <1>3, <1>8, <2>1, <2>2, <2>5, GoesOnCounts DEF Points
<1> QED BY <1>2, <1>13, <1>14 DEF PictureRead

LEMMA FailsCounts ==
  ASSUME TypeInv, MissInv, Fails
  PROVE  MissInv'
<1>1. read.pc \in Points /\ UNCHANGED <<nature, folder>>
  BY FailsRead DEF Fails
<1>2. PICK r : /\ ReadOnce(r, answers, been) /\ r.alias = read.alias
               /\ r.err /\ r.bare = read.bare /\ Seen(r.out) = {} /\ read' = Finish(r)
  BY FailsRead
<1> QED BY <1>1, <1>2, FinishCounts

-----------------------------------------------------------------------------
(***************************************************************************)
(* Changes of the folder keep the counts.                                  *)
(***************************************************************************)
\* A file that leaves lets at most one other slip past the offset.
LEMMA LeavesCounts ==
  ASSUME TypeInv, MissInv, read.pc \in Points, NEW x \in Entries, Leaves(x)
  PROVE  MissInv'
<1>1. /\ UNCHANGED <<nature, read, been, added>> /\ removed' = removed + 1
      /\ stayed' = stayed \ {x} /\ x \in DOMAIN listed
  BY DEF Leaves
<1>2. PICK D, p, q, st : D = DOMAIN listed /\ p = listed /\ q = listed' /\ st = stayed
  OBVIOUS
<1>3. q = [y \in D \ {x} |-> IF p[y] < p[x] THEN p[y] ELSE p[y] - 1]
  BY <1>2 DEF Leaves
<1>4. DOMAIN q = D \ {x} /\ Ordered(p, D)
  BY <1>2, <1>3, ViewOrdered DEF TypeInv
<1>5. SameOrder(p, q, D \ {x})
  <2>1. \A y \in D : p[y] \in Int
    BY <1>4 DEF Ordered
  <2>2. \A y \in D \ {x} : p[y] # p[x]
    BY <1>1, <1>2, <1>4 DEF Ordered
  <2> QED BY <1>1, <1>2, <1>3, <2>1, <2>2 DEF SameOrder
<1>6. /\ removed \in Nat /\ added \in Nat /\ stayed \subseteq Entries /\ D \subseteq Entries
      /\ stayed \subseteq D
  BY <1>2 DEF TypeInv, FolderInv
<1>7. Reached(read) \in Nat
  BY ReadBounds DEF Reached
\* In any of the two listings.
<1>8. ASSUME NEW S
      PROVE  /\ Again(q, S, read) \subseteq Again(p, S, read)
             /\ Cardinality(Missed(q, st \ {x}, S, read)) \in Nat
             /\ Cardinality(Missed(p, st, S, read)) \in Nat
             /\ Cardinality(Missed(q, st \ {x}, S, read)) <= Cardinality(Missed(p, st, S, read)) + 1
  <2>1. PICK V, o : V = D \cap S /\ o = Reached(read)
    OBVIOUS
  <2>2. Ordered(p, V) /\ SameOrder(p, q, V \ {x}) /\ DOMAIN q \cap S = V \ {x} /\ o \in Nat
    BY <1>2, <1>4, <1>5, <1>7, <2>1, ViewOrdered DEF SameOrder, TypeInv
  <2>3. /\ Passed(p, V, o) \ {x} \subseteq Passed(q, V \ {x}, o)
        /\ \A y, z \in Passed(q, V \ {x}, o) \ Passed(p, V, o) : y = z
    BY <2>2, PassedWithout
  <2>4. Again(q, S, read) \subseteq Again(p, S, read)
    BY <1>2, <2>1, <2>2, <2>3 DEF Again
  <2>5. \A y, z \in Missed(q, st \ {x}, S, read) \ Missed(p, st, S, read) : y = z
    BY <1>2, <2>1, <2>2, <2>3 DEF Missed
  <2>6. Missed(p, st, S, read) \subseteq Entries
    BY <1>2, <1>6 DEF Missed
  <2>7. IsFiniteSet(Missed(p, st, S, read))
    BY <2>6, Small
  <2> QED BY <2>4, <2>5, <2>7, AtMostOneMore
<1>9. ASSUME read.alias \in answers
      PROVE  Counted(q, st \ {x}, been, added, removed + 1, First, Rest, read)
  <2>1. Counted(p, st, been, added, removed, First, Rest, read)
    BY <1>2, <1>9 DEF MissInv, CountInv
  <2>2. /\ Cardinality(Again(q, First, read)) \in Nat
        /\ Cardinality(Again(p, First, read)) \in Nat
        /\ Cardinality(Again(q, First, read)) <= Cardinality(Again(p, First, read))
    <3>1. Again(p, First, read) \subseteq Entries
      BY <1>2, <1>6 DEF Again
    <3> QED BY <1>8, <3>1, Small, Fewer
  <2>3. /\ Cardinality(Unread(st \ {x}, First, read)) \in Nat
        /\ Cardinality(Unread(st, First, read)) \in Nat
        /\ Cardinality(Unread(st \ {x}, First, read)) <= Cardinality(Unread(st, First, read))
    <3>1. Unread(st, First, read) \subseteq Entries
      BY <1>2, <1>6 DEF Unread
    <3>2. Unread(st \ {x}, First, read) \subseteq Unread(st, First, read)
      BY DEF Unread
    <3> QED BY <3>1, <3>2, Small, Fewer
  <2>4. /\ Cardinality(Missed(q, st \ {x}, First, read)) \in Nat
        /\ Cardinality(Missed(p, st, First, read)) \in Nat
        /\ Cardinality(Missed(q, st \ {x}, First, read)) <= Cardinality(Missed(p, st, First, read)) + 1
    BY <1>8
  <2>5. /\ Cardinality(Missed(q, st \ {x}, Rest, read)) \in Nat
        /\ Cardinality(Missed(p, st, Rest, read)) \in Nat
        /\ Cardinality(Missed(q, st \ {x}, Rest, read)) <=
             Cardinality(Missed(p, st, Rest, read)) + 1
    BY <1>8
  <2> QED BY <1>6, <2>1, <2>2, <2>3, <2>4, <2>5 DEF Counted
<1>10. CountInv'
  BY <1>1, <1>2, <1>9 DEF CountInv, First, Rest, Shows, nature
<1>11. PastInv'
  <2>1. ASSUME Fair(been, added, read), ~read.err, \E a \in answers : a < read.alias
        PROVE  Cardinality(stayed \ {x}) <= removed + 1
    <3>1. Cardinality(stayed) <= removed
      BY <2>1 DEF MissInv, PastInv
    <3>2. Cardinality(stayed \ {x}) \in Nat /\ Cardinality(stayed) \in Nat
          /\ Cardinality(stayed \ {x}) <= Cardinality(stayed)
      BY <1>6, Small, Fewer
    <3> QED BY <1>6, <3>1, <3>2
  <2> QED BY <1>1, <2>1 DEF PastInv, nature
<1>12. DoneInv'
  BY <1>1 DEF DoneInv, Points
<1> QED BY <1>10, <1>11, <1>12 DEF MissInv

\* One that enters brings at most one back behind it.
LEMMA EntersCounts ==
  ASSUME TypeInv, MissInv, read.pc \in Points, NEW x \in Entries,
         NEW n \in 1..Cardinality(DOMAIN listed) + 1, Enters(x, n)
  PROVE  MissInv'
<1>1. /\ UNCHANGED <<nature, read, stayed, removed>> /\ added' = added + 1
      /\ been' = been \cup {x} /\ x \notin DOMAIN listed
  BY DEF Enters
<1>2. PICK D, p, q, st, be : /\ D = DOMAIN listed /\ p = listed /\ q = listed' /\ st = stayed
                             /\ be = been'
  OBVIOUS
<1>3. q = [y \in D \cup {x} |-> IF y = x THEN n ELSE IF p[y] < n THEN p[y] ELSE p[y] + 1]
  BY <1>2 DEF Enters
<1>4. /\ DOMAIN q = D \cup {x} /\ Ordered(p, D)
      /\ \A S : Ordered(q, (D \cup {x}) \cap S)
  <2>1. TypeInv'
    BY ChangeType
  <2>2. q \in Injection(DOMAIN q, 1..Cardinality(DOMAIN q)) /\ DOMAIN q \subseteq Entries
    BY <1>2, <2>1 DEF TypeInv, FolderInv
  <2>3. \A S : Ordered(q, DOMAIN q \cap S)
    BY <2>2, PlacesOrder
  <2>4. DOMAIN q = D \cup {x}
    BY <1>3
  <2>5. Ordered(p, D)
    BY <1>2, ViewOrdered DEF TypeInv
  <2> QED BY <2>3, <2>4, <2>5
<1>5. SameOrder(q, p, D)
  <2>1. \A y \in D : p[y] \in Int
    BY <1>4 DEF Ordered
  <2>2. n \in Int
    <3>1. Cardinality(D) \in Nat
      BY <1>4, FS_CardinalityType DEF Ordered
    <3> QED BY <1>2, <3>1
  <2>3. \A y \in D : y # x
    BY <1>1, <1>2
  <2> QED BY <1>3, <2>1, <2>2, <2>3 DEF SameOrder
<1>6. /\ removed \in Nat /\ added \in Nat /\ stayed \subseteq Entries /\ D \subseteq Entries
      /\ stayed \subseteq D
  BY <1>2 DEF TypeInv, FolderInv
<1>7. Reached(read) \in Nat
  BY ReadBounds DEF Reached
<1>8. ASSUME NEW S
      PROVE  /\ Missed(q, st, S, read) \subseteq Missed(p, st, S, read)
             /\ Cardinality(Again(q, S, read)) \in Nat /\ Cardinality(Again(p, S, read)) \in Nat
             /\ Cardinality(Again(q, S, read)) <= Cardinality(Again(p, S, read)) + 1
  <2>1. PICK V, o : V = (D \cup {x}) \cap S /\ o = Reached(read)
    OBVIOUS
  <2>2. /\ Ordered(q, V) /\ SameOrder(q, p, V \ {x}) /\ o \in Nat
        /\ DOMAIN q \cap S = V /\ DOMAIN p \cap S = V \ {x}
    BY <1>1, <1>2, <1>4, <1>5, <1>7, <2>1 DEF SameOrder
  <2>3. /\ Passed(q, V, o) \ {x} \subseteq Passed(p, V \ {x}, o)
        /\ \A y, z \in Passed(p, V \ {x}, o) \ Passed(q, V, o) : y = z
        /\ \A y \in Passed(p, V \ {x}, o) \ Passed(q, V, o) : x \in Passed(q, V, o)
    <3>1. Ordered(q, V) /\ SameOrder(q, p, V \ {x}) /\ o \in Nat
      BY <2>2
    <3> QED BY <3>1, PassedWithout
  <2>4. x \notin st
    BY <1>1, <1>2, <1>6
  <2>5. Missed(q, st, S, read) \subseteq Missed(p, st, S, read)
    BY <2>1, <2>2, <2>3, <2>4 DEF Missed
  <2>6. \A y, z \in Again(q, S, read) \ Again(p, S, read) : y = z
    <3>1. ASSUME NEW y \in Again(q, S, read) \ Again(p, S, read)
          PROVE  /\ y \in V \ Passed(q, V, o)
                 /\ y = x \/ y \in Passed(p, V \ {x}, o)
      BY <2>1, <2>2 DEF Again
    <3>2. ASSUME NEW y \in Again(q, S, read) \ Again(p, S, read),
                 NEW z \in Again(q, S, read) \ Again(p, S, read)
          PROVE  y = z
      BY <2>3, <3>1
    <3> QED BY <3>2
  <2>7. Again(p, S, read) \subseteq Entries
    BY <1>2, <1>6 DEF Again
  <2>8. IsFiniteSet(Again(p, S, read))
    BY <2>7, Small
  <2> QED BY <2>5, <2>6, <2>8, AtMostOneMore
<1>9. Fair(be, added + 1, read) => Fair(been, added, read)
  <2>1. be \subseteq Entries /\ been \subseteq be
    BY <1>1, <1>2 DEF TypeInv, FolderInv
  <2>2. /\ Cardinality(been) \in Nat /\ Cardinality(be) \in Nat
        /\ Cardinality(been) <= Cardinality(be)
    BY <2>1, Small, Fewer
  <2>3. /\ Cardinality(been \cap Strays) \in Nat /\ Cardinality(be \cap Strays) \in Nat
        /\ Cardinality(been \cap Strays) <= Cardinality(be \cap Strays)
    <3>1. been \cap Strays \subseteq be \cap Strays /\ be \cap Strays \subseteq Entries
      BY <2>1
    <3> QED BY <3>1, Small, Fewer
  <2> QED BY <1>6, <2>2, <2>3, ReadBounds DEF Fair
<1>10. ASSUME read.alias \in answers
       PROVE  Counted(q, st, be, added + 1, removed, First, Rest, read)
  <2>1. Counted(p, st, been, added, removed, First, Rest, read)
    BY <1>2, <1>10 DEF MissInv, CountInv
  <2>2. /\ Cardinality(Again(q, First, read)) \in Nat /\ Cardinality(Again(p, First, read)) \in Nat
        /\ Cardinality(Again(q, First, read)) <= Cardinality(Again(p, First, read)) + 1
    BY <1>8
  <2>3. ASSUME NEW S
        PROVE  /\ Cardinality(Missed(q, st, S, read)) \in Nat
               /\ Cardinality(Missed(p, st, S, read)) \in Nat
               /\ Cardinality(Missed(q, st, S, read)) <= Cardinality(Missed(p, st, S, read))
    <3>1. Missed(p, st, S, read) \subseteq Entries
      BY <1>2, <1>6 DEF Missed
    <3> QED BY <1>8, <3>1, Small, Fewer
  <2>4. Cardinality(Unread(st, First, read)) \in Nat
    <3>1. Unread(st, First, read) \subseteq Entries
      BY <1>2, <1>6 DEF Unread
    <3> QED BY <3>1, Small
  <2>5. /\ Cardinality(Missed(q, st, First, read)) \in Nat
        /\ Cardinality(Missed(p, st, First, read)) \in Nat
        /\ Cardinality(Missed(q, st, First, read)) <= Cardinality(Missed(p, st, First, read))
    BY <2>3
  <2>6. /\ Cardinality(Missed(q, st, Rest, read)) \in Nat
        /\ Cardinality(Missed(p, st, Rest, read)) \in Nat
        /\ Cardinality(Missed(q, st, Rest, read)) <=
             Cardinality(Missed(p, st, Rest, read))
    BY <2>3
  <2> QED BY <1>6, <1>9, <2>1, <2>2, <2>4, <2>5, <2>6 DEF Counted
<1>11. CountInv'
  BY <1>1, <1>2, <1>10 DEF CountInv, First, Rest, Shows, nature
<1>12. PastInv'
  BY <1>1, <1>2, <1>9 DEF MissInv, PastInv, nature
<1>13. DoneInv'
  BY <1>1 DEF DoneInv, Points
<1> QED BY <1>11, <1>12, <1>13 DEF MissInv

-----------------------------------------------------------------------------
LEMMA InitMiss == Init => MissInv
<1> SUFFICES ASSUME Init PROVE MissInv
  OBVIOUS
<1>1. TypeInv
  BY InitType
<1>2. /\ read.pc = "page" /\ read.offset = 0 /\ read.out = Nothing /\ read.ids = {}
      /\ read.more = FALSE /\ read.alias = 1
  BY DEF Init, Reads
<1>3. Got(read) = {}
  BY <1>2, NothingSeen DEF Got
<1>4. CountInv
  BY <1>1, <1>2, <1>3, FreshCounts DEF CountInv, TypeInv
<1>5. PastInv
  <2>1. \A a \in answers : ~(a < read.alias)
    BY <1>1, <1>2, ListingsAssumption DEF TypeInv, FolderInv
  <2> QED BY <2>1 DEF PastInv
<1>6. DoneInv
  BY <1>2 DEF DoneInv
<1> QED BY <1>4, <1>5, <1>6 DEF MissInv

LEMMA NextMiss == TypeInv /\ MissInv /\ [Next]_vars => MissInv'
<1> SUFFICES ASSUME TypeInv, MissInv, [Next]_vars PROVE MissInv'
  OBVIOUS
<1>1. CASE Reading
  BY <1>1, O2Counts, IdsCounts, DetailsCounts, PicturesCounts, FailsCounts DEF Reading
<1>2. CASE read.pc \notin {"done", "failed"} /\ Changing
  <2>1. read.pc \in Points
    BY <1>2 DEF TypeInv, GoodRead, ReadOnce
  <2> QED BY <1>2, <2>1, LeavesCounts, EntersCounts DEF Changing
<1>3. CASE UNCHANGED vars
  BY <1>3 DEF vars, nature, folder, MissInv, CountInv, PastInv, DoneInv, First, Rest, Shows
<1> QED BY <1>1, <1>2, <1>3 DEF Next

(***************************************************************************)
(* A listing misses at most one file for each that was removed while it    *)
(* was read: pages that shift, ids that list nothing, a second listing and *)
(* failed requests do not hide more, for folders of any size up to the     *)
(* loops' bound.                                                           *)
(***************************************************************************)
THEOREM ListingsMissFew == Spec => []MissesNoMoreThanWereRemoved
<1>1. MissInv => MissesNoMoreThanWereRemoved
  BY DEF MissInv, DoneInv, Fair, MissesNoMoreThanWereRemoved
<1>2. Init => TypeInv /\ MissInv
  BY InitType, InitMiss
<1>3. TypeInv /\ MissInv /\ [Next]_vars => (TypeInv /\ MissInv)'
  BY NextType, NextMiss
<1> QED BY <1>1, <1>2, <1>3, PTL DEF Spec
=============================================================================
