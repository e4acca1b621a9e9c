------------------------------ MODULE Listings ------------------------------
(***************************************************************************)
(* Listing the files of a folder (list_folder and _load_files of           *)
(* o2/api.py and o2/movistar.py) while other clients of the account change *)
(* the folder.                                                             *)
(*                                                                         *)
(* The provider gives a page at an offset of what it lists at that moment: *)
(* a file removed meanwhile moves the others up, over the page boundary; a *)
(* new one moves them down.  The O2 client reads one listing, whose        *)
(* entries it needs named; the Movistar client reads the ids of one, asks  *)
(* for their details, and then reads a second listing, of the pictures,    *)
(* some of which may have been in the first.                               *)
(* A folder known by several ids is tried by each until one lists          *)
(* something.  The subfolders come in one answer, and are left out.        *)
(*                                                                         *)
(* An order is a function that gives each entry its place.  What is read   *)
(* is sorted in the end, so only how often an entry is in it is kept.      *)
(***************************************************************************)
EXTENDS Integers, FiniteSets, Functions

CONSTANTS
    Entries,    \* what the provider may list in the folder ...
    Pictures,   \* ... of which these are pictures to Movistar
    Strays,     \* ... and these no files of the folder: folder-like, or of another
    PageSize,   \* PAGE_SIZE
    Pages,      \* the pages the loops read at most, 100000 / PAGE_SIZE
    Aliases,    \* the ids a folder is known by
    MaxListed,  \* bound: entries listed when a listing begins
    MaxChanges, \* bound: changes made to the folder during a listing
    MaxFailures \* bound: requests that fail

ASSUME ListingsAssumption ==
    /\ IsFiniteSet(Entries) /\ Pictures \subseteq Entries /\ Strays \subseteq Entries
    /\ PageSize \in Nat \ {0} /\ Pages \in Nat \ {0} /\ Aliases \in Nat \ {0}
    /\ MaxListed \in Nat /\ MaxChanges \in Nat /\ MaxFailures \in Nat

VARIABLES
    provider, \* "o2" or "movistar"
    answers,  \* the ids under which the provider lists the folder
    says,     \* does it say whether there is more? Movistar's does
    names,    \* does it name the entries of a request without fields?
    both,     \* the pictures that Movistar's media listing shows too
    listed,   \* what it lists, each entry with its place
    read,     \* the listing being read
    stayed,   \* files listed ever since it began
    been,     \* what was listed at any time since
    added, removed, \* changes since
    failures  \* requests that failed

folder == <<listed, stayed, been, added, removed>>
nature == <<provider, answers, says, names, both>>
vars == <<nature, folder, read, failures>>

-----------------------------------------------------------------------------
Nothing == [x \in Entries |-> 0]
Reads(alias, err, bare) ==
    [pc |-> "page", alias |-> alias, offset |-> 0, out |-> Nothing, pages |-> {},
     ids |-> {}, more |-> FALSE, err |-> err, bare |-> bare]

Init ==
    /\ provider \in {"o2", "movistar"}
    /\ answers \in (SUBSET (1..Aliases)) \ {{}}
    /\ says \in IF provider = "o2" THEN BOOLEAN ELSE {TRUE}
    /\ names \in IF provider = "o2" THEN BOOLEAN ELSE {TRUE}
    /\ both \in IF provider = "movistar" THEN SUBSET Pictures ELSE {{}}
    /\ \E S \in SUBSET Entries :
          /\ Cardinality(S) <= MaxListed
          /\ listed \in Injection(S, 1..Cardinality(S))
          /\ stayed = S \ Strays /\ been = S
    /\ read = Reads(1, FALSE, FALSE)
    /\ added = 0 /\ removed = 0 /\ failures = 0

\* The folder changes, at any place of the provider's order.
Enters(x, n) ==
    /\ added + removed < MaxChanges /\ x \notin DOMAIN listed
    /\ n \in 1..Cardinality(DOMAIN listed) + 1
    /\ listed' = [y \in DOMAIN listed \cup {x} |->
                     IF y = x THEN n ELSE IF listed[y] < n THEN listed[y] ELSE listed[y] + 1]
    /\ added' = added + 1 /\ been' = been \cup {x}
    /\ UNCHANGED <<nature, read, stayed, removed, failures>>

Leaves(x) ==
    /\ added + removed < MaxChanges /\ x \in DOMAIN listed
    /\ listed' = [y \in DOMAIN listed \ {x} |->
                     IF listed[y] < listed[x] THEN listed[y] ELSE listed[y] - 1]
    /\ removed' = removed + 1 /\ stayed' = stayed \ {x}
    /\ UNCHANGED <<nature, read, been, added, failures>>

-----------------------------------------------------------------------------
\* A listing of the folder: of everything, or for Movistar of the pictures, or
\* of the rest and as many pictures as it likes.
Shows(pc) ==
    IF provider = "o2" THEN Entries
    ELSE IF pc = "pictures" THEN Pictures ELSE (Entries \ Pictures) \cup both
View(pc) == {x \in DOMAIN listed : read.alias \in answers /\ x \in Shows(pc)}

\* The entries of a view that come before x, and a page: those at the offset,
\* in their order.
Before(view, x) == {y \in view : listed[y] < listed[x]}
Rank(view, x) == Cardinality(Before(view, x))
InPage(view) ==
    {x \in view : read.offset <= Rank(view, x) /\ Rank(view, x) < read.offset + PageSize}
PageOf(view) == [x \in InPage(view) |-> Rank(view, x) - read.offset]
Length(page) == Cardinality(DOMAIN page)
More(view) == Cardinality(view) > read.offset + PageSize
LastPage == read.offset + PageSize >= Pages * PageSize

Seen(out) == {x \in Entries : out[x] > 0}
And(out, new) == [x \in Entries |-> out[x] + IF x \in new THEN 1 ELSE 0]
New(page, out) == DOMAIN page \ Seen(out)
Files(entries) == entries \ Strays

\* Mutant: one id too many.
FinishOnePast(r) ==
    IF Seen(r.out) # {} THEN [r EXCEPT !.pc = "done"]
    ELSE IF r.alias <= Aliases THEN Reads(r.alias + 1, r.err, r.bare)
    ELSE [r EXCEPT !.pc = IF r.err THEN "failed" ELSE "done"]

\* list_folder: the first id that lists something; an error is raised only
\* when none does.
Finish(r) ==
    IF Seen(r.out) # {} THEN [r EXCEPT !.pc = "done"]
    ELSE IF r.alias < Aliases THEN Reads(r.alias + 1, r.err, r.bare)
    ELSE [r EXCEPT !.pc = IF r.err THEN "failed" ELSE "done"]

\* Mutant: an entry already read is read again.
TakenTwice(page, out) == Files(DOMAIN page)

\* _load_files of the O2 client, one page: named entries that are no folders
\* and were not on an earlier page; it ends at a page it has read before, or
\* that brings nothing, or that is short.
Taken(page, out) == Files(New(page, out))

O2Page(bare) ==
    LET page == PageOf(View("page"))
        taken == IF bare THEN {} ELSE Taken(page, read.out)
        r == [read EXCEPT !.out = And(@, taken), !.pages = @ \cup {page},
                          !.bare = @ \/ (bare /\ DOMAIN page # {})]
        more == says /\ More(View("page"))
    IN  read' = IF \/ page \in read.pages \/ taken = {}
                   \/ (~more /\ Length(page) < PageSize) \/ LastPage
                THEN Finish(r)
                ELSE [r EXCEPT !.offset = @ + PageSize]

ReadPage ==
    /\ provider = "o2" /\ read.pc = "page"
    /\ O2Page(FALSE)
    /\ UNCHANGED <<nature, folder, failures>>

\* The request fails and is repeated without the fields it asked for.
ReadBarePage ==
    /\ provider = "o2" /\ read.pc = "page" /\ failures < MaxFailures
    /\ O2Page(~names)
    /\ failures' = failures + 1
    /\ UNCHANGED <<nature, folder>>

-----------------------------------------------------------------------------
\* Movistar: the ids of a page, none of them read before, ...
Ids ==
    /\ provider = "movistar" /\ read.pc = "page"
    /\ LET page == PageOf(View("page"))  ids == New(page, read.out) IN
       read' = IF ids = {} THEN [read EXCEPT !.pc = "pictures", !.offset = 0]
               ELSE [read EXCEPT !.pc = "details", !.ids = ids,
                       !.more = More(View("page")) /\ Length(page) = PageSize /\ ~LastPage]
    /\ UNCHANGED <<nature, folder, failures>>

\* ... the details of those that are still there and in this folder, ...
Detailed(ids) == Files(ids \cap DOMAIN listed)

Details ==
    /\ read.pc = "details"
    /\ LET r == [read EXCEPT !.out = And(@, Detailed(read.ids)), !.ids = {}, !.more = FALSE] IN
       read' = IF read.more THEN [r EXCEPT !.pc = "page", !.offset = @ + PageSize]
               ELSE [r EXCEPT !.pc = "pictures", !.offset = 0]
    /\ UNCHANGED <<nature, folder, failures>>

\* ... and the pictures, until a short page.
ReadPictures ==
    /\ read.pc = "pictures"
    /\ LET page == PageOf(View("pictures"))
           r == [read EXCEPT !.out = And(@, Taken(page, read.out))]
       IN  read' = IF Length(page) < PageSize \/ LastPage THEN Finish(r)
                   ELSE [r EXCEPT !.offset = @ + PageSize]
    /\ UNCHANGED <<nature, folder, failures>>

-----------------------------------------------------------------------------
\* Mutant: an error counts as an empty answer.
AbandonedUnnoticed == Finish([read EXCEPT !.out = Nothing])

\* A request fails for good: what this id gave is dropped.
Abandoned == Finish([read EXCEPT !.err = TRUE, !.out = Nothing])

Fails ==
    /\ read.pc \in {"page", "details", "pictures"} /\ failures < MaxFailures
    /\ failures' = failures + 1
    /\ read' = Abandoned
    /\ UNCHANGED <<nature, folder>>

Reading == ReadPage \/ ReadBarePage \/ Ids \/ Details \/ ReadPictures \/ Fails
Changing == \/ \E x \in Entries : Leaves(x) \/ \E n \in 1..Cardinality(DOMAIN listed) + 1 : Enters(x, n)
Next == Reading \/ (read.pc \notin {"done", "failed"} /\ Changing)

Spec == Init /\ [][Next]_vars

-----------------------------------------------------------------------------
TypeOK ==
    /\ provider \in {"o2", "movistar"} /\ answers \subseteq 1..Aliases
    /\ {says, names} \subseteq BOOLEAN /\ both \subseteq Pictures
    /\ DOMAIN listed \subseteq Entries /\ listed \in Injection(DOMAIN listed, 1..Cardinality(DOMAIN listed))
    /\ stayed \subseteq Entries /\ been \subseteq Entries
    /\ added + removed \in 0..MaxChanges /\ failures \in 0..MaxFailures
    /\ read.pc \in {"page", "details", "pictures", "done", "failed"}
    /\ read.alias \in 1..Aliases /\ read.offset \in {PageSize * n : n \in 0..Pages - 1}
    /\ read.out \in [Entries -> Nat] /\ read.ids \subseteq Entries
    /\ {read.more, read.err, read.bare} \subseteq BOOLEAN

\* A listing misses at most one file for each that was removed while it was
\* read, and never takes a failed request for an empty folder, unless the
\* entries came without names, or a whole page of entries was new or stray.
MissesNoMoreThanWereRemoved ==
    /\ read.pc = "done" /\ ~read.bare
    /\ added + Cardinality(been \cap Strays) < PageSize
    /\ Cardinality(been) <= Pages * PageSize
    => Cardinality(stayed \ Seen(read.out)) <= removed

\* A file is listed once, however it moves between the pages, and nothing is
\* listed that is not a file of this folder.
EachFileOnce ==
    /\ \A x \in Entries : read.out[x] <= 1
    /\ Seen(read.out) \subseteq been \ Strays

=============================================================================
