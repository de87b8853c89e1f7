------------------------------- MODULE ReadDir -------------------------------
(***************************************************************************)
(* How a directory is read page by page.  On Linux (readdir of             *)
(* src/src/filesystem.rs) every page lists it anew, and the offset is an   *)
(* index into that list; on Windows (read_directory of                     *)
(* src/src/windows_filesystem.rs) the first page takes a sorted snapshot,  *)
(* and the others go on behind the last name of the page before.           *)
(*                                                                         *)
(* One enumeration, from its start to its end or an error, of a directory  *)
(* that others change meanwhile: other programs at any time (the device is *)
(* not locked), and this mount's users between two pages.                  *)
(*                                                                         *)
(* External: the device lists a directory in an order of its own, which    *)
(* adding and removing a name does not change for the others.  Linux asks  *)
(* on from the offset of the last entry it got and takes an empty page for *)
(* the end; Windows asks on from the last name and looks for an end mark,  *)
(* which a full page has no room for.                                      *)
(***************************************************************************)
EXTENDS Naturals, Sequences, FiniteSets

CONSTANTS Name,        \* the names of entries: numbers, for their order
          Dot, DotDot, \* "." and ".."
          PageSize,    \* the entries a reply has room for
          MaxChanges   \* bound: additions and removals meanwhile

ASSUME PageAssumption ==
    /\ PageSize \in Nat \ {0}
    /\ IsFiniteSet(Name)
    /\ Name \subseteq Nat \ {0} /\ Dot \notin Name /\ DotDot \notin Name \union {Dot}

VARIABLES os,          \* "linux" or "windows"
          dir,         \* the names on the device, in its order
          dots,        \* which of "." and ".." the device lists, in front
          names,       \* the list of the handler that runs; on Windows, when it
                       \* is sorted, the entries the context keeps
          index,       \* the place in it the handler is at, from 0
          page,        \* the entries it has added: names with their offsets
          step,        \* "asking", "listing", "stating", "paging", "ended", "failed"
          offset,      \* what is asked for next: an offset, or on Windows the
                       \* marker, the last name of a page (0: none)
          got,         \* the names the reader has got
          there,       \* names that were there all the time (history)
          additions, removals    \* how many there were (history)

vars == <<os, dir, dots, names, index, page, step, offset, got, there, additions, removals>>
reader == <<names, index, page, step, offset, got>>
history == <<there, additions, removals>>

Dots == {Dot, DotDot}
Orders == {s \in UNION {[1..n -> Name] : n \in 0..Cardinality(Name)} :
              \A j, k \in DOMAIN s : s[j] = s[k] => j = k}
Elements(s) == {s[k] : k \in DOMAIN s}

\* names.insert(k, n)
Insert(s, k, n) == SubSeq(s, 1, k) \o <<n>> \o SubSeq(s, k + 1, Len(s))

\* (Mutant: a directory that lists one of them is taken to list both.)
WithDotsIfNone(s) == IF Elements(s) \intersect Dots = {} THEN <<Dot, DotDot>> \o s ELSE s

WithDots(s) ==
    LET one == IF Dot \in Elements(s) THEN s ELSE Insert(s, 0, Dot)
    IN  IF DotDot \in Elements(one) THEN one ELSE Insert(one, 1, DotDot)
-----------------------------------------------------------------------------
Init ==
    /\ dir \in Orders
    /\ dots \in {<<>>, <<Dot>>, <<DotDot>>, <<Dot, DotDot>>}
    /\ os \in {"linux", "windows"}
    /\ names = <<>>
    /\ index = 0
    /\ page = <<>>
    /\ step = "asking"
    /\ offset = 0
    /\ got = <<>>
    /\ there = Elements(dir)
    /\ additions = 0
    /\ removals = 0

\* ListDir, then the skip to the offset.
readdir ==
    /\ os = "linux"
    /\ step = "asking"
    /\ names' = WithDots(dots \o dir)
    /\ index' = offset
    /\ page' = <<>>
    /\ step' = "listing"
    /\ UNCHANGED <<os, dir, dots, offset, got, history>>

More == index < Len(names)
Entry == names[index + 1]
Vanished == Entry \notin Dots /\ Entry \notin Elements(dir)
Full == More /\ ~Vanished /\ Len(page) = PageSize

\* (Mutant: the offset of an entry is its own index, as if it were included.)
AddEntryOwnOffset ==
    /\ step = "listing"
    /\ More
    /\ ~Vanished
    /\ Len(page) < PageSize
    /\ page' = Append(page, [name |-> Entry, next |-> index])
    /\ index' = index + 1
    /\ UNCHANGED <<os, dir, dots, names, step, offset, got, history>>

\* FileInfo of the entry succeeds and it fits: its offset is index + 1.
AddEntry ==
    /\ step = "listing"
    /\ More
    /\ ~Vanished
    /\ Len(page) < PageSize
    /\ page' = Append(page, [name |-> Entry, next |-> index + 1])
    /\ index' = index + 1
    /\ UNCHANGED <<os, dir, dots, names, step, offset, got, history>>

\* (Mutant: the entry whose FileInfo fails is tried again.)
EntryRetried ==
    /\ step \in {"listing", "stating"}
    /\ More
    /\ UNCHANGED vars

\* FileInfo fails, because the entry has gone or otherwise: the whole page
\* becomes an error, the entries it had with it.
EntryFails ==
    /\ step \in {"listing", "stating"}
    /\ More
    /\ step' = "failed"
    /\ UNCHANGED <<os, dir, dots, names, index, page, offset, got, history>>

\* (Mutant: the entry the handler stopped at is taken to be in the page.)
ReplySkipsOne ==
    /\ step = "listing"
    /\ ~More \/ Full
    /\ got' = got \o [k \in DOMAIN page |-> page[k].name]
    /\ IF page = <<>>
       THEN step' = "ended" /\ UNCHANGED offset
       ELSE step' = "asking" /\ offset' = index + 1
    /\ UNCHANGED <<os, dir, dots, names, index, page, history>>

\* The list is through, or the next entry does not fit.
Reply ==
    /\ step = "listing"
    /\ ~More \/ Full
    /\ got' = got \o [k \in DOMAIN page |-> page[k].name]
    /\ IF page = <<>>
       THEN step' = "ended" /\ UNCHANGED offset
       ELSE step' = "asking" /\ offset' = page[Len(page)].next
    /\ UNCHANGED <<os, dir, dots, names, index, page, history>>
-----------------------------------------------------------------------------
(***************************************************************************)
(* read_directory on Windows: without a marker ListDir, a FileInfo of each *)
(* entry but the dots, and the sort; then a page.                          *)
(***************************************************************************)
read_directory ==
    /\ os = "windows"
    /\ step = "asking"
    /\ IF offset = 0
       THEN names' = dir /\ index' = 0 /\ step' = "stating"
       ELSE step' = "paging" /\ UNCHANGED <<names, index>>
    /\ UNCHANGED <<os, dir, dots, page, offset, got, history>>

StatEntry ==
    /\ step = "stating"
    /\ More
    /\ ~Vanished
    /\ index' = index + 1
    /\ UNCHANGED <<os, dir, dots, names, page, step, offset, got, history>>

Ascending(s) == \A j, k \in DOMAIN s : j < k => s[j] < s[k]

Sort ==
    /\ step = "stating"
    /\ ~More
    /\ names' = CHOOSE s \in Orders : Elements(s) = Elements(names) /\ Ascending(s)
    /\ step' = "paging"
    /\ UNCHANGED <<os, dir, dots, index, page, offset, got, history>>

\* (Mutant: the name a page ended with begins the next one.)
directory_start_at(marker) == Cardinality({k \in DOMAIN names : names[k] < marker})

\* partition_point: how many names come no later than the marker.
directory_start(marker) == Cardinality({k \in DOMAIN names : names[k] <= marker})

\* An end mark that does not fit is left out, and Windows asks once more.
WinReply ==
    /\ step = "paging"
    /\ LET start == directory_start(offset)
           end == IF start + PageSize <= Len(names) THEN start + PageSize ELSE Len(names)
       IN  /\ got' = got \o SubSeq(names, start + 1, end)
           /\ offset' = IF start = end THEN offset ELSE names[end]
           /\ \/ end = Len(names) /\ step' = "ended"
              \/ end = start + PageSize /\ step' = "asking"
    /\ UNCHANGED <<os, dir, dots, names, index, page, history>>
-----------------------------------------------------------------------------
\* The changes of others while the enumeration runs.
Running == step \notin {"ended", "failed"} /\ additions + removals < MaxChanges

AddName(n, k) ==
    /\ Running
    /\ n \notin Elements(dir)
    /\ k \in 0..Len(dir)
    /\ dir' = Insert(dir, k, n)
    /\ additions' = additions + 1
    /\ UNCHANGED <<os, dots, reader, there, removals>>

RemoveName(k) ==
    /\ Running
    /\ k \in DOMAIN dir
    /\ dir' = SubSeq(dir, 1, k - 1) \o SubSeq(dir, k + 1, Len(dir))
    /\ removals' = removals + 1
    /\ there' = there \ {dir[k]}
    /\ UNCHANGED <<os, dots, reader, additions>>

Handler ==
    \/ readdir \/ AddEntry \/ EntryFails \/ Reply
    \/ read_directory \/ StatEntry \/ Sort \/ WinReply

Next ==
    \/ Handler
    \/ \E n \in Name, k \in 0..Cardinality(Name) : AddName(n, k)
    \/ \E k \in 1..Cardinality(Name) : RemoveName(k)

Spec == Init /\ [][Next]_vars

\* The session thread goes on with a page, the reader asks for the next one.
FairSpec == Spec /\ WF_vars(Handler)
-----------------------------------------------------------------------------
TypeOK ==
    /\ dir \in Orders
    /\ dots \in Seq(Dots)
    /\ Elements(names) \subseteq Name \union Dots
    /\ index \in Nat
    /\ Elements(page) \subseteq [name : Name \union Dots, next : Nat]
    /\ step \in {"asking", "listing", "stating", "paging", "ended", "failed"}
    /\ offset \in Nat
    /\ Elements(got) \subseteq Name \union Dots
    /\ there \subseteq Elements(dir)

Times(n) == Cardinality({k \in DOMAIN got : got[k] = n})

(***************************************************************************)
(* In a directory nobody changes, the pages make up the directory: every   *)
(* entry once, in the device's order, and "." and ".." once each whether   *)
(* the device lists them or not (filesystem.rs:391-412).                   *)
(***************************************************************************)
UnchangedDirectoryReadOnce ==
    os = "linux" /\ additions + removals = 0 =>
        LET all == WithDots(dots \o dir)
        IN  /\ Len(got) <= Len(all) /\ got = SubSeq(all, 1, Len(got))
            /\ \A n \in Dots : Cardinality({k \in DOMAIN all : all[k] = n}) = 1
            /\ step = "ended" => got = all

(***************************************************************************)
(* A name that is removed moves those behind it forward, so an offset can  *)
(* skip entries that were there all along ("rm -r" reads and removes by    *)
(* turns) - but never more of them than names were removed.  Windows'      *)
(* snapshot skips none.                                                    *)
(***************************************************************************)
EachRemovalHidesAtMostOne ==
    step = "ended" =>
        Cardinality({n \in there : Times(n) = 0}) <= IF os = "linux" THEN removals ELSE 0

(***************************************************************************)
(* A name that is added moves those behind it back, so an entry can come   *)
(* twice - but each addition repeats at most one, and without any nothing  *)
(* comes twice.                                                            *)
(***************************************************************************)
EachAdditionRepeatsAtMostOne ==
    Len(got) - Cardinality(Elements(got)) <= additions

(***************************************************************************)
(* On Windows the pages make up one snapshot, each name once and in order, *)
(* wherever the page boundaries fall and whatever is added or removed      *)
(* after it was taken (windows_filesystem.rs:254-274).                     *)
(***************************************************************************)
SnapshotReadOnce ==
    os = "windows" =>
        /\ Ascending(got)
        /\ got # <<>> => Len(got) <= Len(names) /\ got = SubSeq(names, 1, Len(got))
        /\ step = "ended" => Elements(got) = Elements(names)

\* The enumeration comes to an end.
ListingEnds == <>(step \in {"ended", "failed"})
=============================================================================
