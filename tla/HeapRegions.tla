----------------------------- MODULE HeapRegions ------------------------------
(***************************************************************************)
(* find_heap_regions() of src/tracker.c: which rows of /proc/self/maps are *)
(* reported as heap regions when the program exits.  One row is read per   *)
(* step, by a sscanf() whose %d conversions stop at a hexadecimal letter.  *)
(***************************************************************************)
EXTENDS Integers, Sequences

CONSTANTS MAX_REGION_COUNT,  \* the regions that the caller has room for
          MaxRows            \* bound on the rows of /proc/self/maps

ASSUME HeapRegionsAssumption == MAX_REGION_COUNT \in Nat /\ MaxRows \in Nat

\* A row "start-end perms offset dev inode [path]".  The offset is of digits
\* only, or has a hexadecimal letter first or later; the device starts with one
\* or with a digit.
Row == [offset : {"digits", "later", "letter"}, dev : {"digit", "letter"},
        path : {"none", "[heap]", "file"}]

\* The kernel gives the rows that are no file the offset and the device zero.
Rows == {r \in Row : r.path # "file" => r.offset = "digits" /\ r.dev = "digit"}

VARIABLES maps,    \* the rows
          next,    \* the next one to read
          path,    \* the local `path`: what the last %s that matched stored
          regions  \* the rows stored in `regions`; `result` is their number

heapVars == <<maps, next, path, regions>>

\* What sscanf() returns.  An offset with a later letter is split: its tail
\* becomes the device, and the device is read as the inode.
Ret(r) == CASE r.offset = "letter" -> 2
            [] r.offset = "later"  -> IF r.dev = "letter" THEN 4 ELSE 6
            [] OTHER               -> IF r.path = "none" THEN 5 ELSE 6

\* What it leaves in `path`: after a split offset, the rest of the device.
Path(r) == IF Ret(r) # 6 THEN path
           ELSE IF r.offset = "later" THEN "device" ELSE r.path

IsHeap_ExactRet(r) == Ret(r) < 5 /\ path' = "[heap]"

IsHeap(r) == Ret(r) < 5 \/ path' = "[heap]"

\* `if (result > size) continue;`: one more is stored than there is room for.
Store(r) == regions' = IF IsHeap(r) /\ Len(regions) <= MAX_REGION_COUNT
                       THEN Append(regions, next) ELSE regions

ReadRow == /\ next <= Len(maps)
           /\ path' = Path(maps[next])
           /\ Store(maps[next])
           /\ next' = next + 1
           /\ UNCHANGED maps

\* `path` is not initialized.
HeapInit == /\ maps \in UNION {[1..n -> Rows] : n \in 1..MaxRows}
            /\ next = 1
            /\ path \in {"none", "[heap]"}
            /\ regions = <<>>

AllRead == next > Len(maps)

Reported == {regions[i] : i \in DOMAIN regions}

Full == Len(regions) > MAX_REGION_COUNT

\* The heap is reported, whatever rows of files stand before it, unless the
\* regions were full (tracker.c:228-229).
HeapReported == \A i \in 1..(next - 1) : maps[i].path = "[heap]" => i \in Reported \/ Full
==============================================================================
