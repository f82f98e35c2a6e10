------------------------------ MODULE FlashEep ------------------------------
(***************************************************************************)
(* flash_eep.c: settings kept as a log of objects in two flash sectors.    *)
(* A sector starts with its segment number, counting down from Free-1;     *)
(* the sector with the smaller number is current.  An object is a header   *)
(* (id, size) and its data; the last object of an id counts.  When a new   *)
(* object does not fit, pack_cfg_fmem copies the live objects to the other *)
(* sector and makes that one current.                                      *)
(*                                                                         *)
(* The unit is the flash word: sizes are counted in words.  A word is      *)
(* 2*FieldBits wide, like the 16+16 bits of fobj_head.  Programming can    *)
(* only clear bits, so a word programmed twice holds the AND of both       *)
(* values: BitAnd.                                                         *)
(* Power may fail between any two words written.  RT_DEV_LOCK_FLASH is     *)
(* held during every operation, so there is only one at a time.            *)
(***************************************************************************)
EXTENDS Integers, Sequences

CONSTANTS BitAnd(_, _), \* what programming a word over another one leaves
          FieldBits,   \* width of the fields of a header
          Bank,        \* FMEMORY_SCFG_BANK_SIZE in words
          MaxObj,      \* MAX_FOBJ_SIZE in words
          Ids, Values, \* object ids; values of a data word
          Writes,      \* bound: calls of flash_write_cfg
          Crashes,     \* bound: power failures
          HeapFaults   \* bound: failed mallocs

Unit   == 2^FieldBits
Free   == Unit * Unit - 1        \* an erased word, fobj_x_free
Banks  == {0, 1}
None   == <<-1>>                 \* "not found"
Object == UNION {[1..k -> Values] : k \in 0..MaxObj}

\* Two of the largest objects fit into a sector (1024 words, and 129 an object),
\* and the flash is worn out long before the segment number reaches zero.
ASSUME FlashAssumption ==
  /\ Unit \in Nat /\ MaxObj \in 1..(Unit - 2) /\ Bank \in Nat /\ Bank > 2 * MaxObj + 3
  /\ Ids \subseteq 0..(Unit - 2) /\ Values \subseteq 0..Free
  /\ Writes \in 0..(Free - 1) /\ Crashes \in Nat /\ HeapFaults \in Nat

\* A word stays a word, and an erased one takes what is programmed.
ASSUME AndAssumption ==
  \A v, w \in 0..Free : BitAnd(v, w) \in 0..Free /\ BitAnd(Free, w) = w

FobjHead(id, size) == id * Unit + size
SizeOf(w) == w % Unit
IdOf(w)   == w \div Unit

VARIABLES flash,     \* flash[b][a]: word a of sector b
          pc,        \* where the operation in progress is
          op,        \* its object: [id, data]
          at,        \* place being written: [bank, addr]
          scan,      \* pack: address in the old sector
          k,         \* words of data written
          stray,     \* something was written outside the two sectors
          last,      \* id of the object saved last, or -1
          stored,    \* history: data last saved for each id, or None
          doubt,     \* history: saves cut by a power failure since the last good one
          before,    \* history: what each id read as when the call began
          writes, crashes, heapFaults

job  == <<op, at, scan, k>>
hist == <<stored, doubt, last>>
left == <<writes, crashes, heapFaults>>
vars == <<flash, pc, job, stray, hist, before, left>>

---------------------------------------------------------------------------
(* The searches.                                                           *)

\* get_addr_bscfg(false): the smallest number, the first sector on a tie.
Current == IF flash[1][0] < flash[0][0] THEN 1 ELSE 0
\* get_addr_bscfg(true): the largest number or a free one, the last on a tie.
NextBankCurrent == IF flash[1][0] < flash[0][0] \/ flash[1][0] = Free THEN 1 ELSE 0
NextBank == IF flash[1][0] > flash[0][0] \/ flash[1][0] = Free THEN 1 ELSE 0
Blank == \A b \in Banks : flash[b][0] = Free

\* The words an object takes; a header that cannot be one is skipped as the
\* largest object.
Span(w) == IF SizeOf(w) <= MaxObj THEN SizeOf(w) + 1 ELSE MaxObj + 1

\* The addresses of the headers from address a to end of the sector s, for each
\* a: the do-while walk that both searches share reads the first one in any case.
Walk(s, end) ==
  LET walk[a \in 1..(Bank + MaxObj + 1)] ==
        IF (a > 1 /\ a >= end) \/ s[a] = Free THEN {}
        ELSE {a} \cup walk[a + Span(s[a])]
  IN walk
Headers(s, end) == Walk(s, end)[1]

\* get_addr_fobj: header of the last object of the id, 0 when there is none.
Found(s, id) ==
  {a \in Headers(s, Bank - 1) : IdOf(s[a]) = id /\ SizeOf(s[a]) <= MaxObj}
FindFirst(s, id) ==
  IF Found(s, id) = {} THEN 0
  ELSE CHOOSE a \in Found(s, id) : \A x \in Found(s, id) : x >= a
Find(s, id) ==
  IF Found(s, id) = {} THEN 0
  ELSE CHOOSE a \in Found(s, id) : \A x \in Found(s, id) : x <= a

\* get_addr_fobj_save: the first free word, 0 when the object does not fit.
Ends(s, end) == {1} \cup {a + Span(s[a]) : a \in Headers(s, end)}
LastEnd(s, end) == CHOOSE a \in Ends(s, end) : \A x \in Ends(s, end) : x <= a
SaveAddrAnywhere(s, size) ==
  LET addr == LastEnd(s, Bank)
  IN IF addr < Bank /\ s[addr] = Free THEN addr ELSE 0
SaveAddr(s, size) ==
  LET end  == Bank - (size + 1)
      addr == LastEnd(s, end)
  IN IF addr < end /\ s[addr] = Free THEN addr ELSE 0

\* What flash_read_cfg gives for an id, with a buffer that is large enough.
ReadObj(s, id) ==
  LET a == Find(s, id)
  IN IF a = 0 THEN None ELSE [i \in 1..SizeOf(s[a]) |-> s[a + i]]
Lookup(id) == ReadObj(flash[Current], id)

---------------------------------------------------------------------------
Init ==
  /\ flash = [b \in Banks |-> [a \in 0..(Bank - 1) |-> Free]]
  /\ pc = "idle"
  /\ op = [id |-> -1, data |-> <<>>] /\ at = [bank |-> 0, addr |-> 0]
  /\ scan = 0 /\ k = 0 /\ stray = FALSE /\ last = -1
  /\ stored = [id \in Ids |-> None] /\ doubt = {}
  /\ before = [id \in Ids |-> None]
  /\ writes = Writes /\ crashes = Crashes /\ heapFaults = HeapFaults

\* _fwrite_word: programming clears bits.
Program(b, a, w) == flash' = [flash EXCEPT ![b][a] = BitAnd(@, w)]

Step(from, to) == pc = from /\ pc' = to

\* flash_write_cfg(ptr, id, size).
WriteCfg(id, data) ==
  /\ Step("idle", "start")
  /\ writes > 0 /\ writes' = writes - 1
  /\ op' = [id |-> id, data |-> data]
  /\ before' = [i \in Ids |-> Lookup(i)]
  /\ UNCHANGED <<flash, at, scan, k, stray, hist, crashes, heapFaults>>

\* The number of the first sector is written when both are blank; a read of
\* the settings does the same.
Format ==
  /\ Blank /\ pc \in {"idle", "start"}
  /\ Program(0, 0, Free - 1)
  /\ UNCHANGED <<pc, job, stray, hist, before, left>>

Done ==
  /\ stored' = [stored EXCEPT ![op.id] = op.data]
  /\ doubt' = {d \in doubt : d.id # op.id}
  /\ last' = op.id

\* The same data are not written again.
Identical ==
  /\ ~ Blank /\ Lookup(op.id) = op.data
  /\ Step("start", "idle")
  /\ Done
  /\ UNCHANGED <<flash, job, stray, before, left>>

AppendObj ==
  /\ ~ Blank /\ Lookup(op.id) # op.data
  /\ SaveAddr(flash[Current], Len(op.data)) # 0
  /\ Step("start", "head")
  /\ at' = [bank |-> Current, addr |-> SaveAddr(flash[Current], Len(op.data))]
  /\ UNCHANGED <<flash, op, scan, k, stray, hist, before, left>>

\* It does not fit: pack_cfg_fmem erases the other sector.
PackNeeded ==
  ~ Blank /\ Lookup(op.id) # op.data /\ SaveAddr(flash[Current], Len(op.data)) = 0

EraseNot ==
  /\ PackNeeded
  /\ Step("start", "copy")
  /\ at' = [bank |-> NextBank, addr |-> 1]
  /\ scan' = 1
  /\ UNCHANGED <<flash, op, k, stray, hist, before, left>>

Erase ==
  /\ PackNeeded
  /\ Step("start", "copy")
  /\ at' = [bank |-> NextBank, addr |-> 1]
  /\ scan' = 1
  /\ flash' = [flash EXCEPT ![NextBank] = [a \in 0..(Bank - 1) |-> Free]]
  /\ UNCHANGED <<op, k, stray, hist, before, left>>

\* malloc fails: -(FMEM_MEM_ERR) is 5, which the caller takes for an address;
\* header and data go to the start of the flash.
PackNoMemory ==
  /\ PackNeeded /\ heapFaults > 0 /\ heapFaults' = heapFaults - 1
  /\ Step("start", "idle")
  /\ stray' = TRUE
  /\ Done
  /\ UNCHANGED <<flash, job, before, writes, crashes>>

\* One turn of the copy loop.  An object of another id not copied yet is copied
\* from its last save, in the length of its first one, and word after word to
\* the same address wraddr.  The new sector is not current yet, so a power
\* failure between two of these words is one before or after the turn.
OldBank == 1 - at.bank
Scanning == pc = "copy" /\ scan < Bank - 2 /\ flash[OldBank][scan] # Free
CopyThis ==
  LET w == flash[OldBank][scan]
  IN IdOf(w) # op.id /\ SizeOf(w) <= MaxObj /\ Find(flash[at.bank], IdOf(w)) = 0

\* The word at a, which may lie past the sector: the second sector follows the
\* first one, and x is what a read past the end of the chip gives.
WordAt(b, a, x) ==
  CASE a < Bank            -> flash[b][a]
    [] a >= Bank /\ b = 0  -> flash[1][a - Bank]
    [] a >= Bank /\ b = 1  -> x

\* What the words of the object at from leave when they are programmed into one.
Overlaid(from, size, x) ==
  LET all[i \in 0..MaxObj] ==
        BitAnd(WordAt(OldBank, from + i, x), IF i = 0 THEN Free ELSE all[i - 1])
  IN all[size - 1]

Copy ==
  /\ Scanning
  /\ scan' = scan + Span(flash[OldBank][scan])
  /\ \/ /\ CopyThis
        /\ \E x \in Values :
             LET w == flash[OldBank][scan]
             IN Program(at.bank, at.addr, Overlaid(Find(flash[OldBank], IdOf(w)), Span(w), x))
     \/ ~ CopyThis /\ UNCHANGED flash
  /\ UNCHANGED <<pc, op, at, k, stray, hist, before, left>>

\* The new sector gets the next lower number: from now on it is current.
Commit ==
  /\ scan >= Bank - 2 \/ flash[OldBank][scan] = Free
  /\ Step("copy", "place")
  /\ Program(at.bank, 0, flash[OldBank][0] - 1)
  /\ UNCHANGED <<job, stray, hist, before, left>>

\* pack_cfg_fmem ends with get_addr_fobj_save; PackMakesRoom says it is never 0.
Place ==
  /\ SaveAddr(flash[at.bank], Len(op.data)) # 0
  /\ Step("place", "head")
  /\ at' = [at EXCEPT !.addr = SaveAddr(flash[at.bank], Len(op.data))]
  /\ UNCHANGED <<flash, op, scan, k, stray, hist, before, left>>

WriteHead ==
  /\ Step("head", "data")
  /\ Program(at.bank, at.addr, FobjHead(op.id, Len(op.data)))
  /\ k' = 0
  /\ UNCHANGED <<op, at, scan, stray, hist, before, left>>

WriteData ==
  /\ pc = "data" /\ k < Len(op.data)
  /\ Program(at.bank, at.addr + k + 1, op.data[k + 1])
  /\ k' = k + 1
  /\ UNCHANGED <<pc, op, at, scan, stray, hist, before, left>>

Return ==
  /\ k = Len(op.data)
  /\ Step("data", "idle")
  /\ Done
  /\ UNCHANGED <<flash, job, stray, before, left>>

\* Power fails and the device starts again: the flash keeps what was written.
Crash ==
  /\ crashes > 0 /\ crashes' = crashes - 1
  /\ pc # "idle" /\ pc' = "idle"
  /\ doubt' = doubt \cup {op}
  /\ UNCHANGED <<flash, job, stray, stored, last, before, writes, heapFaults>>

Next ==
  \/ \E id \in Ids, data \in Object : WriteCfg(id, data)
  \/ Format \/ Identical \/ AppendObj \/ Erase \/ PackNoMemory \/ Copy \/ Commit
  \/ Place \/ WriteHead \/ WriteData \/ Return \/ Crash

Spec == Init /\ [][Next]_vars

---------------------------------------------------------------------------
(* Properties.                                                             *)

\* Types; an object is never written past its sector, and the scan of a pack
\* stays within one object of its end.
TypeOK ==
  /\ flash \in [Banks -> [0..(Bank - 1) -> 0..Free]]
  /\ pc \in {"idle", "start", "copy", "place", "head", "data"}
  /\ op.id \in Ids \cup {-1} /\ op.data \in Object
  /\ at.bank \in Banks /\ at.addr \in 0..(Bank - 1)
  /\ pc \in {"head", "data"} => at.addr + Len(op.data) < Bank
  /\ k \in 0..MaxObj /\ scan \in 0..(Bank + MaxObj) /\ stray \in BOOLEAN
  /\ \A d \in doubt : d.id \in Ids /\ d.data \in Object
  /\ last \in Ids \cup {-1}

\* Every object saved reads back as it was saved last, whatever was saved or
\* cut short for the other ids since.
Durable ==
  pc = "idle" => \A id \in Ids :
    (\A d \in doubt : d.id # id) => Lookup(id) = stored[id]

\* The same, as long as the first sector is in use: the number of the current
\* sector says whether a pack has taken place.
DurableUntilPack ==
  ~ stray /\ flash[Current][0] >= Free - 1 => Durable

\* While no save was cut short and no pack ran out of memory, the object of the
\* last call that returned reads back as saved, whether that call packed or not.
LastSaveReadable ==
  pc = "idle" /\ last # -1 /\ doubt = {} /\ ~ stray => Lookup(last) = stored[last]

\* Until the new sector is numbered, a pack is invisible: every id still reads
\* as before the call, so power may fail at any moment of the copy.
PackInvisible == pc = "copy" => \A id \in Ids : Lookup(id) = before[id]

\* After a pack the object that did not fit fits.
PackMakesRoom == pc = "place" => SaveAddr(flash[at.bank], Len(op.data)) # 0
=============================================================================
