---------------------------- MODULE UndoLogProofs -----------------------------
(***************************************************************************)
(* UndoLog for every device, block size, set of buffers and size of the    *)
(* log.  The inductive invariant says of every byte where its original     *)
(* value is: during the installation, in the first entry of the log that   *)
(* covers it or, if none does, on the device; while the log is applied, in *)
(* the last entry that is still to come or, if none is, on the device.     *)
(***************************************************************************)
EXTENDS UndoLog, TLAPS

Installing == pc \in {"install", "read", "save", "write"} /\ ~uninstalling

SpanOf(e) == Span(e.loc, e.count)
CoveredBy(log, a) == \E i \in 1 .. Len(log) : a \in SpanOf(log[i])

\* The part of the buffer that the write in progress has replaced.
Done == IF pc = "write" THEN Span(buf.loc, progress) ELSE {}

Flags ==
  /\ cache_dirty \in BOOLEAN /\ uninstalling \in BOOLEAN /\ retry \in BOOLEAN
  /\ print_write_fail \in BOOLEAN /\ print_cache_flush_fail \in BOOLEAN /\ gaveUp \in BOOLEAN

TypeOK ==
  /\ Flags
  /\ disk \in [Bytes -> Values] /\ cache \in [Bytes -> Values] /\ content \in [Bytes -> Values]
  /\ cached_block \in Int /\ uninstall_data \in Seq(Entries)
  /\ pc \in {"install", "read", "save", "write", "cleanup", "undo", "retry", "shell"}
  /\ buf \in Entries /\ progress \in 0 .. buf.count
  /\ index \in Nat \ {0}
  /\ file.count \in Nat /\ file.entries \in Seq(Entries)

\* Which states of the process go together.
Control ==
  /\ pc \in {"install", "read", "save", "cleanup"} => ~uninstalling
  /\ pc \in {"undo", "retry"} => uninstalling
  /\ Installing => torn = {} /\ ~gaveUp
  /\ print_write_fail /\ uninstalling => gaveUp
  /\ pc \in {"write", "retry"} /\ uninstalling =>
       index <= Len(uninstall_data) /\ buf = uninstall_data[index]
  /\ load_uninstall_data =>
       /\ pc = "shell" \/ uninstalling
       /\ torn = {} /\ uninstall_data = file.entries
  /\ status = "restored" => pc = "shell"

\* A clean cache holds the block it passes for.
CleanCache ==
  Installing \/ (uninstalling /\ pc \in {"undo", "write"} /\ ~print_write_fail) =>
    (~cache_dirty => \A a \in Bytes : Block(a) = cached_block => cache[a] = disk[a])

\* What _device_write has saved, where no earlier entry has it.
SavedOriginal ==
  /\ pc \in {"read", "save"} => saved \in [Span(buf.loc, progress) -> Values]
  /\ pc = "write" /\ ~uninstalling => saved \in [SpanOf(buf) -> Values]
  /\ Installing /\ pc # "install" =>
       \A a \in DOMAIN saved : ~Covered(a) => saved[a] = Original[a]

FirstRestores(log) ==
  \A i \in 1 .. Len(log) : \A a \in SpanOf(log[i]) :
    (\A j \in 1 .. Len(log) : j < i => a \notin SpanOf(log[j])) => log[i].data[a] = Original[a]

LastRestores(log) ==
  \A i \in 1 .. Len(log) : \A a \in SpanOf(log[i]) :
    (\A j \in 1 .. Len(log) : j > i => a \notin SpanOf(log[j])) => log[i].data[a] = Original[a]

\* The log has the original bytes.
LogOriginal ==
  /\ Installing \/ pc = "cleanup" => FirstRestores(uninstall_data)
  /\ uninstalling \/ (pc = "shell" /\ load_uninstall_data) => LastRestores(uninstall_data)

\* The device, with what the cache has still to write.
View(a) == IF cache_dirty /\ Block(a) = cached_block THEN cache[a] ELSE disk[a]

\* Bytes that no entry covers still have their original values.
UncoveredOriginal ==
  \A a \in Bytes : ~Covered(a) =>
    /\ Installing /\ a \notin Done => disk[a] = Original[a] /\ Logical(a) = Original[a]
    /\ pc = "cleanup" /\ a \notin torn => disk[a] = Original[a]
    /\ (uninstalling \/ (pc = "shell" /\ load_uninstall_data)) /\ ~gaveUp /\ a \notin torn =>
         disk[a] = Original[a]
    /\ uninstalling /\ pc # "shell" /\ ~gaveUp /\ a \notin torn => View(a) = Original[a]

\* Some entry that is still to be applied, or the rest of this one, covers a.
Remaining(a) ==
  \E j \in 1 .. Len(uninstall_data) :
    /\ a \in SpanOf(uninstall_data[j])
    /\ j > index \/ (j = index /\ a \notin Done)

\* Bytes that are covered, but by no entry that is still to be applied, are restored.
AppliedOriginal ==
  uninstalling /\ pc # "shell" /\ ~print_write_fail /\ ~print_cache_flush_fail =>
    \A a \in Bytes : Covered(a) /\ ~Remaining(a) => View(a) = Original[a]

IInv ==
  /\ TypeOK /\ Control /\ CleanCache /\ SavedOriginal /\ CacheCoherent
  /\ LogOriginal /\ UncoveredOriginal /\ AppliedOriginal /\ RestoresOriginal

-------------------------------------------------------------------------------
\* What an entry of the log consists of.
LEMMA EntryType ==
  ASSUME NEW e \in Entries
  PROVE  /\ e.loc \in Nat /\ e.count \in Nat /\ e.loc + e.count <= Top
         /\ e.data \in [SpanOf(e) -> Values]
         /\ SpanOf(e) \subseteq Bytes
  BY DeviceAssumption DEF Entries, Span, SpanOf, Bytes

\* Data for the bytes of an entry makes an entry.
LEMMA EntryData ==
  ASSUME NEW e \in Entries, NEW d \in [SpanOf(e) -> Values]
  PROVE  [loc |-> e.loc, count |-> e.count, data |-> d] \in Entries
<1>1. e.loc \in 0 .. Top /\ e.count \in 0 .. (Top - e.loc)
  BY EntryType, DeviceAssumption
<1>2. [loc |-> e.loc, count |-> e.count, data |-> d]
        \in [loc : {e.loc}, count : {e.count}, data : [Span(e.loc, e.count) -> Values]]
  BY Zenon DEF SpanOf
<1> QED BY <1>2 DEF Entries

\* The bytes from p to the end of its block are in the block of p.
LEMMA SameBlock ==
  ASSUME NEW p \in Nat, NEW d \in Nat, d < block_size - (p % block_size)
  PROVE  Block(p + d) = Block(p)
<1> DEFINE q == p \div block_size
           r == p % block_size
<1>1. q \in Nat /\ r \in Nat /\ p = block_size * q + r /\ r < block_size
  BY DeviceAssumption
<1>2. p + d = block_size * q + (r + d) /\ r + d \in Nat /\ r + d < block_size
  BY DeviceAssumption
<1>3. (p + d) \div block_size = q
  BY DeviceAssumption
<1> QED BY <1>3, Zenon DEF Block

\* A chunk is not empty, stays in the buffer, and lies in one block.
LEMMA ChunkFacts ==
  ASSUME TypeOK, Transferring
  PROVE  /\ Chunk \in Nat \ {0} /\ progress + Chunk <= buf.count
         /\ \A a : InChunk(a) => a \in SpanOf(buf) /\ Block(a) = Needed
<1>1. buf.loc \in Nat /\ buf.count \in Nat /\ progress \in Nat /\ progress < buf.count
  BY EntryType DEF TypeOK, Transferring
<1>2. (buf.loc + progress) % block_size \in 0 .. (block_size - 1)
  BY <1>1, DeviceAssumption
<1>3. Chunk \in Nat \ {0} /\ progress + Chunk <= buf.count
  BY <1>1, DeviceAssumption DEF Chunk
<1>4. ASSUME NEW a, InChunk(a) PROVE a \in SpanOf(buf) /\ Block(a) = Needed
  <2>1. a \in SpanOf(buf)
    BY <1>1, <1>3, <1>4 DEF InChunk, Span, SpanOf
  <2> DEFINE p == buf.loc + progress
             d == a - p
  <2>2. p \in Nat /\ d \in Nat /\ p + d = a /\ d < Chunk
    BY <1>1, <1>3, <1>4 DEF InChunk, Span
  <2>3. Chunk <= block_size - (p % block_size)
    BY <1>1, DeviceAssumption DEF Chunk
  <2>4. d < block_size - (p % block_size)
    BY <1>3, <2>2, <2>3, DeviceAssumption
  <2> QED BY <2>1, <2>2, <2>4, SameBlock, Zenon DEF Needed
<1> QED BY <1>3, <1>4, Zenon

\* The number of a block is never that of no block.
LEMMA BlockNat == \A a \in Bytes : Block(a) \in Nat
  BY DeviceAssumption DEF Bytes, Block

\* The empty buffer that a process starts with.
LEMMA NoBufferType == NoBuffer \in Entries /\ NoBuffer.count = 0 /\ NoBuffer.loc = 0
<1>1. Nothing \in [Span(0, 0) -> Values]
  BY DEF Nothing, Span
<1> QED BY <1>1, DeviceAssumption DEF NoBuffer, Entries

\* The reversed log has the same entries, from the last to the first.
LEMMA ReverseType ==
  ASSUME uninstall_data \in Seq(Entries)
  PROVE  /\ reverse_uninstall_data \in Seq(Entries)
         /\ Len(reverse_uninstall_data) = Len(uninstall_data)
         /\ \A i \in 1 .. Len(uninstall_data) :
              reverse_uninstall_data[i] = uninstall_data[Len(uninstall_data) - i + 1]
  BY DEF reverse_uninstall_data

\* It covers the same bytes, and what the first entry had, the last has now.
LEMMA ReverseRestores ==
  ASSUME uninstall_data \in Seq(Entries)
  PROVE  /\ \A a : CoveredBy(reverse_uninstall_data, a) <=> CoveredBy(uninstall_data, a)
         /\ FirstRestores(uninstall_data) => LastRestores(reverse_uninstall_data)
<1> DEFINE n == Len(uninstall_data)
           rev == reverse_uninstall_data
<1>1. n \in Nat /\ Len(rev) = n /\ \A i \in 1 .. n : rev[i] = uninstall_data[n - i + 1]
  BY ReverseType
<1>2. \A i \in 1 .. n : n - i + 1 \in 1 .. n /\ uninstall_data[i] = rev[n - i + 1]
  <2> TAKE i \in 1 .. n
  <2>1. n - i + 1 \in 1 .. n /\ n - (n - i + 1) + 1 = i
    OBVIOUS
  <2> QED BY <1>1, <2>1, Zenon
<1>3. ASSUME NEW a PROVE CoveredBy(rev, a) <=> CoveredBy(uninstall_data, a)
  BY <1>1, <1>2, Zenon DEF CoveredBy
<1>4. ASSUME FirstRestores(uninstall_data) PROVE LastRestores(rev)
  <2> SUFFICES ASSUME NEW i \in 1 .. n, NEW a \in SpanOf(rev[i]),
                      \A j \in 1 .. n : j > i => a \notin SpanOf(rev[j])
               PROVE  rev[i].data[a] = Original[a]
    BY <1>1, Zenon DEF LastRestores
  <2>1. \A j \in 1 .. n : j < n - i + 1 => a \notin SpanOf(uninstall_data[j])
    <3> SUFFICES ASSUME NEW j \in 1 .. n, j < n - i + 1 PROVE a \notin SpanOf(uninstall_data[j])
      BY Zenon
    <3>1. n - j + 1 > i
      OBVIOUS
    <3> QED BY <1>2
  <2>2. n - i + 1 \in 1 .. n /\ a \in SpanOf(uninstall_data[n - i + 1])
    BY <1>2
  <2> QED BY <1>1, <1>4, <2>1, <2>2, Zenon DEF FirstRestores
<1> QED BY <1>3, <1>4, Zenon

\* The invariant holds when bios_install starts.
LEMMA InitIInv == Init => IInv
<1> SUFFICES ASSUME Init PROVE IInv
  BY Zenon
<1>1. TypeOK
  <2>1. Flags
    BY Zenon DEF Init, Flags
  <2>2. buf \in Entries /\ buf.count = 0
    BY NoBufferType, Zenon DEF Init
  <2>3. file.count \in Nat /\ file.entries \in Seq(Entries)
    BY DEF Init, NoFile
  <2> QED BY <2>1, <2>2, <2>3, DeviceAssumption DEF Init, TypeOK
<1> QED
  BY <1>1 DEF Init, IInv, Control, CleanCache, SavedOriginal, CacheCoherent, LogOriginal,
     FirstRestores, UncoveredOriginal, Logical, AppliedOriginal, RestoresOriginal,
     load_uninstall_data, NoFile

\* Every step keeps the flags Boolean.
LEMMA FlagsStep ==
  ASSUME Flags, [Next]_vars
  PROVE  Flags'
<1> USE DEF cacheVars, loopVars, history
<1>1. CASE WriteBack
  BY <1>1, Zenon DEF Flags, WriteBack, Flush
<1>2. CASE WriteBackFails
  BY <1>2, Zenon DEF Flags, WriteBackFails, Fail, NextEntry
<1>3. CASE Fetch
  BY <1>3, Zenon DEF Flags, Fetch
<1>4. CASE FetchFails
  BY <1>4, Zenon DEF Flags, FetchFails, Fail, NextEntry
<1>5. CASE ReadChunk
  BY <1>5, Zenon DEF Flags, ReadChunk
<1>6. CASE WriteChunk
  BY <1>6, Zenon DEF Flags, WriteChunk
<1>7. CASE Transferred
  BY <1>7, Zenon DEF Flags, Transferred, NextEntry
<1>8. CASE Cleanup
  BY <1>8, Zenon DEF Flags, Cleanup, BeginUninstall, DropCache
<1>9. CASE UndoEntry
  BY <1>9, Zenon DEF Flags, UndoEntry
<1>10. CASE Retry
  BY <1>10, Zenon DEF Flags, Retry, DropCache
<1>11. CASE EndUninstall
  BY <1>11, Zenon DEF Flags, EndUninstall, Flush
<1>12. CASE GiveUp
  BY <1>12, Zenon DEF Flags, GiveUp
<1>13. CASE Finish
  BY <1>13, Zenon DEF Flags, Finish, Flush
<1>14. CASE UninstallMode
  BY <1>14, Zenon DEF Flags, UninstallMode, BeginUninstall, DropCache
<1>15. CASE UninstallRefused
  BY <1>15, Zenon DEF Flags, UninstallRefused
<1>16. CASE Kill
  BY <1>16, Zenon DEF Flags, Kill
<1>17. ASSUME NEW b \in Buffers, device_read(b) \/ device_write(b) PROVE Flags'
  BY <1>17, Zenon DEF Flags, device_read, device_write
<1>18. CASE UNCHANGED vars
  BY <1>18, Zenon DEF Flags, vars
<1> QED BY <1>1, <1>2, <1>3, <1>4, <1>5, <1>6, <1>7, <1>8, <1>9, <1>10, <1>11, <1>12, <1>13, <1>14, <1>15, <1>16, <1>17, <1>18, Zenon DEF Next, Run

\* Every step keeps the types.
LEMMA TypeStep ==
  ASSUME TypeOK, Control, SavedOriginal, [Next]_vars
  PROVE  TypeOK'
<1> USE DEF cacheVars, loopVars, history
<1>1. Flags'
  BY FlagsStep, Zenon DEF TypeOK
<1>2. CASE WriteBack
  BY <1>1, <1>2, Zenon DEF TypeOK, WriteBack, Flush, Flushed
<1>3. CASE WriteBackFails
  BY <1>1, <1>3 DEF TypeOK, WriteBackFails, FlushFails, Fail, NextEntry
<1>4. CASE Fetch
  <2>1. Needed \in Int
    BY <1>4, EntryType, DeviceAssumption, SMTT(20) DEF TypeOK, Needed, Block
  <2> QED BY <1>1, <1>4, <2>1, Zenon DEF TypeOK, Fetch
<1>5. CASE FetchFails
  BY <1>1, <1>5, DeviceAssumption DEF TypeOK, FetchFails, Fail, NextEntry
<1>6. CASE ReadChunk
  BY <1>1, <1>6, ChunkFacts DEF TypeOK, ReadChunk
<1>7. CASE WriteChunk
  <2>1. \A a \in Bytes : InChunk(a) => buf.data[a] \in Values
    BY <1>7, ChunkFacts, EntryType, Zenon DEF TypeOK, WriteChunk
  <2>2. cache' \in [Bytes -> Values] /\ content' \in [Bytes -> Values]
    BY <1>7, <2>1, Zenon DEF TypeOK, WriteChunk
  <2>3. progress' \in 0 .. buf.count
    BY <1>7, ChunkFacts DEF TypeOK, WriteChunk
  <2>4. UNCHANGED <<disk, cached_block, uninstall_data, pc, buf, index, file>>
    BY <1>7, Zenon DEF WriteChunk
  <2> QED BY <1>1, <2>2, <2>3, <2>4, Zenon DEF TypeOK
<1>8. CASE Transferred
  <2>1. uninstall_data' \in Seq(Entries)
    <3>1. CASE pc = "write" /\ ~uninstalling
      <4>1. saved \in [SpanOf(buf) -> Values]
        BY <3>1, Zenon DEF SavedOriginal
      <4>2. [loc |-> buf.loc, count |-> buf.count, data |-> saved] \in Entries
        BY <4>1, EntryData, Zenon DEF TypeOK
      <4>3. uninstall_data' = Append(uninstall_data, [loc |-> buf.loc, count |-> buf.count, data |-> saved])
        BY <1>8, <3>1, Zenon DEF Transferred
      <4> QED BY <4>2, <4>3 DEF TypeOK
    <3>2. CASE ~(pc = "write" /\ ~uninstalling)
      BY <1>8, <3>2, Zenon DEF TypeOK, Transferred
    <3> QED BY <3>1, <3>2, Zenon
  <2>2. progress' \in 0 .. buf'.count /\ buf' \in Entries
    BY <1>8, EntryType DEF TypeOK, Transferred
  <2> QED BY <1>1, <1>8, <2>1, <2>2 DEF TypeOK, Transferred, NextEntry
<1>9. CASE Cleanup
  BY <1>1, <1>9, ReverseType DEF TypeOK, Cleanup, BeginUninstall, DropCache, NoBlock
<1>10. CASE UndoEntry
  BY <1>1, <1>10, EntryType DEF TypeOK, UndoEntry, Start
<1>11. CASE Retry
  <2>1. disk' \in [Bytes -> Values]
    BY <1>11, Zenon DEF TypeOK, Retry, Flush, FlushFails, Flushed
  <2>2. cached_block' \in Int /\ progress' \in 0 .. buf.count /\ pc' = "write"
    BY <1>11, EntryType DEF TypeOK, Retry, DropCache, NoBlock
  <2>3. UNCHANGED <<cache, content, uninstall_data, buf, index, file>>
    BY <1>11, Zenon DEF Retry, DropCache
  <2> QED BY <1>1, <2>1, <2>2, <2>3, Zenon DEF TypeOK
<1>12. CASE EndUninstall
  <2>1. disk' \in [Bytes -> Values]
    BY <1>12, Zenon DEF TypeOK, EndUninstall, Flush, FlushFails, Flushed
  <2>2. buf' \in Entries /\ progress' \in 0 .. buf'.count /\ pc' = "shell"
    BY <1>12, NoBufferType DEF EndUninstall, Exit
  <2>3. UNCHANGED <<cache, cached_block, content, uninstall_data, index, file>>
    BY <1>12, Zenon DEF EndUninstall
  <2> QED BY <1>1, <2>1, <2>2, <2>3, Zenon DEF TypeOK
<1>13. ASSUME NEW b \in Buffers, device_read(b) \/ device_write(b) PROVE TypeOK'
  BY <1>1, <1>13, EntryType, DeviceAssumption DEF TypeOK, device_read, device_write, Start
<1>14. CASE GiveUp
  BY <1>1, <1>14, Zenon DEF TypeOK, GiveUp
<1>15. CASE Finish
  <2>1. \A n \in 0 .. Len(uninstall_data) : SubSeq(reverse_uninstall_data, 1, n) \in Seq(Entries)
    BY ReverseType DEF TypeOK
  <2>2. file'.count \in Nat /\ file'.entries \in Seq(Entries)
    <3>1. CASE UNCHANGED file
      BY <3>1, Zenon DEF TypeOK
    <3>2. ASSUME NEW n \in 0 .. Len(uninstall_data),
                 file' = [count |-> Len(uninstall_data), entries |-> SubSeq(reverse_uninstall_data, 1, n)]
          PROVE  file'.count \in Nat /\ file'.entries \in Seq(Entries)
      BY <2>1, <3>2
    <3> QED BY <1>15, <3>1, <3>2, Zenon DEF Finish
  <2>3. disk' \in [Bytes -> Values]
    BY <1>15, Zenon DEF TypeOK, Finish, Flush, FlushFails, Flushed
  <2>4. \/ UNCHANGED <<uninstall_data, buf, progress>> /\ pc' = "cleanup"
        \/ /\ uninstall_data' = reverse_uninstall_data
           /\ buf' = NoBuffer /\ progress' = 0 /\ pc' = "shell"
    BY <1>15, Zenon DEF Finish, Exit
  <2>5. buf' \in Entries /\ progress' \in 0 .. buf'.count /\ uninstall_data' \in Seq(Entries)
    BY <2>4, NoBufferType, ReverseType DEF TypeOK
  <2>6. UNCHANGED <<cache, cached_block, content, index>>
    BY <1>15, Zenon DEF Finish
  <2> QED BY <1>1, <2>2, <2>3, <2>4, <2>5, <2>6, Zenon DEF TypeOK
<1>16. CASE UninstallMode \/ UninstallRefused
  BY <1>1, <1>16 DEF TypeOK, UninstallMode, UninstallRefused, BeginUninstall, DropCache, NoBlock
<1>17. CASE Kill
  BY <1>1, <1>17, NoBufferType DEF TypeOK, Kill, Exit
<1>18. CASE UNCHANGED vars
  BY <1>1, <1>18, Zenon DEF TypeOK, vars
<1> QED
  BY <1>2, <1>3, <1>4, <1>5, <1>6, <1>7, <1>8, <1>9, <1>10, <1>11, <1>12, <1>13, <1>14, <1>15,
     <1>16, <1>17, <1>18, Zenon DEF Next, Run

-------------------------------------------------------------------------------
\* The steps of a transfer, limine/limine.c:266-312 and 441-518.


\* device_flush_cache: writing a block back changes where its bytes are, not what they are.
LEMMA WriteBackStep ==
  ASSUME IInv, WriteBack, TypeOK'
  PROVE  IInv'
<1> USE DEF cacheVars, loopVars, history
<1> USE DEF IInv
<1>1. Control'
  BY Zenon DEF WriteBack, Control, Installing, load_uninstall_data
<1>2. CleanCache'
  BY Zenon DEF WriteBack, Flush, Flushed, CleanCache
<1>3. SavedOriginal'
  BY Zenon DEF WriteBack, SavedOriginal, Installing, Covered
<1>4. CacheCoherent'
  BY Zenon DEF WriteBack, Flush, Flushed, CacheCoherent, Logical
<1>5. LogOriginal'
  BY Zenon DEF WriteBack, Missing, Transferring, LogOriginal, Installing
<1>6. UncoveredOriginal'
  BY Zenon DEF WriteBack, Flush, Flushed, Missing, Transferring, UncoveredOriginal, Covered, Installing,
     Done, Logical, View
<1>7. AppliedOriginal'
  BY Zenon DEF WriteBack, Flush, Flushed, AppliedOriginal, Covered, Remaining, Done, View
<1>8. RestoresOriginal'
  BY Zenon DEF WriteBack, Missing, Transferring, Control, RestoresOriginal
<1> QED BY <1>1, <1>2, <1>3, <1>4, <1>5, <1>6, <1>7, <1>8, Zenon

\* A write back that fails leaves any mixture of old and new bytes in the block.
LEMMA WriteBackFailsStep ==
  ASSUME IInv, WriteBackFails, TypeOK'
  PROVE  IInv'
<1> USE DEF cacheVars, loopVars, history
<1> USE DEF IInv
<1>1. Control'
  BY DEF WriteBackFails, Fail, NextEntry, Missing, Transferring, Control, Installing, load_uninstall_data
<1>2. CleanCache'
  BY Zenon DEF WriteBackFails, FlushFails, CleanCache
<1>3. SavedOriginal'
  BY Zenon DEF WriteBackFails, Fail, NextEntry, SavedOriginal, Installing
<1>4. CacheCoherent'
  BY Zenon DEF WriteBackFails, Fail, CacheCoherent
<1>5. LogOriginal'
  BY Zenon DEF WriteBackFails, Fail, NextEntry, Missing, Transferring, LogOriginal, Installing
<1>6. UncoveredOriginal'
  BY DEF WriteBackFails, FlushFails, Fail, NextEntry, Missing, Transferring, UncoveredOriginal,
     Covered, Installing, Done, Logical, View
<1>7. AppliedOriginal'
  <2> SUFFICES ASSUME uninstalling, pc' = "retry", pc = "write", ~print_write_fail, ~print_cache_flush_fail,
                      NEW a \in Bytes, Covered(a), ~Remaining(a)'
               PROVE  View(a)' = Original[a]
    BY DEF WriteBackFails, Fail, Missing, Transferring, Control, AppliedOriginal, Covered
  <2>1. ~Remaining(a)
    BY Zenon DEF Remaining, Done, WriteBackFails, Fail, NextEntry
  <2>2. View(a)' = View(a)
    BY Zenon DEF View, WriteBackFails, FlushFails
  <2> QED BY <2>1, <2>2, Zenon DEF AppliedOriginal
<1>8. RestoresOriginal'
  BY Zenon DEF WriteBackFails, Missing, Transferring, Control, RestoresOriginal
<1> QED BY <1>1, <1>2, <1>3, <1>4, <1>5, <1>6, <1>7, <1>8, Zenon

\* The read in device_cache_block replaces a clean block.
LEMMA FetchStep ==
  ASSUME IInv, Fetch, TypeOK'
  PROVE  IInv'
<1> USE DEF cacheVars, loopVars, history
<1> USE DEF IInv
<1>1. Control'
  BY Zenon DEF Fetch, Control, Installing, load_uninstall_data
<1>2. CleanCache'
  BY Zenon DEF Fetch, CleanCache
<1>3. SavedOriginal'
  BY Zenon DEF Fetch, SavedOriginal, Installing, Covered
<1>4. CacheCoherent'
  BY Zenon DEF Fetch, CleanCache, CacheCoherent, Installing, Logical
<1>5. LogOriginal'
  BY Zenon DEF Fetch, LogOriginal, Installing, load_uninstall_data
<1>6. UncoveredOriginal'
  BY Zenon DEF Fetch, UncoveredOriginal, Covered, Installing, Done, Logical, View, load_uninstall_data
<1>7. AppliedOriginal'
  <2>1. ASSUME NEW a \in Bytes PROVE View(a)' = View(a) /\ (Remaining(a)' <=> Remaining(a)) /\ (Covered(a)' <=> Covered(a))
    BY Zenon DEF Fetch, View, Remaining, Done, Covered
  <2> QED BY <2>1, Zenon DEF AppliedOriginal, Fetch
<1>8. RestoresOriginal'
  BY Zenon DEF Fetch, Missing, Transferring, Control, RestoresOriginal
<1> QED BY <1>1, <1>2, <1>3, <1>4, <1>5, <1>6, <1>7, <1>8, Zenon

\* A read that fails leaves junk in the cache: the process goes on to undo, or to its retry.
LEMMA FetchFailsStep ==
  ASSUME IInv, FetchFails, TypeOK'
  PROVE  IInv'
<1> USE DEF cacheVars, loopVars, history
<1> USE DEF IInv
<1>1. Control'
  BY DEF FetchFails, Fail, NextEntry, Missing, Transferring, Control, Installing, load_uninstall_data
<1>2. CleanCache'
  BY Zenon DEF FetchFails, Fail, CleanCache, Installing
<1>3. SavedOriginal'
  BY Zenon DEF FetchFails, Fail, NextEntry, SavedOriginal, Installing
<1>4. CacheCoherent'
  BY Zenon DEF FetchFails, Fail, CacheCoherent
<1>5. LogOriginal'
  BY Zenon DEF FetchFails, Fail, NextEntry, Missing, Transferring, LogOriginal, Installing
<1>6. UncoveredOriginal'
  BY DEF FetchFails, Fail, NextEntry, Missing, Transferring, UncoveredOriginal, Covered,
     Installing, Done, View
<1>7. AppliedOriginal'
  BY DEF FetchFails, Fail, Missing, Transferring, AppliedOriginal, Covered, Remaining, Done, View
<1>8. RestoresOriginal'
  BY Zenon DEF FetchFails, Missing, Transferring, Control, RestoresOriginal
<1> QED BY <1>1, <1>2, <1>3, <1>4, <1>5, <1>6, <1>7, <1>8, Zenon

\* The copy in _device_read: what is saved is original, where no entry covers it.
LEMMA ReadChunkStep ==
  ASSUME IInv, ReadChunk, TypeOK'
  PROVE  IInv'
<1> USE DEF cacheVars, loopVars, history
<1> USE DEF IInv
<1>1. Control'
  BY Zenon DEF ReadChunk, Control, Installing, load_uninstall_data
<1>2. CleanCache'
  BY Zenon DEF ReadChunk, CleanCache, Installing
<1>3. SavedOriginal'
  <2>1. Transferring /\ Needed = cached_block /\ pc \in {"read", "save"} /\ pc' = pc /\ buf' = buf
    BY Zenon DEF ReadChunk, Missing
  <2>2. /\ Chunk \in Nat \ {0} /\ progress \in Nat /\ buf.loc \in Nat
        /\ \A a : InChunk(a) => a \in Bytes /\ Block(a) = cached_block
    BY <2>1, ChunkFacts, EntryType, SMTT(20) DEF TypeOK
  <2>3. \A a \in Span(buf.loc, progress + Chunk) : InChunk(a) \/ a \in Span(buf.loc, progress)
    BY <2>2 DEF InChunk, Span
  <2>4. saved \in [Span(buf.loc, progress) -> Values]
    BY <2>1, Zenon DEF SavedOriginal
  <2>5. saved' \in [Span(buf.loc, progress + Chunk) -> Values] /\ progress' = progress + Chunk
    BY <2>2, <2>3, <2>4, Zenon DEF ReadChunk, TypeOK
  <2>6. \A a \in Bytes : Block(a) = cached_block /\ ~Covered(a) => cache[a] = Original[a]
    BY <2>1, Zenon DEF UncoveredOriginal, Installing, Control, Logical, Done
  <2>7. \A a \in DOMAIN saved' : ~Covered(a) => saved'[a] = Original[a]
    BY <2>2, <2>3, <2>6, Zenon DEF ReadChunk, SavedOriginal, Installing, Control
  <2> QED BY <2>5, <2>7, Zenon DEF SavedOriginal, Covered, ReadChunk
<1>4. CacheCoherent'
  BY Zenon DEF ReadChunk, CacheCoherent, Logical
<1>5. LogOriginal'
  BY Zenon DEF ReadChunk, LogOriginal, Installing
<1>6. UncoveredOriginal'
  BY Zenon DEF ReadChunk, UncoveredOriginal, Covered, Installing, Done, Logical, View
<1>7. AppliedOriginal'
  BY Zenon DEF ReadChunk, Control, AppliedOriginal
<1>8. RestoresOriginal'
  BY Zenon DEF ReadChunk, RestoresOriginal, Covered
<1> QED BY <1>1, <1>2, <1>3, <1>4, <1>5, <1>6, <1>7, <1>8, Zenon

\* The copy in _device_write: during the installation it replaces bytes that have been
\* saved, and while the log is applied it brings bytes of the current entry back.
LEMMA WriteChunkStep ==
  ASSUME IInv, WriteChunk, TypeOK'
  PROVE  IInv'
<1> USE DEF cacheVars, loopVars, history
<1> USE DEF IInv
<1>1. Control'
  BY Zenon DEF WriteChunk, Control, Installing, load_uninstall_data
<1>2. CleanCache'
  BY Zenon DEF WriteChunk, CleanCache
<1>3. SavedOriginal'
  BY Zenon DEF WriteChunk, SavedOriginal, Installing, Covered
<1>4. CacheCoherent'
  BY ChunkFacts, Zenon DEF WriteChunk, Missing, CacheCoherent, Logical
<1>5. LogOriginal'
  BY Zenon DEF WriteChunk, LogOriginal, Installing
<1>6. UncoveredOriginal'
  <2>1. /\ Transferring /\ Needed = cached_block /\ pc = "write" /\ pc' = pc /\ buf' = buf
        /\ progress' = progress + Chunk /\ disk' = disk /\ cached_block' = cached_block /\ cache_dirty'
        /\ uninstalling' = uninstalling /\ torn' = torn /\ gaveUp' = gaveUp
    BY Zenon DEF WriteChunk, Missing
  <2> SUFFICES ASSUME NEW a \in Bytes, ~Covered(a)
               PROVE  /\ Installing /\ a \notin Done' => disk[a] = Original[a] /\ Logical(a)' = Original[a]
                      /\ uninstalling /\ ~gaveUp /\ a \notin torn => disk[a] = Original[a] /\ View(a)' = Original[a]
    BY Zenon DEF UncoveredOriginal, Covered, Installing, WriteChunk
  <2>2. Chunk \in Nat \ {0} /\ progress \in Nat /\ buf.loc \in Nat
    BY <2>1, ChunkFacts, EntryType DEF TypeOK
  <2>3. ASSUME Installing, a \notin Done' PROVE disk[a] = Original[a] /\ Logical(a)' = Original[a]
    <3>1. a \notin Done /\ ~InChunk(a)
      BY <2>1, <2>2, <2>3 DEF Done, InChunk, Span
    <3> QED BY <2>3, <3>1, Zenon DEF UncoveredOriginal, Logical, WriteChunk
  <2>4. ASSUME uninstalling, ~gaveUp, a \notin torn PROVE disk[a] = Original[a] /\ View(a)' = Original[a]
    <3>1. ~InChunk(a)
      <4>1. InChunk(a) => a \in SpanOf(uninstall_data[index])
        BY <2>1, <2>4, ChunkFacts, Zenon DEF Control
      <4>2. index \in 1 .. Len(uninstall_data)
        BY <2>1, <2>4 DEF Control, TypeOK
      <4> QED BY <4>1, <4>2, Zenon DEF Covered, SpanOf
    <3>2. disk[a] = Original[a] /\ View(a) = Original[a]
      BY <2>1, <2>4, Zenon DEF UncoveredOriginal
    <3>3. cache'[a] = cache[a]
      BY <3>1, Zenon DEF WriteChunk
    <3>4. ~cache_dirty /\ Block(a) = cached_block => cache[a] = disk[a]
      BY <2>1, <2>4, Zenon DEF CleanCache, Control
    <3> QED BY <2>1, <3>2, <3>3, <3>4, Zenon DEF View
  <2> QED BY <2>3, <2>4, Zenon
<1>7. AppliedOriginal'
  <2>1. /\ Transferring /\ Needed = cached_block /\ pc = "write" /\ pc' = pc /\ buf' = buf
        /\ progress' = progress + Chunk /\ disk' = disk /\ cached_block' = cached_block /\ cache_dirty'
        /\ uninstall_data' = uninstall_data /\ index' = index
    BY Zenon DEF WriteChunk, Missing
  <2> SUFFICES ASSUME uninstalling, ~print_write_fail, ~print_cache_flush_fail,
                      NEW a \in Bytes, Covered(a), ~Remaining(a)'
               PROVE  View(a)' = Original[a]
    BY Zenon DEF AppliedOriginal, Covered, WriteChunk
  <2>2. Chunk \in Nat \ {0} /\ progress \in Nat /\ buf.loc \in Nat
    BY <2>1, ChunkFacts, EntryType DEF TypeOK
  <2>3. CASE InChunk(a)
    <3>1. a \in SpanOf(uninstall_data[index]) /\ Block(a) = cached_block /\ index \in 1 .. Len(uninstall_data)
      BY <2>1, <2>3, ChunkFacts DEF Control, TypeOK
    <3>2. \A j \in 1 .. Len(uninstall_data) : j > index => a \notin SpanOf(uninstall_data[j])
      BY <2>1, Zenon DEF Remaining
    <3>3. uninstall_data[index].data[a] = Original[a]
      BY <3>1, <3>2, Zenon DEF LogOriginal, LastRestores
    <3> QED BY <2>3, <3>1, <3>3, Zenon DEF View, WriteChunk, Control
  <2>4. CASE ~InChunk(a)
    <3>1. ~Remaining(a)
      <4>1. a \in Done' => a \in Done
        BY <2>1, <2>2, <2>4 DEF Done, InChunk, Span
      <4> QED BY <2>1, <4>1, Zenon DEF Remaining
    <3>2. View(a) = Original[a] /\ cache'[a] = cache[a]
      BY <2>4, <3>1, Zenon DEF AppliedOriginal, WriteChunk
    <3>3. ~cache_dirty /\ Block(a) = cached_block => cache[a] = disk[a]
      BY <2>1, Zenon DEF CleanCache
    <3> QED BY <2>1, <3>2, <3>3, Zenon DEF View
  <2> QED BY <2>3, <2>4, Zenon
<1>8. RestoresOriginal'
  BY Zenon DEF WriteChunk, RestoresOriginal, Covered
<1> QED BY <1>1, <1>2, <1>3, <1>4, <1>5, <1>6, <1>7, <1>8, Zenon

\* The end of a transfer: the new entry of the log takes over what was saved.
LEMMA TransferredStep ==
  ASSUME IInv, Transferred, TypeOK'
  PROVE  IInv'
<1> USE DEF cacheVars, loopVars, history
<1> USE DEF IInv
<1>1. Control'
  BY DEF Transferred, NextEntry, Control, Installing, load_uninstall_data
<1>2. CleanCache'
  BY DEF Transferred, Control, CleanCache, Installing
<1>3. SavedOriginal'
  <2>1. CASE pc = "save"
    <3>1. pc' = "write" /\ UNCHANGED <<uninstall_data, buf, saved, uninstalling>>
      BY <2>1, Zenon DEF Transferred
    <3>2. progress = buf.count
      BY <2>1, EntryType DEF Transferred, TypeOK
    <3> QED BY <2>1, <3>1, <3>2, Zenon DEF SavedOriginal, SpanOf, Covered, Installing
  <2>2. CASE pc # "save"
    <3>1. pc' = "install" \/ (pc' = "undo" /\ uninstalling' = uninstalling /\ uninstalling)
      BY <2>2, Zenon DEF Transferred, NextEntry
    <3> QED BY <3>1, Zenon DEF SavedOriginal, Installing
  <2> QED BY <2>1, <2>2, Zenon
<1>4. CacheCoherent'
  BY Zenon DEF Transferred, CacheCoherent, Logical
<1>5. LogOriginal'
  <2>1. CASE pc = "write" /\ ~uninstalling
    <3> DEFINE e == [loc |-> buf.loc, count |-> buf.count, data |-> saved]
               n == Len(uninstall_data)
    <3>1. uninstall_data' = Append(uninstall_data, e) /\ pc' = "install" /\ uninstalling' = uninstalling /\ UNCHANGED file
      BY <2>1, Zenon DEF Transferred
    <3>2. Installing /\ ~load_uninstall_data
      BY <2>1, Zenon DEF Installing, Control
    <3>3. /\ Len(uninstall_data') = n + 1 /\ uninstall_data'[n + 1] = e
          /\ \A i \in 1 .. n : uninstall_data'[i] = uninstall_data[i]
      BY <3>1
    <3>4. SpanOf(e) = DOMAIN saved /\ e.data = saved
      BY <2>1, Zenon DEF SavedOriginal, SpanOf
    <3>5. FirstRestores(uninstall_data')
      <4> SUFFICES ASSUME NEW i \in 1 .. (n + 1), NEW a \in SpanOf(uninstall_data'[i]),
                          \A j \in 1 .. (n + 1) : j < i => a \notin SpanOf(uninstall_data'[j])
                   PROVE  uninstall_data'[i].data[a] = Original[a]
        BY <3>3, Zenon DEF FirstRestores
      <4>1. n \in Nat
        OBVIOUS
      <4>2. CASE i = n + 1
        <5>1. ~Covered(a)
          BY <3>3, <4>1, <4>2 DEF Covered, SpanOf
        <5> QED BY <2>1, <3>2, <3>3, <3>4, <4>2, <5>1, Zenon DEF SavedOriginal
      <4>3. CASE i \in 1 .. n
        BY <3>2, <3>3, <4>3 DEF LogOriginal, FirstRestores
      <4> QED BY <4>2, <4>3
    <3> QED BY <2>1, <3>1, <3>5, Zenon DEF LogOriginal
  <2>2. CASE ~(pc = "write" /\ ~uninstalling)
    <3>1. uninstall_data' = uninstall_data /\ UNCHANGED <<uninstalling, file>>
      BY <2>2, Zenon DEF Transferred
    <3> QED BY <3>1 DEF Transferred, NextEntry, LogOriginal, Installing
  <2> QED BY <2>1, <2>2, Zenon
<1>6. UncoveredOriginal'
  <2>1. UNCHANGED <<disk, cacheVars, uninstalling, file, torn, gaveUp>>
    BY Zenon DEF Transferred
  <2>2. CASE pc = "write" /\ ~uninstalling
    <3>1. uninstall_data' = Append(uninstall_data, [loc |-> buf.loc, count |-> buf.count, data |-> saved]) /\ pc' = "install"
      BY <2>2, Zenon DEF Transferred
    <3> DEFINE n == Len(uninstall_data)
    <3>4. /\ Len(uninstall_data') = n + 1 /\ n \in Nat
          /\ uninstall_data'[n + 1].loc = buf.loc /\ uninstall_data'[n + 1].count = buf.count
          /\ \A i \in 1 .. n : uninstall_data'[i] = uninstall_data[i]
      BY <3>1
    <3>2. \A a : ~Covered(a)' => ~Covered(a) /\ a \notin SpanOf(buf)
      BY <3>4 DEF Covered, SpanOf
    <3>3. Done = SpanOf(buf) /\ Done' = {}
      BY <3>1, EntryType DEF Done, Transferred, SpanOf, TypeOK
    <3> QED BY <2>1, <2>2, <3>2, <3>3, Zenon DEF UncoveredOriginal, Logical, Installing
  <2>3. CASE ~(pc = "write" /\ ~uninstalling)
    <3>1. uninstall_data' = uninstall_data
      BY <2>3, Zenon DEF Transferred
    <3>2. \A a : Covered(a)' <=> Covered(a)
      BY <3>1, Zenon DEF Covered
    <3>3. Done' = {} \/ uninstalling
      BY EntryType DEF Done, Transferred, Span, TypeOK
    <3>4. ~uninstalling => Done = {}
      BY <2>3, Zenon DEF Done
    <3> QED BY <3>2, <3>4, Zenon DEF UncoveredOriginal, Logical, View, Installing, Transferred, NextEntry
  <2> QED BY <2>2, <2>3, Zenon
<1>7. AppliedOriginal'
  <2> SUFFICES ASSUME uninstalling, ~print_write_fail, ~print_cache_flush_fail,
                      NEW a \in Bytes, Covered(a)', ~Remaining(a)'
               PROVE  View(a)' = Original[a]
    BY DEF AppliedOriginal, Transferred
  <2>1. pc = "write" /\ uninstall_data' = uninstall_data /\ index' = index + 1 /\ pc' = "undo"
    BY Zenon DEF Transferred, NextEntry, Control
  <2>2. Done = SpanOf(buf) /\ buf = uninstall_data[index] /\ Done' = {}
    BY <2>1, EntryType DEF Done, Transferred, SpanOf, TypeOK, Control
  <2>3. ~Remaining(a) /\ Covered(a)
    BY <2>1, <2>2 DEF Remaining, Covered, TypeOK
  <2> QED BY <2>3, Zenon DEF AppliedOriginal, View, Transferred
<1>8. RestoresOriginal'
  BY Zenon DEF Transferred, Control, RestoresOriginal
<1> QED BY <1>1, <1>2, <1>3, <1>4, <1>5, <1>6, <1>7, <1>8, Zenon

-------------------------------------------------------------------------------
\* The other steps of bios_install and of uninstall.


\* The start of uninstall after a failure: the log is reversed and the cache forgotten.
LEMMA CleanupStep ==
  ASSUME IInv, Cleanup, TypeOK'
  PROVE  IInv'
<1> USE DEF cacheVars, loopVars, history
<1> USE DEF IInv
<1>1. Control'
  BY Zenon DEF Cleanup, BeginUninstall, Control, Installing, load_uninstall_data
<1>2. CleanCache'
  BY BlockNat DEF Cleanup, BeginUninstall, DropCache, NoBlock, CleanCache
<1>3. SavedOriginal'
  BY Zenon DEF Cleanup, BeginUninstall, SavedOriginal, Installing
<1>4. CacheCoherent'
  BY Zenon DEF Cleanup, BeginUninstall, CacheCoherent
<1>5. LogOriginal'
  <2>1. uninstall_data' = reverse_uninstall_data /\ uninstalling' /\ pc' = "undo"
    BY Zenon DEF Cleanup, BeginUninstall
  <2>2. LastRestores(reverse_uninstall_data)
    BY ReverseRestores, Zenon DEF LogOriginal, Cleanup, TypeOK
  <2> QED BY <2>1, <2>2, Zenon DEF LogOriginal, Installing
<1>6. UncoveredOriginal'
  <2>1. uninstall_data' = reverse_uninstall_data
    BY Zenon DEF Cleanup, BeginUninstall
  <2>2. \A a : Covered(a)' <=> Covered(a)
    BY <2>1, ReverseRestores, Zenon DEF Covered, CoveredBy, SpanOf, TypeOK
  <2> QED BY <2>2, Zenon DEF Cleanup, BeginUninstall, DropCache, UncoveredOriginal, Installing, View
<1>7. AppliedOriginal'
  <2>1. /\ uninstall_data' = reverse_uninstall_data /\ pc' = "undo" /\ index' = 1
        /\ cache_dirty' = FALSE /\ disk' = disk
    BY Zenon DEF Cleanup, BeginUninstall, DropCache
  <2>2. \A a : Covered(a)' => Remaining(a)'
    BY <2>1 DEF Covered, Remaining, Done, SpanOf
  <2> QED BY <2>2, Zenon DEF AppliedOriginal
<1>8. RestoresOriginal'
  <2> QED BY Zenon DEF RestoresOriginal, Cleanup, Control
<1> QED BY <1>1, <1>2, <1>3, <1>4, <1>5, <1>6, <1>7, <1>8, Zenon

\* uninstall starts with an entry.
LEMMA UndoEntryStep ==
  ASSUME IInv, UndoEntry, TypeOK'
  PROVE  IInv'
<1> USE DEF cacheVars, loopVars, history
<1> USE DEF IInv
<1>1. Control'
  BY Zenon DEF UndoEntry, Start, Control, Installing, load_uninstall_data
<1>2. CleanCache'
  BY Zenon DEF UndoEntry, Control, CleanCache, Installing
<1>3. SavedOriginal'
  BY Zenon DEF UndoEntry, Start, Control, SavedOriginal, Installing
<1>4. CacheCoherent'
  BY Zenon DEF UndoEntry, Control, CacheCoherent
<1>5. LogOriginal'
  BY Zenon DEF UndoEntry, Start, Control, LogOriginal, Installing
<1>6. UncoveredOriginal'
  BY Zenon DEF UndoEntry, Start, Control, UncoveredOriginal, Covered, Installing, View
<1>7. AppliedOriginal'
  <2>1. /\ UNCHANGED <<uninstall_data, index, cache, cached_block, cache_dirty, disk>>
        /\ Done = {} /\ pc' = "write" /\ progress' = 0 /\ buf' = uninstall_data[index]
    BY Zenon DEF UndoEntry, Start, Done
  <2>2. Done' = {}
    BY <2>1, EntryType DEF Done, Span, TypeOK
  <2>3. \A a : (Covered(a)' <=> Covered(a)) /\ (Remaining(a)' <=> Remaining(a)) /\ (View(a)' = View(a))
    BY <2>1, <2>2, Zenon DEF Covered, Remaining, View
  <2> QED BY <2>3, Zenon DEF AppliedOriginal, UndoEntry
<1>8. RestoresOriginal'
  BY Zenon DEF UndoEntry, Control, RestoresOriginal
<1> QED BY <1>1, <1>2, <1>3, <1>4, <1>5, <1>6, <1>7, <1>8, Zenon

\* Before a retry, the flush saves what earlier entries left in the cache.
LEMMA RetryStep ==
  ASSUME IInv, Retry, TypeOK'
  PROVE  IInv'
<1> USE DEF cacheVars, loopVars, history
<1> USE DEF IInv
<1>1. Control'
  BY Zenon DEF Retry, Control, Installing, load_uninstall_data
<1>2. CleanCache'
  BY BlockNat DEF Retry, DropCache, NoBlock, CleanCache
<1>3. SavedOriginal'
  BY Zenon DEF Retry, Control, SavedOriginal, Installing
<1>4. CacheCoherent'
  BY Zenon DEF Retry, Control, CacheCoherent
<1>5. LogOriginal'
  BY Zenon DEF Retry, Control, LogOriginal, Installing
<1>6. UncoveredOriginal'
  BY Zenon DEF Retry, Flush, FlushFails, DropCache, Control, Flushed, UncoveredOriginal, Covered, Installing, View
<1>7. AppliedOriginal'
  <2> SUFFICES ASSUME ~print_write_fail, ~print_cache_flush_fail',
                      NEW a \in Bytes, Covered(a)', ~Remaining(a)'
               PROVE  View(a)' = Original[a]
    BY Zenon DEF AppliedOriginal, Retry
  <2>1. /\ UNCHANGED <<uninstall_data, index>> /\ Done = {} /\ pc' = "write" /\ progress' = 0
        /\ ~print_cache_flush_fail /\ Flush /\ cache_dirty' = FALSE
    BY DEF Retry, Done, DropCache
  <2>2. Done' = {}
    BY <2>1, EntryType DEF Done, Span, TypeOK
  <2>3. Covered(a) /\ ~Remaining(a)
    BY <2>1, <2>2, Zenon DEF Covered, Remaining
  <2>4. View(a) = Original[a]
    BY <2>3 DEF AppliedOriginal, Retry, Control
  <2> QED BY <2>1, <2>4, Zenon DEF View, Flush, Flushed
<1>8. RestoresOriginal'
  BY Zenon DEF Retry, Control, RestoresOriginal
<1> QED BY <1>1, <1>2, <1>3, <1>4, <1>5, <1>6, <1>7, <1>8, Zenon

\* The end of uninstall: with no entry to come, every byte is restored.
LEMMA EndUninstallStep ==
  ASSUME IInv, EndUninstall, TypeOK'
  PROVE  IInv'
<1> USE DEF cacheVars, loopVars, history
<1> USE DEF IInv
<1>1. Control'
  BY Zenon DEF EndUninstall, Exit, Control, Installing, load_uninstall_data
<1>2. CleanCache'
  BY Zenon DEF EndUninstall, Exit, CleanCache, Installing
<1>3. SavedOriginal'
  BY Zenon DEF EndUninstall, Exit, SavedOriginal, Installing
<1>4. CacheCoherent'
  BY Zenon DEF EndUninstall, Control, CacheCoherent
<1>5. LogOriginal'
  BY Zenon DEF EndUninstall, Exit, Control, LogOriginal, Installing
<1>6. UncoveredOriginal'
  <2> SUFFICES ASSUME NEW a \in Bytes, ~Covered(a), ~gaveUp, a \notin torn
               PROVE  disk'[a] = Original[a]
    BY Zenon DEF EndUninstall, Exit, Covered, UncoveredOriginal, Installing
  <2>1. disk[a] = Original[a] /\ View(a) = Original[a]
    BY Zenon DEF UncoveredOriginal, EndUninstall, Control
  <2> QED BY <2>1, Zenon DEF EndUninstall, Flush, FlushFails, Flushed, View
<1>7. AppliedOriginal'
  BY Zenon DEF EndUninstall, Exit, AppliedOriginal
<1>8. RestoresOriginal'
  <2> SUFFICES ASSUME status' = "restored", NEW a \in Bytes
               PROVE  disk'[a] = Original[a] \/ (~Covered(a) /\ (a \in torn \/ gaveUp))
    BY Zenon DEF RestoresOriginal, EndUninstall, Covered
  <2>1. Flush /\ ~print_write_fail /\ ~print_cache_flush_fail
    BY Zenon DEF EndUninstall, Exit
  <2>2. disk'[a] = View(a)
    BY <2>1, Zenon DEF Flush, Flushed, View
  <2>3. CASE Covered(a)
    <3>1. ~Remaining(a)
      BY DEF Remaining, EndUninstall, TypeOK
    <3> QED BY <2>1, <2>2, <2>3, <3>1, Zenon DEF AppliedOriginal, EndUninstall, Control
  <2>4. CASE ~Covered(a)
    BY <2>2, <2>4, Zenon DEF UncoveredOriginal, EndUninstall, Control
  <2> QED BY <2>3, <2>4, Zenon
<1> QED BY <1>1, <1>2, <1>3, <1>4, <1>5, <1>6, <1>7, <1>8, Zenon

\* A stored log that is complete is the log.
LEMMA FileComplete ==
  ASSUME TypeOK, Finish, ~load_uninstall_data, pc' # "cleanup", load_uninstall_data'
  PROVE  file'.entries = reverse_uninstall_data
<1>1. PICK n \in 0 .. Len(uninstall_data) :
        file' = [count |-> Len(uninstall_data), entries |-> SubSeq(reverse_uninstall_data, 1, n)]
  BY Zenon DEF Finish, load_uninstall_data
<1>2. reverse_uninstall_data \in Seq(Entries) /\ Len(reverse_uninstall_data) = Len(uninstall_data)
  BY ReverseType, Zenon DEF TypeOK
<1>3. Len(SubSeq(reverse_uninstall_data, 1, n)) = n
  OBVIOUS
<1>4. n = Len(uninstall_data)
  BY <1>1 DEF load_uninstall_data
<1>5. SubSeq(reverse_uninstall_data, 1, Len(reverse_uninstall_data)) = reverse_uninstall_data
  BY <1>2
<1> QED BY <1>1, <1>2, <1>4

\* The end of an installation that succeeds, and the storing of its log.
LEMMA FinishStep ==
  ASSUME IInv, Finish, TypeOK'
  PROVE  IInv'
<1> USE DEF cacheVars, loopVars, history
<1> USE DEF IInv
<1>1. Control'
  <2>1. Installing /\ ~load_uninstall_data /\ ~uninstalling /\ uninstalling' = uninstalling
    BY Zenon DEF Finish, Installing, Control
  <2>2. CASE pc' = "cleanup"
    <3>1. FlushFails /\ UNCHANGED <<status, uninstall_data, file, cache, cached_block, history>>
      BY <2>2, Zenon DEF Finish, Exit
    <3> QED BY <2>1, <2>2, <3>1, Zenon DEF Control, Installing, load_uninstall_data
  <2>3. CASE pc' # "cleanup"
    <3>1. /\ Flush /\ pc' = "shell" /\ status' = "installed" /\ uninstall_data' = reverse_uninstall_data
          /\ UNCHANGED <<cache, cached_block, history>>
      BY <2>3, Zenon DEF Finish, Exit
    <3>2. load_uninstall_data' => file'.entries = uninstall_data'
      BY <2>1, <3>1, FileComplete, Zenon
    <3> QED BY <2>1, <3>1, <3>2, Zenon DEF Control
  <2> QED BY <2>2, <2>3, Zenon
<1>2. CleanCache'
  BY Zenon DEF Finish, Exit, CleanCache, Installing
<1>3. SavedOriginal'
  BY Zenon DEF Finish, Exit, SavedOriginal, Installing
<1>4. CacheCoherent'
  BY Zenon DEF Finish, Exit, CacheCoherent
<1>5. LogOriginal'
  <2>1. Installing /\ ~load_uninstall_data /\ ~uninstalling /\ uninstalling' = uninstalling
    BY Zenon DEF Finish, Installing, Control
  <2>2. CASE pc' = "cleanup"
    <3>1. FlushFails /\ UNCHANGED <<status, uninstall_data, file, cache, cached_block, history>>
      BY <2>2, Zenon DEF Finish, Exit
    <3> QED BY <2>1, <2>2, <3>1, Zenon DEF LogOriginal
  <2>3. CASE pc' # "cleanup"
    <3>1. /\ Flush /\ pc' = "shell" /\ status' = "installed" /\ uninstall_data' = reverse_uninstall_data
          /\ UNCHANGED <<cache, cached_block, history>>
      BY <2>3, Zenon DEF Finish, Exit
    <3>2. load_uninstall_data' => file'.entries = uninstall_data'
      BY <2>1, <3>1, FileComplete, Zenon
    <3>3. LastRestores(reverse_uninstall_data)
      BY <2>1, ReverseRestores, Zenon DEF LogOriginal, TypeOK
    <3> QED BY <3>1, <3>3, Zenon DEF LogOriginal, Installing
  <2> QED BY <2>2, <2>3, Zenon
<1>6. UncoveredOriginal'
  <2>1. Installing /\ ~load_uninstall_data /\ ~uninstalling /\ uninstalling' = uninstalling
    BY Zenon DEF Finish, Installing, Control
  <2>2. CASE pc' = "cleanup"
    <3>1. FlushFails /\ UNCHANGED <<status, uninstall_data, file, cache, cached_block, history>>
      BY <2>2, Zenon DEF Finish, Exit
    <3> QED BY <3>1, Zenon DEF UncoveredOriginal, Covered, Installing, Done, Logical, Control,
      FlushFails, Finish
  <2>3. CASE pc' # "cleanup"
    <3>1. /\ Flush /\ pc' = "shell" /\ status' = "installed" /\ uninstall_data' = reverse_uninstall_data
          /\ UNCHANGED <<cache, cached_block, history>>
      BY <2>3, Zenon DEF Finish, Exit
    <3>2. load_uninstall_data' => file'.entries = uninstall_data'
      BY <2>1, <3>1, FileComplete, Zenon
    <3>3. \A a : Covered(a)' <=> Covered(a)
      BY <3>1, ReverseRestores, Zenon DEF Covered, CoveredBy, SpanOf, TypeOK
    <3>4. \A a \in Bytes : disk'[a] = disk[a] \/ disk'[a] = Logical(a)
      BY <3>1, Zenon DEF Flush, Flushed, Logical
    <3>5. Done = {}
      BY Zenon DEF Finish, Done
    <3> QED BY <2>1, <3>1, <3>3, <3>4, <3>5, Zenon DEF UncoveredOriginal, Installing
  <2> QED BY <2>2, <2>3, Zenon
<1>7. AppliedOriginal'
  BY Zenon DEF Finish, Control, AppliedOriginal
<1>8. RestoresOriginal'
  BY Zenon DEF Finish, Exit, Control, RestoresOriginal
<1> QED BY <1>1, <1>2, <1>3, <1>4, <1>5, <1>6, <1>7, <1>8, Zenon

\* A later call with --uninstall takes the log from the file.
LEMMA UninstallModeStep ==
  ASSUME IInv, UninstallMode, TypeOK'
  PROVE  IInv'
<1> USE DEF cacheVars, loopVars, history
<1> USE DEF IInv
<1>1. Control'
  BY Zenon DEF UninstallMode, BeginUninstall, Control, Installing
<1>2. CleanCache'
  BY BlockNat DEF UninstallMode, BeginUninstall, DropCache, NoBlock, CleanCache
<1>3. SavedOriginal'
  BY Zenon DEF UninstallMode, BeginUninstall, SavedOriginal, Installing
<1>4. CacheCoherent'
  BY Zenon DEF UninstallMode, BeginUninstall, CacheCoherent
<1>5. LogOriginal'
  BY Zenon DEF UninstallMode, BeginUninstall, Control, LogOriginal, Installing
<1>6. UncoveredOriginal'
  BY Zenon DEF UninstallMode, BeginUninstall, DropCache, Control, UncoveredOriginal, Covered, Installing, View
<1>7. AppliedOriginal'
  <2>1. /\ uninstall_data' = file.entries /\ pc' = "undo" /\ index' = 1
    BY Zenon DEF UninstallMode, BeginUninstall
  <2>2. \A a : Covered(a)' => Remaining(a)'
    BY <2>1 DEF Covered, Remaining, Done, SpanOf
  <2> QED BY <2>2, Zenon DEF AppliedOriginal
<1>8. RestoresOriginal'
  BY Zenon DEF UninstallMode, RestoresOriginal
<1> QED BY <1>1, <1>2, <1>3, <1>4, <1>5, <1>6, <1>7, <1>8, Zenon

\* A check of bios_install fails, a call with --uninstall is refused, or the process is killed.
LEMMA QuietStep ==
  ASSUME IInv, GiveUp \/ UninstallRefused \/ Kill, TypeOK'
  PROVE  IInv'
<1> USE DEF cacheVars, loopVars, history
<1> USE DEF IInv
<1>1. Control'
  BY DEF GiveUp, UninstallRefused, Kill, Exit, Control, Installing, load_uninstall_data
<1>2. CleanCache'
  BY Zenon DEF GiveUp, UninstallRefused, Kill, Exit, CleanCache, Installing
<1>3. SavedOriginal'
  BY Zenon DEF GiveUp, UninstallRefused, Kill, Exit, SavedOriginal, Installing
<1>4. CacheCoherent'
  BY Zenon DEF GiveUp, UninstallRefused, Kill, Exit, CacheCoherent
<1>5. LogOriginal'
  BY DEF GiveUp, UninstallRefused, Kill, Exit, Control, LogOriginal, Installing, load_uninstall_data
<1>6. UncoveredOriginal'
  BY Zenon DEF GiveUp, UninstallRefused, Kill, Exit, Control, UncoveredOriginal, Covered, Installing,
     Done, View, load_uninstall_data
<1>7. AppliedOriginal'
  BY Zenon DEF GiveUp, UninstallRefused, Kill, Exit, Control, AppliedOriginal
<1>8. RestoresOriginal'
  BY Zenon DEF GiveUp, UninstallRefused, Kill, Exit, Control, RestoresOriginal
<1> QED BY <1>1, <1>2, <1>3, <1>4, <1>5, <1>6, <1>7, <1>8, Zenon

\* A call of device_read or device_write starts a transfer of nothing so far.
LEMMA CallStep ==
  ASSUME IInv, NEW buffer \in Buffers, device_read(buffer) \/ device_write(buffer), TypeOK'
  PROVE  IInv'
<1> USE DEF cacheVars, loopVars, history
<1> USE DEF IInv
<1>1. Control'
  BY DEF device_read, device_write, Start, Control, Installing, load_uninstall_data
<1>2. CleanCache'
  BY Zenon DEF device_read, device_write, Control, CleanCache, Installing
<1>3. SavedOriginal'
  <2>1. Span(buffer.loc, 0) = {} /\ DOMAIN Nothing = {} /\ Nothing \in [{} -> Values]
    BY EntryType, DeviceAssumption DEF Span, Nothing
  <2>2. CASE pc' = "cleanup"
    BY <2>2, Zenon DEF SavedOriginal, Installing
  <2>3. CASE pc' # "cleanup"
    <3>1. buf' = buffer /\ progress' = 0 /\ saved' = Nothing /\ pc' \in {"read", "save"}
      BY <2>3, Zenon DEF device_read, device_write, Start
    <3> QED BY <2>1, <3>1, Zenon DEF SavedOriginal
  <2> QED BY <2>2, <2>3, Zenon
<1>4. CacheCoherent'
  BY Zenon DEF device_read, device_write, CacheCoherent, Logical
<1>5. LogOriginal'
  BY DEF device_read, device_write, Control, LogOriginal, Installing, load_uninstall_data
<1>6. UncoveredOriginal'
  BY Zenon DEF device_read, device_write, Control, UncoveredOriginal, Covered, Installing, Done, Logical
<1>7. AppliedOriginal'
  BY Zenon DEF device_read, device_write, Control, AppliedOriginal
<1>8. RestoresOriginal'
  BY DEF device_read, device_write, RestoresOriginal, Covered
<1> QED BY <1>1, <1>2, <1>3, <1>4, <1>5, <1>6, <1>7, <1>8, Zenon

\* The invariant is inductive.
LEMMA StepIInv == IInv /\ [Next]_vars => IInv'
<1> SUFFICES ASSUME IInv, [Next]_vars PROVE IInv'
  BY Zenon
<1> TypeOK'
  BY TypeStep, Zenon DEF IInv
<1>1. CASE WriteBack
  BY <1>1, WriteBackStep, Zenon
<1>2. CASE WriteBackFails
  BY <1>2, WriteBackFailsStep, Zenon
<1>3. CASE Fetch
  BY <1>3, FetchStep, Zenon
<1>4. CASE FetchFails
  BY <1>4, FetchFailsStep, Zenon
<1>5. CASE ReadChunk
  BY <1>5, ReadChunkStep, Zenon
<1>6. CASE WriteChunk
  BY <1>6, WriteChunkStep, Zenon
<1>7. CASE Transferred
  BY <1>7, TransferredStep, Zenon
<1>8. CASE Cleanup
  BY <1>8, CleanupStep, Zenon
<1>9. CASE UndoEntry
  BY <1>9, UndoEntryStep, Zenon
<1>10. CASE Retry
  BY <1>10, RetryStep, Zenon
<1>11. CASE EndUninstall
  BY <1>11, EndUninstallStep, Zenon
<1>12. CASE GiveUp
  BY <1>12, QuietStep, Zenon
<1>13. CASE Finish
  BY <1>13, FinishStep, Zenon
<1>14. CASE UninstallMode
  BY <1>14, UninstallModeStep, Zenon
<1>15. CASE UninstallRefused
  BY <1>15, QuietStep, Zenon
<1>16. CASE Kill
  BY <1>16, QuietStep, Zenon
<1>17. CASE \E buffer \in Buffers : device_read(buffer) \/ device_write(buffer)
  BY <1>17, CallStep, Zenon
<1>18. CASE UNCHANGED vars
  <2>1. /\ UNCHANGED <<disk, cache, cached_block, cache_dirty, content, uninstall_data, uninstalling, pc>>
        /\ UNCHANGED <<buf, progress, saved, index, retry, print_write_fail, print_cache_flush_fail>>
        /\ UNCHANGED <<file, status, torn, gaveUp>>
    BY <1>18, Zenon DEF vars, cacheVars, loopVars, history
  <2>2. TypeOK /\ Control /\ CleanCache /\ SavedOriginal /\ CacheCoherent /\ LogOriginal
        /\ UncoveredOriginal /\ AppliedOriginal /\ RestoresOriginal
    BY Zenon DEF IInv
  <2>3. Control'
    BY <2>1, <2>2, Zenon DEF Control, Installing, load_uninstall_data
  <2>4. CleanCache'
    BY <2>1, <2>2, Zenon DEF CleanCache, Installing
  <2>5. SavedOriginal'
    BY <2>1, <2>2, Zenon DEF SavedOriginal, Installing, Covered
  <2>6. CacheCoherent'
    BY <2>1, <2>2, Zenon DEF CacheCoherent, Logical
  <2>7. LogOriginal'
    BY <2>1, <2>2, Zenon DEF LogOriginal, Installing, load_uninstall_data
  <2>8. UncoveredOriginal'
    BY <2>1, <2>2, Zenon DEF UncoveredOriginal, Installing, load_uninstall_data, Covered, Done, View, Logical
  <2>9. AppliedOriginal'
    BY <2>1, <2>2, Zenon DEF AppliedOriginal, Covered, Remaining, Done, View
  <2>10. RestoresOriginal'
    BY <2>1, <2>2, Zenon DEF RestoresOriginal, Covered
  <2> QED BY <2>3, <2>4, <2>5, <2>6, <2>7, <2>8, <2>9, <2>10, Zenon DEF IInv
<1> QED BY <1>1, <1>2, <1>3, <1>4, <1>5, <1>6, <1>7, <1>8, <1>9, <1>10, <1>11, <1>12, <1>13, <1>14,
  <1>15, <1>16, <1>17, <1>18, Zenon DEF Next, Run

\* In every reachable state, and for every device, the original value of every byte
\* is where the invariant says.
THEOREM UndoInvariant == Spec => []IInv
  BY InitIInv, StepIInv, PTL DEF Spec

\* device_cache_block loses no write and shows every one, for every block size and
\* every sequence of transfers, failed ones included.
THEOREM UndoCacheCoherent == Spec => []CacheCoherent
<1>1. IInv => CacheCoherent
  BY Zenon DEF IInv
<1> QED BY <1>1, UndoInvariant, PTL

\* When uninstall reports success, after any number of failed transfers, kills and
\* repeated calls, the device is as it was before the installation, up to the two
\* kinds of bytes that RestoresOriginal names.
THEOREM UndoRestoresOriginal == Spec => []RestoresOriginal
<1>1. IInv => RestoresOriginal
  BY Zenon DEF IInv
<1> QED BY <1>1, UndoInvariant, PTL
===============================================================================
