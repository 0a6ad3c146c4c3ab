-------------------------------- MODULE UndoLog --------------------------------
(***************************************************************************)
(* How the installer of the boot loader writes to a device,                *)
(* limine/limine.c: through a cache of one block, with a log of what every *)
(* write replaces.  A failed installation is undone from the log, and a    *)
(* later call with --uninstall undoes a successful one from the file the   *)
(* log was stored in.  Every transfer of a block may fail, and the process *)
(* may be killed between any two steps.                                    *)
(*                                                                         *)
(* A buffer comes with its place on the device: its data is a function of  *)
(* the bytes it goes to.                                                   *)
(***************************************************************************)
EXTENDS Integers, Sequences

CONSTANTS
  Top,                 \* the bytes of the device are 0 .. Top - 1
  block_size,          \* what device_init found out
  Values,              \* what a byte may hold
  Junk,                \* what a failed read leaves in the cache
  Original,            \* the device before the installation
  Buffers,             \* what bios_install may write, and where
  UNINSTALL_DATA_MAX   \* the entries the log has room for

Bytes == 0 .. (Top - 1)
NoBlock == -1
Block(a) == a \div block_size
Span(loc, count) == loc .. (loc + count - 1)

\* struct uninstall_data; a buffer that is written has the same form.
Entries ==
  UNION {UNION {[loc : {loc}, count : {count}, data : [Span(loc, count) -> Values]] :
                  count \in 0 .. (Top - loc)} : loc \in 0 .. Top}

ASSUME DeviceAssumption ==
  /\ Top \in Nat /\ block_size \in Nat \ {0} /\ UNINSTALL_DATA_MAX \in Nat
  /\ Junk \in Values /\ Original \in [Bytes -> Values]
  /\ Buffers \subseteq Entries

VARIABLES
  disk,                               \* the bytes of the device
  cache, cached_block, cache_dirty,   \* cache[a] stands for byte a of the cached block
  uninstall_data,                     \* the log
  uninstalling,
  pc,              \* where the process is; "shell" when there is none
  buf, progress,   \* the buffer of a transfer, and how far it is
  saved,           \* what _device_write has read of the bytes it will replace
  index, retry,    \* the variables of uninstall's loop
  print_write_fail, print_cache_flush_fail,
  file,            \* the file of the log: the number of entries it announces, and those in it
  status,          \* how the last process ended
  content,         \* what bios_install has written so far (history)
  torn,            \* bytes that a write had replaced when it failed (history)
  gaveUp           \* some process gave up an entry after its retry (history)

cacheVars == <<cache, cached_block, cache_dirty>>
loopVars == <<index, retry, print_write_fail, print_cache_flush_fail>>
history == <<content, torn, gaveUp>>
vars == <<disk, cacheVars, uninstall_data, uninstalling, pc, buf, progress, saved, loopVars, file, status, history>>

NoFile == [count |-> 1, entries |-> << >>]
Nothing == [a \in {} |-> Junk]
NoBuffer == [loc |-> 0, count |-> 0, data |-> Nothing]

Init ==
  /\ disk = Original /\ content = Original /\ torn = {} /\ gaveUp = FALSE
  /\ cache = Original /\ cached_block = 0 /\ cache_dirty = FALSE
  /\ uninstall_data = << >> /\ uninstalling = FALSE /\ file = NoFile
  /\ pc = "install" /\ status = "running"
  /\ buf = NoBuffer /\ progress = 0 /\ saved = Nothing
  /\ index = 1 /\ retry = FALSE /\ print_write_fail = FALSE /\ print_cache_flush_fail = FALSE

-------------------------------------------------------------------------------
\* device_flush_cache.  A write that fails may have changed any of the block.
Flushed == [a \in Bytes |-> IF Block(a) = cached_block THEN cache[a] ELSE disk[a]]

Flush ==
  /\ disk' = IF cache_dirty THEN Flushed ELSE disk
  /\ cache_dirty' = FALSE

FlushFails ==
  /\ cache_dirty
  /\ \E hit \in SUBSET {a \in Bytes : Block(a) = cached_block} :
       disk' = [a \in Bytes |-> IF a \in hit THEN cache[a] ELSE disk[a]]

\* uninstall forgets the cache, at its start and before a retry.
DropCache == cache_dirty' = FALSE /\ cached_block' = NoBlock /\ UNCHANGED cache

\* The loop of uninstall goes on with the next entry.
NextEntry == index' = index + 1 /\ retry' = FALSE /\ pc' = "undo"

\* A transfer fails: bios_install goes to cleanup, and the entry of the write in
\* progress is freed; uninstall tries once more, then goes on with the next entry.
Fail ==
  \/ /\ ~uninstalling
     /\ pc' = "cleanup"
     /\ torn' = IF pc = "write" THEN Span(buf.loc, progress) ELSE {}
     /\ UNCHANGED <<loopVars, gaveUp>>
  \/ /\ uninstalling /\ ~retry
     /\ pc' = "retry"
     /\ UNCHANGED <<loopVars, torn, gaveUp>>
  \/ /\ uninstalling /\ retry
     /\ NextEntry
     /\ print_write_fail' = TRUE /\ gaveUp' = TRUE
     /\ UNCHANGED <<print_cache_flush_fail, torn>>

\* device_cache_block, for the block of the next byte: the cached block is
\* written back if it has to be, then the other is read.
Transferring == pc \in {"read", "save", "write"} /\ progress < buf.count
Needed == Block(buf.loc + progress)
Missing == Transferring /\ Needed # cached_block

\* Mutant: a block is replaced although it was not written back.
WriteBackSkipped ==
  /\ Missing /\ cache_dirty
  /\ cache_dirty' = FALSE
  /\ UNCHANGED <<disk, cache, cached_block, uninstall_data, uninstalling, pc, buf, progress, saved, loopVars, file, status, history>>

WriteBack ==
  /\ Missing /\ cache_dirty
  /\ Flush
  /\ UNCHANGED <<cache, cached_block, uninstall_data, uninstalling, pc, buf, progress, saved, loopVars, file, status, history>>

WriteBackFails ==
  /\ Missing
  /\ FlushFails /\ Fail
  /\ UNCHANGED <<cacheVars, uninstall_data, uninstalling, buf, progress, saved, file, status, content>>

Fetch ==
  /\ Missing /\ ~cache_dirty
  /\ cache' = disk /\ cached_block' = Needed
  /\ UNCHANGED <<disk, cache_dirty, uninstall_data, uninstalling, pc, buf, progress, saved, loopVars, file, status, history>>

\* The cache is overwritten, and still passes for the old block.
FetchFails ==
  /\ Missing /\ ~cache_dirty
  /\ cache' = [a \in Bytes |-> Junk]
  /\ Fail
  /\ UNCHANGED <<disk, cached_block, cache_dirty, uninstall_data, uninstalling, buf, progress, saved, file, status, content>>

\* The length of the part of the rest that lies in the needed block.
Chunk ==
  LET left == buf.count - progress
      room == block_size - ((buf.loc + progress) % block_size)
  IN IF left > room THEN room ELSE left

InChunk(a) == a \in Span(buf.loc + progress, Chunk)

\* memcpy from the cache, in _device_read.
ReadChunk ==
  /\ Transferring /\ ~Missing /\ pc \in {"read", "save"}
  /\ saved' = [a \in Span(buf.loc, progress + Chunk) |-> IF InChunk(a) THEN cache[a] ELSE saved[a]]
  /\ progress' = progress + Chunk
  /\ UNCHANGED <<disk, cacheVars, uninstall_data, uninstalling, pc, buf, loopVars, file, status, history>>

\* memcpy to the cache, in _device_write.
WriteChunk ==
  /\ Transferring /\ ~Missing /\ pc = "write"
  /\ cache' = [a \in Bytes |-> IF InChunk(a) THEN buf.data[a] ELSE cache[a]]
  /\ content' = IF uninstalling THEN content ELSE [a \in Bytes |-> IF InChunk(a) THEN buf.data[a] ELSE content[a]]
  /\ cache_dirty' = TRUE
  /\ progress' = progress + Chunk
  /\ UNCHANGED <<disk, cached_block, uninstall_data, uninstalling, pc, buf, saved, loopVars, file, status, torn, gaveUp>>

Start(p, buffer) == pc' = p /\ buf' = buffer /\ progress' = 0 /\ saved' = Nothing

\* The end of a transfer.  A write of bios_install first saves, then writes, and
\* then counts its entry.
Transferred ==
  /\ pc \in {"read", "save", "write"} /\ progress >= buf.count
  /\ \/ /\ pc = "read" /\ pc' = "install"
        /\ UNCHANGED <<uninstall_data, buf, progress, saved, loopVars>>
     \/ /\ pc = "save" /\ pc' = "write" /\ progress' = 0
        /\ UNCHANGED <<uninstall_data, buf, saved, loopVars>>
     \/ /\ pc = "write" /\ ~uninstalling /\ pc' = "install"
        /\ uninstall_data' = Append(uninstall_data, [loc |-> buf.loc, count |-> buf.count, data |-> saved])
        /\ UNCHANGED <<buf, progress, saved, loopVars>>
     \/ /\ pc = "write" /\ uninstalling
        /\ NextEntry
        /\ UNCHANGED <<uninstall_data, buf, progress, saved, print_write_fail, print_cache_flush_fail>>
  /\ UNCHANGED <<disk, cacheVars, uninstalling, file, status, history>>

-------------------------------------------------------------------------------
\* The calls of bios_install.
device_read(buffer) ==
  /\ pc = "install"
  /\ Start("read", buffer)
  /\ UNCHANGED <<disk, cacheVars, uninstall_data, uninstalling, loopVars, file, status, history>>

device_write(buffer) ==
  /\ pc = "install"
  /\ IF Len(uninstall_data) < UNINSTALL_DATA_MAX
     THEN Start("save", buffer)
     ELSE pc' = "cleanup" /\ UNCHANGED <<buf, progress, saved>>
  /\ UNCHANGED <<disk, cacheVars, uninstall_data, uninstalling, loopVars, file, status, history>>

\* bios_install gives up: a check failed.
GiveUp ==
  /\ pc = "install"
  /\ pc' = "cleanup"
  /\ UNCHANGED <<disk, cacheVars, uninstall_data, uninstalling, buf, progress, saved, loopVars, file, status, history>>

\* Mutant: the log is applied in the order of the writes.
unreversed == uninstall_data

reverse_uninstall_data ==
  [i \in 1 .. Len(uninstall_data) |-> uninstall_data[Len(uninstall_data) - i + 1]]

\* The start of uninstall.
BeginUninstall(log) ==
  /\ uninstall_data' = log /\ uninstalling' = TRUE
  /\ DropCache
  /\ pc' = "undo" /\ index' = 1 /\ retry' = FALSE
  /\ print_write_fail' = FALSE /\ print_cache_flush_fail' = FALSE

\* cleanup, when the installation has failed.
Cleanup ==
  /\ pc = "cleanup"
  /\ BeginUninstall(reverse_uninstall_data)
  /\ UNCHANGED <<disk, buf, progress, saved, file, status, history>>

\* The process ends, and its transfer is forgotten.
Exit(how) == pc' = "shell" /\ status' = how /\ buf' = NoBuffer /\ progress' = 0 /\ saved' = Nothing

\* The last flush of bios_install; then the log is stored, if that was asked for,
\* and whether that works is not looked at.  An entry may be cut short.
Finish ==
  /\ pc = "install"
  /\ \/ /\ FlushFails /\ pc' = "cleanup"
        /\ UNCHANGED <<cache_dirty, status, uninstall_data, file, buf, progress, saved>>
     \/ /\ Flush /\ Exit("installed")
        /\ uninstall_data' = reverse_uninstall_data
        /\ \/ UNCHANGED file
           \/ \E n \in 0 .. Len(uninstall_data) :
                file' = [count |-> Len(uninstall_data),
                         entries |-> SubSeq(reverse_uninstall_data, 1, n)]
  /\ UNCHANGED <<cache, cached_block, uninstalling, loopVars, history>>

-------------------------------------------------------------------------------
\* uninstall: one entry.
UndoEntry ==
  /\ pc = "undo" /\ index <= Len(uninstall_data)
  /\ Start("write", uninstall_data[index])
  /\ UNCHANGED <<disk, cacheVars, uninstall_data, uninstalling, loopVars, file, status, history>>

\* Mutant: that an entry has been retried is not remembered.
RetryAgain ==
  /\ pc = "retry" /\ pc' = "write" /\ progress' = 0
  /\ \/ Flush /\ UNCHANGED print_cache_flush_fail
     \/ FlushFails /\ print_cache_flush_fail' = TRUE
  /\ DropCache
  /\ UNCHANGED <<uninstall_data, uninstalling, buf, saved, index, retry, print_write_fail, file, status, history>>

\* Before its retry the cache is flushed and forgotten.
Retry ==
  /\ pc = "retry" /\ pc' = "write" /\ retry' = TRUE /\ progress' = 0
  /\ \/ Flush /\ UNCHANGED print_cache_flush_fail
     \/ FlushFails /\ print_cache_flush_fail' = TRUE
  /\ DropCache
  /\ UNCHANGED <<uninstall_data, uninstalling, buf, saved, index, print_write_fail, file, status, history>>

\* The end of uninstall: the last flush, and the value returned.
EndUninstall ==
  /\ pc = "undo" /\ index > Len(uninstall_data)
  /\ \/ /\ Flush
        /\ Exit(IF print_write_fail \/ print_cache_flush_fail THEN "incomplete" ELSE "restored")
     \/ FlushFails /\ Exit("incomplete") /\ UNCHANGED cache_dirty
  /\ UNCHANGED <<cache, cached_block, uninstall_data, uninstalling, loopVars, file, history>>

\* A call with --uninstall.  device_init reads the first block, which uninstall
\* forgets at once; a file that is missing or cut short ends the call.
load_uninstall_data == Len(file.entries) = file.count

UninstallMode ==
  /\ pc = "shell" /\ load_uninstall_data
  /\ BeginUninstall(file.entries)
  /\ status' = "running"
  /\ UNCHANGED <<disk, buf, progress, saved, file, history>>

UninstallRefused ==
  /\ pc = "shell" /\ ~load_uninstall_data
  /\ status' = "refused"
  /\ UNCHANGED <<disk, cacheVars, uninstall_data, uninstalling, pc, buf, progress, saved, loopVars, file, history>>

Kill ==
  /\ pc # "shell"
  /\ Exit("killed")
  /\ UNCHANGED <<disk, cacheVars, uninstall_data, uninstalling, loopVars, file, history>>

Run ==
  \/ WriteBack \/ WriteBackFails \/ Fetch \/ FetchFails
  \/ ReadChunk \/ WriteChunk \/ Transferred
  \/ Cleanup \/ UndoEntry \/ Retry \/ EndUninstall

Next ==
  \/ Run
  \/ \E buffer \in Buffers : device_read(buffer) \/ device_write(buffer)
  \/ GiveUp \/ Finish
  \/ UninstallMode \/ UninstallRefused \/ Kill

\* The process is scheduled: fairness of the steps it takes by itself.
Spec == Init /\ [][Next]_vars /\ WF_vars(Run)

-------------------------------------------------------------------------------
\* What the device holds once the cache is written back.
Logical(a) == IF Block(a) = cached_block THEN cache[a] ELSE disk[a]

\* While bios_install runs, the device and its cache together hold what it has
\* written: no write is lost when a block is replaced, and _device_read, which
\* also fills the log, sees all of them.
CacheCoherent ==
  pc \in {"install", "read", "save", "write"} /\ ~uninstalling =>
    \A a \in Bytes : Logical(a) = content[a]

Covered(a) == \E i \in 1 .. Len(uninstall_data) : a \in Span(uninstall_data[i].loc, uninstall_data[i].count)

\* When uninstall says that it has restored everything, after a failed
\* installation or for --uninstall, after repeated and killed calls, and in spite
\* of failed transfers, the device is as it was before the installation.  Two
\* kinds of bytes are excepted: those that a write over several blocks had
\* replaced when it failed, whose entry was dropped, and those outside all entries
\* once an entry had been given up (the cache then passes for a block it does not
\* hold).
RestoresOriginal ==
  status = "restored" =>
    \A a \in Bytes : disk[a] = Original[a] \/ (~Covered(a) /\ (a \in torn \/ gaveUp))

\* uninstall ends, although every transfer may fail again and again: an entry is
\* tried twice, and then given up.
UninstallEnds == pc = "undo" ~> pc = "shell"
===============================================================================
