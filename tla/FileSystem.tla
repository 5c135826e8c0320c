----------------------------- MODULE FileSystem -----------------------------
(***************************************************************************)
(* Files over the virtual file system and the initial ramdisk              *)
(* (kernel/fs/file.c, vfs.c, initrd.c): mount, open, read, write, seek and *)
(* close, with 32 bit arithmetic; WORD stands for 2^32.                    *)
(*                                                                         *)
(* A path is a name behind some slashes.  A byte of a file is its place    *)
(* behind the inode table, where the files lie one after another.  A mode  *)
(* is a sequence of characters, because the comparison of modes writes     *)
(* into both strings: mode_text is what the literals of possible_modes     *)
(* have become.  kmalloc may refuse any request; blocks counts what it     *)
(* gave.  A write or a call through NULL ends the model (crashed).         *)
(*                                                                         *)
(* Calls with a NULL path, buffer or file return at once.  A behaviour is  *)
(* either one of files or one of a user of a list (module List), which     *)
(* share no state.                                                         *)
(***************************************************************************)
EXTENDS List, FiniteSetsExt

CONSTANTS
    WORD,           \* values of a uint32_t; int32_t holds -WORD/2 .. WORD/2 - 1
    Inodes,         \* the inode table: a sequence of [name, size]
    Paths,          \* paths that are opened: records [slashes, name]
    Modes,          \* modes they are opened with
    Handles         \* bound: the files open at a time

VARIABLES
    mode_text,      \* the strings possible_modes points to
    mount,          \* "none", "root" (no file system yet) or "mounted"
    files,          \* the open files, by handle
    blocks,         \* blocks allocated and not freed
    last,           \* the latest read (bookkeeping)
    crashed         \* "no", or "panic", "write", "call"

fsvars == <<mode_text, mount, files, blocks, last, crashed>>
vars == <<lvars, fsvars>>

ASSUME FilesAssumption ==
    /\ WORD \in Nat \ {0} /\ WORD % 2 = 0
    /\ Inodes \in Seq([name : STRING, size : 0 .. (WORD \div 2 - 1)])
    /\ "mount_points" \in Elements
    /\ IsFiniteSet(Handles)

u32(x) == x % WORD
Unsigned == 0 .. (WORD - 1)
Signed == (-(WORD \div 2)) .. (WORD \div 2 - 1)

Closed == [start |-> 0, size |-> 0, offset |-> 0, mode |-> {"closed"}, past |-> FALSE]
Open == {h \in Handles : files[h] # Closed}
NoRead == [start |-> 0, size |-> 0, offset |-> 0, asked |-> 0, bytes |-> <<>>]

-----------------------------------------------------------------------------
(* Modes. *)

possible_modes ==
    <<<<"r">>, <<"r", "b">>, <<"w">>, <<"w", "b">>, <<"a">>, <<"a", "b">>,
      <<"r", "+">>, <<"r", "b", "+">>, <<"r", "+", "b">>,
      <<"w", "+">>, <<"w", "b", "+">>, <<"w", "+", "b">>,
      <<"a", "+">>, <<"a", "b", "+">>, <<"a", "+", "b">>>>

modes_bits ==
    LET WRITING == {"WRITE", "CREATE_FILE", "TRUNCATE_TO_ZERO"}
        APPENDING == {"APPEND", "CREATE_FILE"}
        UPDATING == {"READ", "WRITE"}
        RENEWING == WRITING \cup {"READ"}
    IN  <<{"READ"}, {"READ"}, WRITING, WRITING, APPENDING, APPENDING,
          UPDATING, UPDATING, UPDATING, RENEWING, RENEWING, RENEWING,
          APPENDING, APPENDING, APPENDING>>

Upto(string, n) == SubSeq(string, 1, IF Len(string) < n THEN Len(string) ELSE n)

mutant_max_length == 2
max_length == 3

\* strncmp puts a NUL behind the first max_length - 1 characters of the
\* string; behind a shorter literal that is the first character of the next.
\* The literal as the search comes to it, and as it compares it:
reached(text, i) ==
    IF i > 1 /\ Len(possible_modes[i - 1]) + 2 = max_length THEN <<>> ELSE text[i]
cut(text, i) == Upto(reached(text, i), max_length - 1)

\* The search for the mode: where it ends, and what it leaves of the strings.
search(text, mode) ==
    LET found == SelectInSeq([i \in DOMAIN text |-> cut(text, i)],
                             LAMBDA string : string = Upto(mode, max_length - 1))
        end == IF found = 0 THEN Len(text) ELSE found
    IN  [found |-> found,
         text |-> [k \in DOMAIN text |-> CASE k <= end -> cut(text, k)
                                           [] k = end + 1 -> reached(text, k)
                                           [] k > end + 1 -> text[k]]]

-----------------------------------------------------------------------------
(* The virtual file system and the ramdisk. *)

FInit ==
    /\ mode_text = possible_modes
    /\ mount = "none"
    /\ files = [h \in Handles |-> Closed]
    /\ blocks = 0
    /\ last = NoRead
    /\ crashed = "no"

Init == LInit /\ FInit

Running == crashed = "no" /\ LInit

\* A list in use instead of files.
UseList == FInit /\ ListStep /\ UNCHANGED fsvars

vfs_init == \E granted \in BOOLEAN :
    /\ Running /\ mount = "none"
    /\ IF granted THEN mount' = "root" /\ blocks' = blocks + 1 /\ UNCHANGED crashed
       ELSE crashed' = "panic" /\ UNCHANGED <<mount, blocks>>
    /\ UNCHANGED <<lvars, mode_text, files, last>>

\* Only the root can be mounted, with a file system that can open, read and
\* close.
vfs_mount == \E root_path, complete \in BOOLEAN :
    /\ Running /\ mount # "none"
    /\ mount' = IF root_path /\ complete THEN "mounted" ELSE mount
    /\ UNCHANGED <<lvars, mode_text, files, blocks, last, crashed>>

\* The mount points vfs_open visits: the root is put on a list and popped; it
\* has no children.  The list goes back to kmalloc.
tree_nodes == add_element(initialize_list(Unused), 1,
                          IF mount = "none" THEN NoElement ELSE "mount_points")
current == Popped(tree_nodes, 0)
Kept == free_list(pop_element(tree_nodes, 0)).allocated

\* initrd_search_inode_table, of the path without its first slash; 0 for
\* no such file.
initrd_search(path) ==
    IF path.slashes > 1 THEN 0
    ELSE SelectInSeq(Inodes, LAMBDA inode : inode.name = path.name)

\* offset_from_start, as initrd_gen.py lays the files out.
offset_from_start(i) ==
    FoldSeq(LAMBDA inode, sum : inode.size + sum, 0, SubSeq(Inodes, 1, i - 1))

\* The ramdisk is in memory, so that its end has an address.
ASSUME ImageAssumption ==
    \A i \in DOMAIN Inodes :
        offset_from_start(i) \in Nat /\ offset_from_start(i) + Inodes[i].size < WORD

-----------------------------------------------------------------------------
(* Files. *)

\* vfs_open of the root's file system, when the mode was found.  grants is
\* the number of requests kmalloc serves: the list's node, the fs_node_t, the
\* file_t.
open_file(path, mode, grants) ==
    LET inode == initrd_search(path)
        refused == UNCHANGED <<files, crashed>> /\ blocks' = blocks + Cardinality(Kept)
        ends(how) == crashed' = how /\ UNCHANGED <<files, blocks>>
    IN  CASE grants = 0 -> ends("write")
          [] grants > 0 /\ current = NoElement -> refused
          [] grants > 0 /\ mount = "root" -> ends("call")
          [] grants > 0 /\ mount = "mounted" ->
               IF inode = 0 \/ grants = 1 THEN refused
               ELSE IF grants = 2 THEN ends("write")
               ELSE \E h \in Handles \ Open :
                      /\ files' = [files EXCEPT ![h] =
                           [start |-> offset_from_start(inode), size |-> Inodes[inode].size,
                            offset |-> 0, mode |-> mode, past |-> FALSE]]
                      /\ blocks' = blocks + Cardinality(Kept) + 2
                      /\ UNCHANGED crashed

file_open(mode) ==
    LET lookup == search(mode_text, mode) IN
    /\ Running
    /\ mode_text' = lookup.text
    /\ IF lookup.found = 0 THEN UNCHANGED <<files, crashed, blocks>>
       ELSE \E path \in Paths, grants \in 0 .. 3 :
              open_file(path, modes_bits[lookup.found], grants)
    /\ last' = NoRead
    /\ UNCHANGED <<lvars, mount>>

mutant_initrd_read(file, length) == length

\* The bytes initrd_read copies: none when it is asked for some behind the end.
initrd_read(file, length) ==
    IF length = 0 \/ file.size < u32(file.offset + length) THEN 0 ELSE length

clamped(file, length) ==
    IF length > u32(file.size - file.offset) THEN u32(file.size - file.offset) ELSE length

file_read(h, length) ==
    LET file  == files[h]
        bytes == initrd_read(file, clamped(file, length))
    IN  /\ Running /\ h \in Open
        /\ files' = [files EXCEPT ![h].offset = u32(@ + bytes)]
        /\ last' = [start |-> file.start, size |-> file.size, offset |-> file.offset,
                    asked |-> length,
                    bytes |-> [k \in 1 .. bytes |-> u32(file.start + file.offset + k - 1)]]
        /\ UNCHANGED <<lvars, mode_text, mount, blocks, crashed>>

\* The ramdisk has no write.
file_write(h) ==
    /\ Running /\ h \in Open
    /\ crashed' = "call"
    /\ UNCHANGED <<lvars, mode_text, mount, files, blocks, last>>

mutant_file_close(h) ==
    /\ Running /\ h \in Open
    /\ files' = [files EXCEPT ![h] = Closed]
    /\ blocks' = blocks - 1
    /\ last' = NoRead
    /\ UNCHANGED <<lvars, mode_text, mount, crashed>>

\* vfs_close frees the fs_node_t.
file_close(h) ==
    /\ Running /\ h \in Open
    /\ files' = [files EXCEPT ![h] = Closed]
    /\ blocks' = blocks - 2
    /\ last' = NoRead
    /\ UNCHANGED <<lvars, mode_text, mount, crashed>>

mutant_seeks(file, jmp, seek_type) ==
    CASE seek_type = "SEEK_SET" -> jmp >= 0 /\ jmp < file.size
      [] seek_type = "SEEK_CUR" -> TRUE
      [] seek_type = "SEEK_END" -> jmp <= 0

\* Whether the jump is accepted; unsigned comparison refuses what would fall
\* before the start.
seeks(file, jmp, seek_type) ==
    CASE seek_type = "SEEK_SET" -> jmp >= 0 /\ jmp < file.size
      [] seek_type = "SEEK_CUR" -> u32(file.offset + jmp) < file.size
      [] seek_type = "SEEK_END" -> jmp <= 0

\* past notes that SEEK_END, which adds to the offset, has left it behind the
\* end.
file_seek(h, jmp, seek_type) ==
    LET file  == files[h]
        there == CASE seek_type = "SEEK_SET" -> jmp
                   [] seek_type = "SEEK_CUR" -> u32(file.offset + jmp)
                   [] seek_type = "SEEK_END" -> u32(file.offset - jmp)
    IN  /\ Running /\ h \in Open
        /\ IF seeks(file, jmp, seek_type)
           THEN files' = [files EXCEPT ![h].offset = there,
                            ![h].past = (seek_type = "SEEK_END" /\ there > file.size)]
           ELSE UNCHANGED files
        /\ last' = NoRead
        /\ UNCHANGED <<lvars, mode_text, mount, blocks, crashed>>

Next ==
    \/ UseList
    \/ vfs_init
    \/ vfs_mount
    \/ \E mode \in Modes : file_open(mode)
    \/ \E h \in Handles, length \in Unsigned : file_read(h, length)
    \/ \E h \in Handles : file_write(h)
    \/ \E h \in Handles : file_close(h)
    \/ \E h \in Handles, jmp \in Signed, seek_type \in {"SEEK_SET", "SEEK_CUR", "SEEK_END"} :
          file_seek(h, jmp, seek_type)

Spec == Init /\ [][Next]_vars

-----------------------------------------------------------------------------
\* Every mode possible_modes names is found, and gives at least the
\* permissions that stand for it in modes_bits, whatever modes were asked for
\* before: the NULs strncmp writes into the literals spoil none of them.
ModesHonoured ==
    \A i \in DOMAIN possible_modes :
        LET found == search(mode_text, possible_modes[i]).found
        IN  found # 0 /\ modes_bits[i] \subseteq modes_bits[found]

\* Only SEEK_END takes an offset behind the end of its file, and a read from
\* any other offset returns just the bytes that are there: as many as were
\* asked for or are left, the next ones of this file.
ReadsExact ==
    /\ \A h \in Open : files[h].offset > files[h].size => files[h].past
    /\ last.offset <= last.size =>
          last.bytes = [k \in 1 .. Min({last.asked, last.size - last.offset}) |->
                           last.start + last.offset + k - 1]

\* A read copies no byte outside its file, not even from an offset behind the
\* end, unless offset and length together wrap around 2^32: the test in
\* initrd_read does what the unsigned clamp in file_read fails to do.
ReadsInFile ==
    last.offset + Len(last.bytes) < WORD =>
        \A k \in DOMAIN last.bytes :
            last.bytes[k] \in last.start .. (last.start + last.size - 1)

\* Besides the mount point only open files hold memory: failed opens, at
\* whatever request kmalloc refuses, and closed files leave nothing behind.
NoLeak ==
    crashed = "no" => blocks = (IF mount = "none" THEN 0 ELSE 1) + 2 * Cardinality(Open)
=============================================================================
