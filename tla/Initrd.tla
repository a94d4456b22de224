------------------------------- MODULE Initrd -------------------------------
(***************************************************************************)
(* The initial ramdisk behind the interface of fs.c: main mounts it, then  *)
(* clients list its directories with readdir_fs and finddir_fs, like the   *)
(* ls that main.c keeps in a comment, and read its files.  The dirent that *)
(* readdir fills is one for all clients, and a client can be interrupted   *)
(* between any two stores to it.                                           *)
(*                                                                         *)
(* Characters are numbers, and a name is a sequence of them without the    *)
(* NUL.  A client is the place of a task in its loop; what the dirent is   *)
(* to a client whose entry another one wrote into is left open (mixed).    *)
(*                                                                         *)
(* Bounds: numbers wrap at Word (2^32); what is mounted has at most        *)
(* MaxFiles files; a dirent has room for DirentSize characters (128).      *)
(***************************************************************************)
EXTENDS MakeInitrd

CONSTANTS Clients, Word, MaxFiles, DirentSize,
          Image,             \* where the image is linked
          FieldOffsets, FieldLengths,    \* what lies in the fields of a header
          Junk               \* what kmalloc's memory can hold behind a name

Nul == 0
Dev == <<100, 101, 118>>
Null == 0
RootNode == -1
DevNode == -2

ASSUME MountAssumption ==
  /\ Word \in Nat /\ MaxFiles \in Nat /\ MaxFiles < Word
  /\ DirentSize \in Nat /\ DirentSize > Len(Dev)
  /\ Image \in Nat /\ Image > Slots
  /\ FieldOffsets \cup FieldLengths \subseteq 0..(Word - 1)
  /\ Names \subseteq Seq(Nat \ {Nul}) /\ Junk \subseteq Seq(Nat \ {Nul})

VARIABLES mounted,           \* history: the headers initialise_initrd found
          file_headers, root_nodes,            \* root_nodes: their names
          dirent,            \* its characters, then the first byte of inode_no
          client

fs_vars == <<mounted, file_headers, root_nodes, dirent, client>>
vars == <<pack_vars, fs_vars>>

InodeNo == DirentSize + 1

Idle == [at |-> "idle", node |-> Null, index |-> 0, listed |-> <<>>,
         copied |-> 0, mixed |-> FALSE,
         from |-> 0, start |-> 0, source |-> 0]

Init ==
  /\ PackInit
  /\ mounted = <<>> /\ file_headers = <<>> /\ root_nodes = <<>>
  /\ dirent = [i \in 1..InodeNo |-> Nul] /\ client = [c \in Clients |-> Idle]

-----------------------------------------------------------------------------
(* initialise_initrd *)

\* strcpy leaves out the NUL, unless it is all there is.
StrCpy(name) == IF name = <<>> THEN {name} ELSE {name \o junk : junk \in Junk}

Text == UNION {StrCpy(name) : name \in Names}

File == [name : Names, offset : FieldOffsets, length : FieldLengths]
Table == UNION {[1..n -> File] : n \in 0..MaxFiles}

\* main passes the first word of the image, not its address.
Location == nheaders % Word

\* sizeof(initrd_header_t) is added to a pointer to words.
FileHeaders(location) == location + 16

\* What is read as headers is what make_initrd wrote, or whatever lies there.
HeadersAt(location) ==
  IF location = Image /\ FileHeaders(location) = Image + 4 THEN {headers}
                                                          ELSE Table

\* What is added to an offset is the word at location, the number of files.
Relocated(header, nfiles) ==
  [header EXCEPT !.offset = (@ + nfiles) % Word]

Mount ==
  /\ stage = "packed"
  /\ \E table \in HeadersAt(Location) :
       /\ mounted' = table
       /\ file_headers' = [k \in DOMAIN table |-> Relocated(table[k], Len(table))]
       /\ root_nodes' \in {names \in [DOMAIN table -> Text] :
            \A k \in DOMAIN table : names[k] \in StrCpy(table[k].name)}
  /\ stage' = "mounted"
  /\ args' = 1 /\ headers' = <<>> /\ off' = TableEnd % UInt /\ data' = <<>>
  /\ UNCHANGED <<dirent, client>>

-----------------------------------------------------------------------------
(* fs.c and the functions of initrd.c it calls *)

IsDirectory(node) == node \in {RootNode, DevNode}
IsFile(node) == node \in DOMAIN root_nodes

PastEndLess(index) == (index - 1) % Word >= Len(root_nodes) - 1  \* mutant
PastEnd(index) == (index - 1) % Word >= Len(root_nodes)

\* The name that readdir_fs copies to the dirent; no name: it returns 0.
ReaddirFs(node, index) ==
  CASE ~IsDirectory(node) -> {}
    [] node = RootNode /\ index = 0 -> {Dev}
    [] OTHER -> IF PastEnd(index) THEN {} ELSE {root_nodes[index]}

InodeOf(index) == IF index = 0 THEN 0 ELSE index - 1

\* The name that one who finds the dirent in peace reads from it.
Ends == {i \in 1..InodeNo : dirent[i] = Nul}
NameIn == IF Ends = {} THEN dirent
          ELSE SubSeq(dirent, 1, (CHOOSE i \in Ends : \A n \in Ends : i <= n) - 1)

Named(name) == {k \in DOMAIN root_nodes : root_nodes[k] = name}

FinddirFs(node, name) ==
  CASE ~IsDirectory(node) -> Null
    [] node = RootNode /\ name = Dev -> DevNode
    [] OTHER -> IF Named(name) = {} THEN Null
                ELSE CHOOSE k \in Named(name) : \A n \in Named(name) : k <= n

OffsetBeyond(offset, length) == offset > length

ClippedShort(offset, size, length) ==                         \* mutant
  IF (offset + size) % Word > length THEN (length - offset - 1) % Word ELSE size
Clipped(offset, size, length) ==
  IF (offset + size) % Word > length THEN (length - offset) % Word ELSE size

\* How many bytes read_fs gives, and where memcpy takes the first one from.
ReadFs(node, offset, size) ==
  IF ~IsFile(node) \/ OffsetBeyond(offset, file_headers[node].length) THEN 0
  ELSE Clipped(offset, size, file_headers[node].length)

Source(node, offset) == (file_headers[node].offset + offset) % Word

-----------------------------------------------------------------------------
(* The clients *)

Starts(c, at, node, index) ==
  /\ stage = "mounted" /\ client[c].at = "idle"
  /\ client' = [client EXCEPT ![c] = [Idle EXCEPT !.at = at, !.node = node,
                                        !.from = index, !.index = index]]
  /\ UNCHANGED <<pack_vars, mounted, file_headers, root_nodes, dirent>>

List(c) == \E node \in {RootNode, DevNode} \cup DOMAIN root_nodes :
             Starts(c, "readdir", node, 0)

Readdir(c) ==
  /\ client[c].at = "readdir"
  /\ ReaddirFs(client[c].node, client[c].index) # {}
  /\ client' = [client EXCEPT ![c].at = "strcpy", ![c].copied = 0,
                              ![c].mixed = FALSE]
  /\ UNCHANGED <<pack_vars, mounted, file_headers, root_nodes, dirent>>

\* A store to the dirent also lands in the entry that another client is about
\* to write or to look up.  What lies behind the dirent is not modelled.
InEntry == {"strcpy", "terminate", "inode", "finddir"}

Stores(c, i, value, at) ==
  /\ dirent' = IF i \in 1..InodeNo THEN [dirent EXCEPT ![i] = value] ELSE dirent
  /\ client' = [o \in Clients |->
       IF o = c THEN [client[o] EXCEPT !.at = at, !.copied = @ + 1]
       ELSE [client[o] EXCEPT !.mixed = @ \/ client[o].at \in InEntry]]
  /\ UNCHANGED <<pack_vars, mounted, file_headers, root_nodes>>

\* One turn of the loop in strcpy, which copies the first character in any case.
CopyCharacter(c) ==
  /\ client[c].at = "strcpy"
  /\ \E name \in ReaddirFs(client[c].node, client[c].index) :
       LET i == client[c].copied + 1
       IN Stores(c, i, IF name = <<>> THEN Nul ELSE name[i],
                 IF i < Len(name) THEN "strcpy" ELSE "terminate")

EndPlaceLate(name) == Len(name) + 2                           \* mutant
EndPlace(name) == Len(name) + 1

Terminate(c) ==
  /\ client[c].at = "terminate"
  /\ \E name \in ReaddirFs(client[c].node, client[c].index) :
       Stores(c, EndPlace(name), Nul, "inode")

StoreInode(c) ==
  /\ client[c].at = "inode"
  /\ Stores(c, InodeNo, InodeOf(client[c].index) % 256, "finddir")

Torn == [name |-> <<>>, node |-> Null, mixed |-> TRUE]

\* The client looks the entry up and goes on to the next one.
Finddir(c) ==
  /\ client[c].at = "finddir"
  /\ LET entry == IF client[c].mixed THEN Torn
                  ELSE [name |-> NameIn, mixed |-> FALSE,
                        node |-> FinddirFs(client[c].node, NameIn)]
     IN client' = [client EXCEPT ![c].at = "readdir", ![c].index = @ + 1,
                                 ![c].listed = Append(@, entry)]
  /\ UNCHANGED <<pack_vars, mounted, file_headers, root_nodes, dirent>>

Listed(c) ==
  /\ client[c].at = "readdir"
  /\ ReaddirFs(client[c].node, client[c].index) = {}
  /\ client' = [client EXCEPT ![c].at = "listed"]
  /\ UNCHANGED <<pack_vars, mounted, file_headers, root_nodes, dirent>>

Open(c) == \E node \in {RootNode} \cup DOMAIN root_nodes,
               offset \in 0..(Word - 1) : Starts(c, "read", node, offset)

\* Reading goes on where the last read ended, until nothing more comes; index
\* is the offset.  Where offset and size wrap around, a client may have got
\* more than the file.
Read(c) ==
  /\ client[c].at = "read"
  /\ \E size \in 1..(Word - 1) :
       LET node == client[c].node
           index == client[c].index
           count == ReadFs(node, index, size)
       IN client' = [client EXCEPT
            ![c].index = (index + count) % Word,
            ![c].at = IF count = 0 THEN "end"
                      ELSE IF index + size >= Word THEN "astray" ELSE "read",
            ![c].start = IF count = 0 THEN @ ELSE index,
            ![c].source = IF count = 0 THEN @ ELSE Source(node, index)]
  /\ UNCHANGED <<pack_vars, mounted, file_headers, root_nodes, dirent>>

Finish(c) ==
  /\ client[c].at \in {"listed", "end", "astray"}
  /\ client' = [client EXCEPT ![c] = Idle]
  /\ UNCHANGED <<pack_vars, mounted, file_headers, root_nodes, dirent>>

Next ==
  \/ Pack /\ UNCHANGED fs_vars
  \/ Mount
  \/ \E c \in Clients :
       \/ List(c) \/ Readdir(c) \/ CopyCharacter(c) \/ Terminate(c)
       \/ StoreInode(c) \/ Finddir(c) \/ Listed(c)
       \/ Open(c) \/ Read(c) \/ Finish(c)

Spec == Init /\ [][Next]_vars

-----------------------------------------------------------------------------

\* A listing has as many entries as the directory, however many clients list at
\* once: dev and every file of root, nothing for dev or a file.  An entry that
\* no other client wrote into while this one filled it and looked it up is the
\* one of its place, in full, and begins with the name in the file's header; it
\* is found: as dev, or the first file of that name.  (One that others wrote
\* into is torn; and a name that does not fit the dirent with its NUL ends in
\* the inode_no behind it.)
ListingComplete ==
  \A c \in Clients :
    LET node == client[c].node
        listed == client[c].listed
        all == IF node = RootNode THEN <<Dev>> \o root_nodes ELSE <<>>
    IN /\ client[c].at = "listed" => Len(listed) = Len(all)
       /\ \A k \in DOMAIN listed :
            ~listed[k].mixed /\ Len(all[k]) < DirentSize =>
              /\ listed[k].name = all[k]
              /\ k > 1 => \A i \in DOMAIN mounted[k - 1].name :
                            all[k][i] = mounted[k - 1].name[i]
              /\ IF all[k] = Dev THEN listed[k].node = DevNode
                 ELSE /\ listed[k].node \in DOMAIN root_nodes
                      /\ root_nodes[listed[k].node] = all[k]
                      /\ \A n \in 1..(listed[k].node - 1) : root_nodes[n] # all[k]

\* Where the bytes of a file are taken from.
Base(k) == (mounted[k].offset + Len(mounted)) % Word

\* Whatever offset a client starts from, what it gets is bytes of the file, as
\* many as its header says, unless offset and size wrap around; reading on until
\* nothing more comes it gets all the rest of the file, and of a directory
\* nothing.  Byte n of a file is always that at Base + n: an offset in the
\* image and the number of files, not the address of the image.
ReadsAreExact ==
  \A c \in Clients :
    LET node == client[c].node
        index == client[c].index
        from == client[c].from
        start == client[c].start
    IN /\ client[c].at \in {"read", "end"} /\ index # from =>
            /\ IsFile(node) /\ index \in from..mounted[node].length
            /\ start \in from..index
            /\ client[c].source = (Base(node) + start) % Word
       /\ client[c].at = "end" /\ IsFile(node) => index >= mounted[node].length

\* "It gets passed the address of the multiboot module, and returns a
\* completed filesystem node." (initrd.h:24)  The files that were packed are
\* those that are mounted.
PackedIsMounted ==
  [][stage = "packed" /\ stage' = "mounted" =>
       [k \in DOMAIN mounted' |-> mounted'[k].length] =
         [k \in DOMAIN headers |-> headers[k].length]]_vars

=============================================================================
