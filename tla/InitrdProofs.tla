---------------------------- MODULE InitrdProofs ----------------------------
(***************************************************************************)
(* Proofs about the ramdisk, for every range of char and unsigned int,     *)
(* number of slots, word, size of the dirent, and number of clients: what  *)
(* make_initrd writes agrees with the headers it writes; what a client of  *)
(* readdir_fs lists and finds is the directory as far as no other one gets *)
(* into the dirent; and initrd_read keeps to the file of a header.         *)
(***************************************************************************)
EXTENDS Initrd, SequenceTheorems, WellFoundedInduction, TLAPS

USE ArgumentAssumption, MountAssumption

-----------------------------------------------------------------------------
(* The count of arguments kept in a char *)

\* The number of headers never exceeds the table, because a char is at most
\* half its range; an argument count that fits is not changed.
LEMMA HeadersFit ==
  ASSUME args \in Nat
  PROVE  /\ nheaders \in Int /\ nheaders <= Slots
         /\ args \in 1..(CharRange \div 2 - 1) => nheaders = (args - 1) \div 2
<1> DEFINE low == args % CharRange
           char == SignedChar(args)
           half == CharRange \div 2
<1>1. low \in 0..(CharRange - 1)
  OBVIOUS
<1>2. half \in Nat /\ CharRange \div 4 \in Nat /\ half <= 2 * (CharRange \div 4) + 1
  OBVIOUS
<1>3. char \in Int /\ char < half
  <2>1. char = IF low >= half THEN low - CharRange ELSE low
    BY DEF SignedChar
  <2> HIDE DEF char, low, half
  <2>2. QED
    BY <1>1, <1>2, <2>1
<1>4. nheaders = IF char - 1 < 0 THEN -((-(char - 1)) \div 2)
                                 ELSE (char - 1) \div 2
  BY DEF nheaders, Halved
<1>5. nheaders \in Int /\ nheaders <= Slots
  <2> HIDE DEF char, low, half
  <2>1. CASE char - 1 < 0
    <3>1. (-(char - 1)) \div 2 \in Nat
      BY <2>1, <1>3
    <3>2. QED
      BY <2>1, <3>1, <1>4
  <2>2. CASE ~(char - 1 < 0)
    <3>1. (char - 1) \div 2 \in Nat /\ 2 * ((char - 1) \div 2) <= char - 1
      BY <2>2, <1>3
    <3>2. nheaders = (char - 1) \div 2
      BY <2>2, <1>4
    <3>3. 2 * nheaders < 2 * (CharRange \div 4) + 1
      BY <3>1, <3>2, <1>2, <1>3
    <3>4. QED
      BY <3>1, <3>2, <3>3, <1>2
  <2>3. QED
    BY <2>1, <2>2
<1>6. ASSUME args \in 1..(half - 1) PROVE nheaders = (args - 1) \div 2
  <2>1. args < CharRange /\ args < half
    BY <1>6
  <2>2. low = args
    BY <2>1
  <2>3. char = args
    BY <2>1, <2>2 DEF SignedChar
  <2> HIDE DEF char, low, half
  <2>4. ~(char - 1 < 0)
    BY <2>3, <1>6
  <2>5. QED
    BY <2>3, <2>4, <1>4
<1>7. QED
  BY <1>5, <1>6

LEMMA SameHeaders == ASSUME args' = args PROVE nheaders' = nheaders
  BY DEF nheaders, SignedChar, Halved

-----------------------------------------------------------------------------
(* make_initrd *)

Header == [name : Names, offset : Nat, length : Nat]

EndOf(k) == headers[k].offset + headers[k].length

Told(x) == x % UInt

LEMMA ToldType == ASSUME NEW x \in Nat PROVE Told(x) \in Nat
  BY SMT DEF Told

LEMMA ToldHere == ASSUME NEW x \in Nat, x < UInt PROVE Told(x) = x
<1>1. x \in 0..(UInt - 1)
  OBVIOUS
<1>2. QED
  BY <1>1, SMT DEF Told

\* Each file begins where the one before it ends, as an unsigned int tells it.
Chained ==
  /\ headers # <<>> => headers[1].offset = Told(TableEnd)
  /\ \A k \in 1..(Len(headers) - 1) : headers[k + 1].offset = Told(EndOf(k))

\* As many headers as were asked for, none if the count is negative.
AllHeaders == Len(headers) = IF nheaders < 0 THEN 0 ELSE nheaders

PackInv ==
  /\ stage \in {"measure", "failed", "write", "packed", "mounted"}
  /\ args \in Nat \ {0}
  /\ headers \in Seq(Header) /\ data \in Seq(Nat)
  /\ Len(headers) <= Slots
  /\ Chained
  /\ stage = "measure" =>
       /\ headers = <<>> \/ Len(headers) <= nheaders
       /\ off = IF headers = <<>> THEN Told(TableEnd) ELSE Told(EndOf(Len(headers)))
       /\ data = <<>>
  /\ stage \in {"write", "packed"} => AllHeaders
  /\ Len(data) <= Len(headers)
  /\ \A k \in 1..Len(data) : data[k] < UInt => data[k] = headers[k].offset
  /\ stage = "packed" => Len(data) = Len(headers)

LEMMA TableEndType == TableEnd \in Nat /\ Written = TableEnd
  BY DEF TableEnd, Written

LEMMA PackInitInv == PackInit => PackInv
  BY DEF PackInit, PackInv, Chained, Told

LEMMA MeasureStep ==
  ASSUME PackInv, NEW name \in Names, NEW length \in Lengths,
         Measure(name, length)
  PROVE  PackInv'
<1> DEFINE new == [name |-> name, offset |-> off, length |-> Told(length)]
<1> USE DEF PackInv
<1>1. /\ stage = "measure" /\ Len(headers) < nheaders /\ data = <<>>
      /\ headers' = Append(headers, new) /\ off' = Told(off + Told(length))
      /\ UNCHANGED <<stage, args, data>>
  BY DEF Measure, Told
<1>2. off \in Nat /\ Told(length) \in Nat
  <2>0. length \in Nat
    OBVIOUS
  <2>1. CASE headers = <<>>
    BY <2>0, <2>1, <1>1, TableEndType, ToldType
  <2>2. CASE headers # <<>>
    <3>1. Len(headers) \in 1..Len(headers)
      BY <2>2, EmptySeq
    <3>2. headers[Len(headers)] \in Header
      BY <3>1
    <3>3. EndOf(Len(headers)) \in Nat
      BY <3>2 DEF EndOf, Header
    <3>4. QED
      BY <2>0, <2>2, <3>3, <1>1, ToldType
  <2>3. QED
    BY <2>1, <2>2
<1>3. new \in Header
  BY <1>2 DEF Header
<1>4. /\ headers' \in Seq(Header) /\ Len(headers') = Len(headers) + 1
      /\ \A k \in 1..Len(headers) : headers'[k] = headers[k]
      /\ headers'[Len(headers) + 1] = new /\ headers' # <<>>
  BY <1>1, <1>3
<1>5. nheaders' = nheaders /\ nheaders \in Int /\ nheaders <= Slots
  BY <1>1, SameHeaders, HeadersFit
<1>6. Len(headers) \in Nat /\ Len(headers') <= nheaders /\ Len(headers') <= Slots
  BY <1>1, <1>4, <1>5, LenProperties
<1>7. Chained'
  <2>1. headers'[1].offset = Told(TableEnd)
    <3>1. CASE headers = <<>>
      BY <3>1, <1>1, <1>4
    <3>2. CASE headers # <<>>
      <4>1. 1 \in 1..Len(headers)
        BY <3>2, <1>6, EmptySeq
      <4>2. QED
        BY <3>2, <4>1, <1>4 DEF Chained
    <3>3. QED
      BY <3>1, <3>2
  <2>2. ASSUME NEW k \in 1..(Len(headers') - 1)
        PROVE  headers'[k + 1].offset = Told(EndOf(k)')
    <3>1. k \in 1..Len(headers) /\ headers'[k] = headers[k]
      BY <1>4, <1>6
    <3>2. CASE k < Len(headers)
      <4>1. k + 1 \in 1..Len(headers) /\ k \in 1..(Len(headers) - 1)
        BY <3>2, <1>6
      <4>2. QED
        BY <3>1, <4>1, <1>4 DEF Chained, EndOf
    <3>3. CASE k = Len(headers)
      <4>1. headers # <<>> /\ off = Told(EndOf(k))
        BY <3>3, <3>1, <1>1
      <4>2. QED
        BY <3>1, <3>3, <4>1, <1>4 DEF EndOf
    <3>4. QED
      BY <3>1, <3>2, <3>3, <1>6
  <2>3. QED
    BY <2>1, <2>2 DEF Chained, TableEnd, Told
<1>8. off' = Told(EndOf(Len(headers))')
  BY <1>1, <1>4 DEF EndOf
<1>9. QED
  BY <1>1, <1>4, <1>5, <1>6, <1>7, <1>8 DEF Told

LEMMA WriteTableStep == ASSUME PackInv, WriteTable PROVE PackInv'
<1>1. nheaders' = nheaders /\ nheaders \in Int
  BY SameHeaders, HeadersFit DEF PackInv, WriteTable
<1>2. AllHeaders'
  <2>1. Len(headers) \in Nat
    BY DEF PackInv
  <2>2. CASE headers = <<>>
    BY <1>1, <2>2, EmptySeq DEF PackInv, WriteTable, AllHeaders
  <2>3. CASE headers # <<>>
    BY <1>1, <2>1, <2>3, EmptySeq DEF PackInv, WriteTable, AllHeaders
  <2>4. QED
    BY <2>2, <2>3
<1>3. QED
  BY <1>2 DEF PackInv, WriteTable, Chained, EndOf, TableEnd, Told

LEMMA WriteFileStep == ASSUME PackInv, WriteFile PROVE PackInv'
<1> USE DEF PackInv
<1>1. /\ stage = "write" /\ Len(data) < nheaders
      /\ data' = Append(data, Place)
      /\ UNCHANGED <<stage, args, headers, off>>
  BY DEF WriteFile
<1>2. nheaders' = nheaders /\ nheaders \in Int
  BY <1>1, SameHeaders, HeadersFit
<1>3. Len(data) \in Nat /\ Len(data) + 1 \in 1..Len(headers)
  BY <1>1, <1>2 DEF AllHeaders
<1>4. Place \in Nat /\ (Place < UInt => Place = headers[Len(data) + 1].offset)
  <2>1. headers[Len(data) + 1] \in Header
    BY <1>3
  <2>2. CASE data = <<>>
    <3>1. Len(data) + 1 = 1 /\ headers # <<>>
      BY <2>2, <1>3
    <3>2. Place = TableEnd /\ headers[1].offset = Told(TableEnd)
      BY <2>2, <3>1, TableEndType DEF Place, Chained
    <3>3. QED
      BY <3>1, <3>2, TableEndType, ToldHere
  <2>3. CASE data # <<>>
    <3>1. Len(data) \in 1..Len(data) /\ Len(data) \in 1..(Len(headers) - 1)
          /\ Len(data) \in 1..Len(headers)
      BY <2>3, <1>3, EmptySeq
    <3>2. /\ Last(data) = data[Len(data)] /\ data[Len(data)] \in Nat
          /\ headers[Len(data)] \in Header
      BY <3>1 DEF Last
    <3> DEFINE start == data[Len(data)]
               length == headers[Len(data)].length
    <3>3. Place = start + length /\ start \in Nat /\ length \in Nat
      BY <2>3, <3>2 DEF Place, Header
    <3>4. headers[Len(data) + 1].offset = Told(EndOf(Len(data)))
      BY <3>1 DEF Chained
    <3>5. start < UInt => start = headers[Len(data)].offset
      BY <3>1
    <3>6. EndOf(Len(data)) = headers[Len(data)].offset + length
      BY DEF EndOf
    <3> HIDE DEF start, length
    <3>7. ASSUME Place < UInt PROVE Place = headers[Len(data) + 1].offset
      <4>1. start < UInt
        BY <3>3, <3>7
      <4>2. EndOf(Len(data)) = Place
        BY <3>3, <3>5, <3>6, <4>1
      <4>3. QED
        BY <3>3, <3>4, <3>7, <4>2, ToldHere
    <3>8. QED
      BY <3>3, <3>7
  <2>4. QED
    BY <2>2, <2>3
<1>5. /\ data' \in Seq(Nat) /\ Len(data') = Len(data) + 1
      /\ \A k \in 1..Len(data) : data'[k] = data[k]
      /\ data'[Len(data) + 1] = Place
  BY <1>1, <1>4
<1>6. \A k \in 1..Len(data') : data'[k] < UInt => data'[k] = headers'[k].offset
  <2> SUFFICES ASSUME NEW k \in 1..Len(data'), data'[k] < UInt
               PROVE  data'[k] = headers[k].offset
    BY <1>1
  <2>1. k \in 1..Len(data) \/ k = Len(data) + 1
    BY <1>3, <1>5
  <2>2. QED
    BY <2>1, <1>4, <1>5
<1>7. AllHeaders' /\ Chained'
  BY <1>1, <1>2 DEF AllHeaders, Chained, EndOf, TableEnd, Told
<1>8. QED
  BY <1>1, <1>3, <1>5, <1>6, <1>7

LEMMA CloseStep == ASSUME PackInv, Close PROVE PackInv'
<1>1. nheaders' = nheaders /\ nheaders \in Int
  BY SameHeaders, HeadersFit DEF PackInv, Close
<1>2. Len(data) = Len(headers)
  <2>1. Len(data) \in Nat /\ Len(headers) \in Nat
    BY DEF PackInv
  <2>2. QED
    BY <1>1, <2>1 DEF PackInv, Close, AllHeaders
<1>3. QED
  BY <1>1, <1>2 DEF PackInv, Close, Chained, EndOf, TableEnd, AllHeaders, Told

LEMMA PackStep == ASSUME PackInv, Pack PROVE PackInv'
<1>1. ASSUME NEW name \in Names, NEW length \in Lengths, Measure(name, length)
      PROVE  PackInv'
  BY <1>1, MeasureStep
<1>2. CASE FileNotFound
  BY <1>2 DEF FileNotFound, PackInv, Chained, EndOf, TableEnd, Told
<1>3. QED
  BY <1>1, <1>2, WriteTableStep, WriteFileStep, CloseStep DEF Pack

LEMMA MountPackStep == ASSUME PackInv, Mount PROVE PackInv'
<1>1. /\ stage' = "mounted" /\ args' = 1 /\ headers' = <<>> /\ data' = <<>>
  BY DEF Mount
<1>2. QED
  BY <1>1 DEF PackInv, Chained

LEMMA SamePack == ASSUME PackInv, UNCHANGED pack_vars PROVE PackInv'
<1>1. nheaders' = nheaders
  BY SameHeaders DEF pack_vars
<1>2. QED
  BY <1>1 DEF pack_vars, PackInv, Chained, EndOf, TableEnd, AllHeaders, Told

LEMMA NextPack == PackInv /\ [Next]_vars => PackInv'
<1> SUFFICES ASSUME PackInv, [Next]_vars PROVE PackInv'
  OBVIOUS
<1>1. Pack \/ Mount \/ UNCHANGED pack_vars
  BY DEF Next, vars, List, Readdir, CopyCharacter, Terminate, StoreInode,
         Stores, Finddir, Listed, Open, Read, Finish, Starts
<1>2. QED
  BY <1>1, PackStep, MountPackStep, SamePack

\* What make_initrd keeps while it runs.
THEOREM PackInvariance == Spec => []PackInv
<1>1. Init => PackInv
  BY PackInitInv DEF Init
<1>2. QED
  BY <1>1, NextPack, PTL DEF Spec

\* However many arguments there are, the headers fit the table; and however long
\* the files are, the image has each where its header says, if an unsigned int
\* can say where (all of them, in an image of less than 2^32 bytes).
THEOREM PackTheorem == Spec => []PackTiles
<1>1. PackInv => PackTiles
  <2> SUFFICES ASSUME PackInv PROVE PackTiles
    OBVIOUS
  <2>1. Len(headers) \in Nat /\ DOMAIN headers = 1..Len(headers)
    BY DEF PackInv
  <2>2. ASSUME stage = "packed"
        PROVE  \A k \in DOMAIN headers :
                 data[k] < UInt => data[k] = headers[k].offset
    BY <2>1, <2>2 DEF PackInv
  <2>3. ASSUME stage = "packed", args < CharRange \div 2
        PROVE  Len(headers) = (args - 1) \div 2 /\ nheaders = Len(headers)
    <3>1. args \in 1..(CharRange \div 2 - 1)
      BY <2>3 DEF PackInv
    <3>2. nheaders = (args - 1) \div 2 /\ (args - 1) \div 2 \in Nat
      BY <3>1, HeadersFit
    <3>3. QED
      BY <2>3, <3>2 DEF PackInv, AllHeaders
  <2>4. QED
    BY <2>2, <2>3 DEF PackTiles, PackInv
<1>2. QED
  BY <1>1, PackInvariance, PTL

-----------------------------------------------------------------------------
(* What the kernel mounts and what clients see of it: states as arguments, *)
(* so that a step that changes one client is one of its record only        *)

Chars == Seq(Nat \ {Nul})
Entry == [name : Seq(Nat), node : Int, mixed : BOOLEAN]
Client == [at : {"idle", "readdir", "listed", "read", "end", "astray"}
                  \cup InEntry,
           node : Int, index : Nat, listed : Seq(Entry), copied : Nat,
           mixed : BOOLEAN, from : Nat, start : Nat, source : Nat]

AllNames(nodes) == <<Dev>> \o nodes
Directory(node, nodes) == IF node = RootNode THEN AllNames(nodes) ELSE <<>>

IsFound(name, node, nodes) ==
  IF name = Dev THEN node = DevNode
  ELSE /\ node \in DOMAIN nodes /\ nodes[node] = name
       /\ \A n \in 1..(node - 1) : nodes[n] # name

\* What the dirent holds of the entry a client is filling or looking up, as long
\* as no other one has written into it.
Filled(r, name, cells) ==
  /\ IF r.at = "strcpy" THEN name = <<>> \/ r.copied < Len(name)
                        ELSE r.copied >= Len(name)
  /\ ~r.mixed =>
       /\ \A i \in 1..Len(name) :
            i <= r.copied /\ i <= DirentSize => cells[i] = name[i]
       /\ r.at \in {"inode", "finddir"} /\ Len(name) < DirentSize =>
            cells[Len(name) + 1] = Nul

\* A listing is as far as index says.
Listing(r, nodes, cells) ==
  /\ r.at \in {"readdir", "listed"} \cup InEntry =>
       /\ r.index = Len(r.listed)
       /\ Len(r.listed) <= Len(Directory(r.node, nodes))
  /\ r.at \in InEntry =>
       /\ r.node = RootNode /\ r.index < Len(AllNames(nodes))
       /\ Filled(r, AllNames(nodes)[r.index + 1], cells)
  /\ r.at = "listed" => Len(r.listed) = Len(Directory(r.node, nodes))
  /\ r.at \in {"idle", "read", "end", "astray"} => r.listed = <<>>

IsRight(entry, name, nodes) ==
  ~entry.mixed /\ Len(name) < DirentSize =>
    entry.name = name /\ IsFound(name, entry.node, nodes)

AllRight(r, nodes) ==
  \A k \in 1..Len(r.listed) : IsRight(r.listed[k], AllNames(nodes)[k], nodes)

Reading(r, heads) ==
  r.at \in {"read", "end"} =>
    /\ r.index \in 0..(Word - 1) /\ r.from \in 0..(Word - 1)
    /\ r.index # r.from =>
         /\ r.node \in DOMAIN heads
         /\ r.index \in r.from..heads[r.node].length
         /\ r.start \in r.from..r.index
         /\ r.source = (heads[r.node].offset + r.start) % Word
    /\ r.at = "end" /\ r.node \in DOMAIN heads =>
         r.index >= heads[r.node].length

ClientInv(r, nodes, heads, cells) ==
  /\ r \in Client
  /\ Listing(r, nodes, cells) /\ AllRight(r, nodes) /\ Reading(r, heads)

\* What is mounted is what was found, with its offsets moved and its names
\* perhaps longer.
Loaded ==
  /\ root_nodes \in Seq(Chars) /\ Len(root_nodes) < Word
  /\ DOMAIN file_headers = DOMAIN root_nodes
  /\ \A k \in DOMAIN root_nodes :
       /\ file_headers[k].offset \in Nat
       /\ file_headers[k].length \in 0..(Word - 1)
       /\ file_headers[k].offset = Base(k)
       /\ file_headers[k].length = mounted[k].length
       /\ \A i \in DOMAIN mounted[k].name :
            root_nodes[k][i] = mounted[k].name[i]

FsInv ==
  /\ Loaded
  /\ dirent \in [1..InodeNo -> Nat]
  /\ client = [c \in Clients |-> client[c]]
  /\ \A c \in Clients : ClientInv(client[c], root_nodes, file_headers, dirent)
  /\ stage # "mounted" => \A c \in Clients : client[c].at = "idle"

-----------------------------------------------------------------------------

Counted(x) == x % Word

LEMMA CountedHere ==
  ASSUME NEW x \in 0..(Word - 1)
  PROVE  Counted(x) = x
  BY SMT DEF Counted

LEMMA CountedBelow == Word > 0 => Counted(-1) = Word - 1
  BY SMT DEF Counted

LEMMA CountedType ==
  ASSUME NEW x \in Int, Word > 0
  PROVE  Counted(x) \in 0..(Word - 1)
  BY SMT DEF Counted

\* Some number of a set is the smallest.
LEMMA NatMin ==
  ASSUME NEW S \in SUBSET Nat, S # {}
  PROVE  \E x \in S : \A y \in S : x <= y
<1>1. PICK x \in S : \A y \in S : ~ (<<y, x>> \in OpToRel(<, Nat))
  BY NatLessThanWellFounded, WFMin
<1>2. ASSUME NEW y \in S PROVE x <= y
  <2>1. ~(y < x)
    BY <1>1 DEF OpToRel
  <2>2. QED
    BY <2>1
<1>3. QED
  BY <1>2

LEMMA DevType == Dev \in Chars /\ Len(Dev) = 3 /\ Dev # <<>>
  BY DEF Dev, Chars, Nul

LEMMA AllNamesFacts ==
  ASSUME NEW nodes \in Seq(Chars)
  PROVE  /\ AllNames(nodes) \in Seq(Chars)
         /\ Len(AllNames(nodes)) = Len(nodes) + 1
         /\ AllNames(nodes)[1] = Dev
         /\ \A k \in 1..Len(nodes) : AllNames(nodes)[k + 1] = nodes[k]
<1>1. Len(nodes) \in Nat
  OBVIOUS
<1>2. <<Dev>> \in Seq(Chars) /\ Len(<<Dev>>) = 1
  BY DevType
<1>3. \A k \in 1..(1 + Len(nodes)) : (<<Dev>> \o nodes)[k] =
        IF k <= 1 THEN <<Dev>>[k] ELSE nodes[k - 1]
  BY <1>2, ConcatProperties
<1>4. <<Dev>> \o nodes \in Seq(Chars) /\ Len(<<Dev>> \o nodes) = Len(nodes) + 1
  BY <1>1, <1>2, ConcatProperties
<1>5. (<<Dev>> \o nodes)[1] = Dev
  BY <1>1, <1>3
<1>6. ASSUME NEW k \in 1..Len(nodes) PROVE (<<Dev>> \o nodes)[k + 1] = nodes[k]
  <2>1. k + 1 \in 1..(1 + Len(nodes)) /\ ~(k + 1 <= 1) /\ k + 1 - 1 = k
    BY <1>1
  <2>2. QED
    BY <1>3, <2>1
<1>7. QED
  BY <1>4, <1>5, <1>6 DEF AllNames

\* readdir_fs goes through the names of root one by one, and through no others.
LEMMA ReaddirFacts ==
  ASSUME FsInv, NEW c \in Clients,
         client[c].at \in {"readdir"} \cup InEntry
  PROVE  ReaddirFs(client[c].node, client[c].index) =
           IF /\ client[c].node = RootNode
              /\ client[c].index < Len(AllNames(root_nodes))
           THEN {AllNames(root_nodes)[client[c].index + 1]}
           ELSE {}
<1> DEFINE node == client[c].node
           index == client[c].index
           n == Len(root_nodes)
<1>1. /\ n \in Nat /\ n < Word /\ index \in Nat /\ node \in Int
      /\ index <= Len(Directory(node, root_nodes))
  <2>1. n \in Nat /\ n < Word
    BY DEF FsInv, Loaded
  <2>2. ClientInv(client[c], root_nodes, file_headers, dirent)
    BY DEF FsInv
  <2>3. index \in Nat /\ node \in Int
    BY <2>2 DEF ClientInv, Client
  <2>4. index = Len(client[c].listed)
        /\ Len(client[c].listed) <= Len(Directory(node, root_nodes))
    BY <2>2 DEF ClientInv, Listing
  <2>5. QED
    BY <2>1, <2>3, <2>4
<1>2. /\ Len(AllNames(root_nodes)) = n + 1 /\ AllNames(root_nodes)[1] = Dev
      /\ \A k \in 1..n : AllNames(root_nodes)[k + 1] = root_nodes[k]
  BY AllNamesFacts DEF FsInv, Loaded
<1>3. PastEnd(index) <=> Counted(index - 1) >= n
  BY DEF PastEnd, Counted
<1> HIDE DEF node, index, n
<1>4. CASE node = RootNode
  <2>1. index <= n + 1
    BY <1>1, <1>2, <1>4 DEF Directory
  <2>2. CASE index = 0
    <3>1. ReaddirFs(node, index) = {Dev}
      BY <1>4, <2>2 DEF ReaddirFs, IsDirectory
    <3>2. QED
      BY <3>1, <1>1, <1>2, <1>4, <2>2 DEF node, index
  <2>3. CASE index # 0
    <3>1. index - 1 \in 0..(Word - 1) /\ index - 1 \in 0..n
      BY <2>1, <2>3, <1>1
    <3>2. PastEnd(index) <=> index = n + 1
      BY <3>1, <1>1, <1>3, CountedHere
    <3>3. ReaddirFs(node, index) =
            IF PastEnd(index) THEN {} ELSE {root_nodes[index]}
      BY <1>4, <2>3 DEF ReaddirFs, IsDirectory
    <3>4. CASE index = n + 1
      BY <3>2, <3>3, <3>4, <1>1, <1>2 DEF node, index
    <3>5. CASE index # n + 1
      <4>1. index \in 1..n
        BY <3>5, <2>1, <2>3, <1>1
      <4>2. QED
        <5>1. ReaddirFs(node, index) = {AllNames(root_nodes)[index + 1]}
          BY <4>1, <3>2, <3>3, <3>5, <1>2
        <5>2. index < Len(AllNames(root_nodes))
          BY <4>1, <1>1, <1>2
        <5>3. QED
          BY <5>1, <5>2, <1>4 DEF node, index
    <3>6. QED
      BY <3>4, <3>5
  <2>4. QED
    BY <2>2, <2>3
<1>5. CASE node # RootNode
  <2>1. index = 0
    BY <1>1, <1>5, EmptySeq DEF Directory
  <2>2. PastEnd(index)
    <3>1. Word > 0 /\ index - 1 = -1
      BY <1>1, <2>1
    <3>2. Counted(index - 1) = Word - 1
      BY <3>1, CountedBelow
    <3>3. QED
      BY <3>2, <1>1, <1>3
  <2>3. ReaddirFs(node, index) = {}
    BY <2>2, <1>5 DEF ReaddirFs, IsDirectory
  <2>4. QED
    BY <2>3, <1>5 DEF node, index
<1>6. QED
  BY <1>4, <1>5

\* While an entry is filled, its name is that of its place.
LEMMA EntryName ==
  ASSUME FsInv, NEW c \in Clients, client[c].at \in InEntry
  PROVE  LET name == AllNames(root_nodes)[client[c].index + 1] IN
         /\ ReaddirFs(client[c].node, client[c].index) = {name}
         /\ name \in Chars /\ Len(name) \in Nat
         /\ Filled(client[c], name, dirent)
<1> DEFINE r == client[c]
<1>1. r.node = RootNode /\ r.index < Len(AllNames(root_nodes)) /\ r.index \in Nat
      /\ Filled(r, AllNames(root_nodes)[r.index + 1], dirent)
  BY DEF FsInv, ClientInv, Listing, Client
<1>2. AllNames(root_nodes) \in Seq(Chars) /\ Len(AllNames(root_nodes)) \in Nat
  BY AllNamesFacts DEF FsInv, Loaded
<1>3. r.index + 1 \in 1..Len(AllNames(root_nodes))
  BY <1>1, <1>2
<1>4. AllNames(root_nodes)[r.index + 1] \in Chars
  BY <1>2, <1>3
<1>5. Len(AllNames(root_nodes)[r.index + 1]) \in Nat
  BY <1>4 DEF Chars
<1>6. QED
  BY <1>1, <1>4, <1>5, ReaddirFacts

\* finddir_fs of root returns dev or the first file of a name readdir gave.
LEMMA FinddirFacts ==
  ASSUME FsInv, NEW name,
         name = Dev \/ \E k \in DOMAIN root_nodes : root_nodes[k] = name
  PROVE  /\ FinddirFs(RootNode, name) \in Int
         /\ IsFound(name, FinddirFs(RootNode, name), root_nodes)
<1>1. CASE name = Dev
  BY <1>1 DEF FinddirFs, IsDirectory, IsFound, DevNode, RootNode
<1>2. CASE name # Dev
  <2> DEFINE first(k) == \A n \in Named(name) : k <= n
  <2>1. DOMAIN root_nodes = 1..Len(root_nodes) /\ Len(root_nodes) \in Nat
    BY DEF FsInv, Loaded
  <2>2. Named(name) \in SUBSET Nat /\ Named(name) # {}
    BY <1>2, <2>1 DEF Named
  <2>3. \E k \in Named(name) : first(k)
    BY <2>2, NatMin
  <2>4. FinddirFs(RootNode, name) = CHOOSE k \in Named(name) : first(k)
    BY <1>2, <2>2 DEF FinddirFs, IsDirectory
  <2>5. /\ FinddirFs(RootNode, name) \in Named(name)
        /\ first(FinddirFs(RootNode, name))
    BY <2>3, <2>4
  <2>6. PICK k \in Named(name) : k = FinddirFs(RootNode, name) /\ first(k)
    BY <2>5
  <2>7. k \in 1..Len(root_nodes) /\ root_nodes[k] = name
    BY <2>1 DEF Named
  <2>8. ASSUME NEW n \in 1..(k - 1) PROVE root_nodes[n] # name
    <3>1. n \in 1..Len(root_nodes) /\ ~(k <= n)
      BY <2>1, <2>7
    <3>2. n \notin Named(name)
      BY <2>6, <3>1
    <3>3. QED
      BY <2>1, <3>1, <3>2 DEF Named
  <2>9. QED
    BY <1>2, <2>1, <2>6, <2>7, <2>8 DEF IsFound
<1>3. QED
  BY <1>1, <1>2


\* A dirent that holds a name and its NUL reads as that name.
LEMMA NameInFacts ==
  ASSUME dirent \in [1..InodeNo -> Nat], NEW name \in Chars,
         Len(name) < DirentSize, dirent[Len(name) + 1] = Nul,
         \A i \in 1..Len(name) : dirent[i] = name[i]
  PROVE  NameIn = name
<1> DEFINE end == Len(name) + 1
           first(i) == \A n \in Ends : i <= n
           chosen == CHOOSE i \in Ends : first(i)
<1>1. Len(name) \in Nat /\ \A i \in 1..Len(name) : name[i] # Nul /\ name[i] \in Nat
  BY DEF Chars, Nul
<1>2. end \in Ends
  BY <1>1 DEF Ends, InodeNo
<1>3. first(end)
  <2> SUFFICES ASSUME NEW n \in Ends PROVE end <= n
    OBVIOUS
  <2>1. n \in 1..InodeNo /\ dirent[n] = Nul
    BY DEF Ends
  <2>2. n \notin 1..Len(name)
    BY <1>1, <2>1
  <2>3. QED
    BY <1>1, <2>1, <2>2 DEF InodeNo
<1>4. chosen \in Ends /\ first(chosen)
  BY <1>2, <1>3
<1>5. chosen = end
  <2>1. chosen \in Nat /\ end \in Nat
    BY <1>1, <1>4 DEF Ends, InodeNo
  <2> HIDE DEF chosen, end
  <2>2. QED
    BY <1>2, <1>3, <1>4, <2>1
<1>6. NameIn = SubSeq(dirent, 1, Len(name))
  <2>1. NameIn = SubSeq(dirent, 1, chosen - 1)
    <3>1. Ends # {}
      BY <1>2
    <3>2. QED
      BY <3>1, Zenon DEF NameIn
  <2>2. chosen - 1 = Len(name)
    <3> HIDE DEF chosen
    <3>1. QED
      BY <1>1, <1>5
  <2> HIDE DEF chosen
  <2>3. QED
    BY <2>1, <2>2
<1>7. \A i \in 1..Len(name) : dirent[i] \in Nat
  BY <1>1
<1>8. /\ SubSeq(dirent, 1, Len(name)) \in Seq(Nat)
      /\ Len(SubSeq(dirent, 1, Len(name))) = Len(name)
      /\ \A i \in 1..Len(name) : SubSeq(dirent, 1, Len(name))[i] = dirent[i]
  <2>1. /\ SubSeq(dirent, 1, Len(name)) \in Seq(Nat)
        /\ Len(SubSeq(dirent, 1, Len(name))) =
             IF 1 <= Len(name) THEN Len(name) - 1 + 1 ELSE 0
        /\ \A i \in 1..(Len(name) - 1 + 1) :
             SubSeq(dirent, 1, Len(name))[i] = dirent[1 + i - 1]
    BY <1>1, <1>7, SubSeqProperties
  <2>2. \A i \in 1..Len(name) : 1 + i - 1 = i
    OBVIOUS
  <2>3. QED
    BY <1>1, <2>1, <2>2
<1>9. name \in Seq(Nat)
  BY DEF Chars
<1>10. QED
  BY <1>6, <1>8, <1>9, SeqEqual

-----------------------------------------------------------------------------
(* The steps of the clients *)

\* A client begins.
LEMMA StartInv ==
  ASSUME NEW nodes, NEW heads, NEW cells, NEW at \in {"readdir", "read"},
         NEW node \in Int, NEW index \in 0..(Word - 1),
         at = "readdir" => index = 0, Len(Directory(node, nodes)) \in Nat
  PROVE  ClientInv([Idle EXCEPT !.at = at, !.node = node, !.from = index,
                                !.index = index], nodes, heads, cells)
<1> DEFINE r == [Idle EXCEPT !.at = at, !.node = node, !.from = index,
                             !.index = index]
<1>1. /\ r \in Client /\ r.at = at /\ r.node = node /\ r.index = index
      /\ r.from = index /\ r.listed = <<>>
  <2>1. Idle \in Client /\ Idle.listed = <<>>
    BY EmptySeq DEF Idle, Client, Null
  <2>2. index \in Nat /\ at \in {"readdir", "read"} /\ node \in Int
    OBVIOUS
  <2>3. QED
    BY <2>1, <2>2 DEF Client
<1> HIDE DEF r
<1>2. Listing(r, nodes, cells)
  BY <1>1, EmptySeq DEF Listing, InEntry
<1>3. AllRight(r, nodes) /\ Reading(r, heads)
  BY <1>1, EmptySeq DEF AllRight, Reading
<1>4. QED
  BY <1>1, <1>2, <1>3 DEF ClientInv, r

LEMMA IdleInv ==
  ASSUME NEW nodes, NEW heads, NEW cells
  PROVE  ClientInv(Idle, nodes, heads, cells)
<1>1. Idle \in Client /\ Idle.at = "idle" /\ Idle.listed = <<>>
  BY EmptySeq DEF Idle, Client, Null
<1>2. QED
  BY <1>1, EmptySeq DEF ClientInv, Listing, AllRight, Reading, InEntry

\* When only one client's record changes.
LEMMA OneClient ==
  ASSUME FsInv, NEW c \in Clients, NEW new, stage = "mounted",
         UNCHANGED <<pack_vars, mounted, file_headers, root_nodes, dirent>>,
         client' = [client EXCEPT ![c] = new],
         ClientInv(new, root_nodes, file_headers, dirent)
  PROVE  FsInv'
<1>1. client' = [o \in Clients |-> IF o = c THEN new ELSE client[o]]
  BY DEF FsInv
<1>2. \A o \in Clients : ClientInv(client'[o], root_nodes, file_headers, dirent)
  BY <1>1 DEF FsInv
<1>3. UNCHANGED <<stage, mounted, file_headers, root_nodes, dirent>>
  BY DEF pack_vars
<1>4. client' = [o \in Clients |-> client'[o]]
  BY <1>1
<1>5. Loaded'
  BY <1>3 DEF FsInv, Loaded, Base
<1> HIDE DEF ClientInv
<1>6. \A o \in Clients : ClientInv(client'[o], root_nodes', file_headers', dirent')
  BY <1>2, <1>3
<1>7. QED
  BY <1>3, <1>4, <1>5, <1>6 DEF FsInv

\* All that another client notices of a store is that its entry is not its own.
LEMMA OtherStores ==
  ASSUME NEW nodes, NEW heads, NEW old, NEW new, NEW r,
         ClientInv(r, nodes, heads, old)
  PROVE  ClientInv([r EXCEPT !.mixed = @ \/ r.at \in InEntry], nodes, heads, new)
<1> DEFINE t == [r EXCEPT !.mixed = @ \/ r.at \in InEntry]
<1>1. r \in Client
  BY DEF ClientInv
<1>2. /\ t \in Client /\ t.mixed = (r.mixed \/ r.at \in InEntry)
      /\ t.at = r.at /\ t.node = r.node /\ t.index = r.index
      /\ t.listed = r.listed /\ t.copied = r.copied /\ t.from = r.from
      /\ t.start = r.start /\ t.source = r.source
  BY <1>1 DEF Client
<1> HIDE DEF t
<1>3. Listing(t, nodes, new)
  BY <1>2 DEF ClientInv, Listing, Filled
<1>4. AllRight(t, nodes) /\ Reading(t, heads)
  BY <1>2 DEF ClientInv, AllRight, Reading
<1>5. QED
  BY <1>2, <1>3, <1>4 DEF ClientInv, t

\* When a client stores a character, what is left is what its own record says.
LEMMA StoresStep ==
  ASSUME FsInv, NEW c \in Clients, client[c].at \in InEntry,
         NEW i \in Int, NEW value \in Nat, NEW at \in InEntry,
         Stores(c, i, value, at),
         Filled([client[c] EXCEPT !.at = at, !.copied = @ + 1],
                AllNames(root_nodes)[client[c].index + 1], dirent')
  PROVE  FsInv'
<1> DEFINE r == client[c]
           t == [r EXCEPT !.at = at, !.copied = @ + 1]
<1>1. /\ client' = [o \in Clients |-> IF o = c THEN t ELSE
                     [client[o] EXCEPT !.mixed = @ \/ client[o].at \in InEntry]]
      /\ dirent' = IF i \in 1..InodeNo THEN [dirent EXCEPT ![i] = value] ELSE dirent
      /\ UNCHANGED <<stage, mounted, file_headers, root_nodes>>
  BY DEF Stores, pack_vars
<1>2. stage = "mounted"
  BY DEF FsInv, InEntry
<1>3. ClientInv(r, root_nodes, file_headers, dirent) /\ r \in Client
  BY DEF FsInv, ClientInv
<1>4. /\ t \in Client /\ t.at = at /\ t.node = r.node /\ t.index = r.index
      /\ t.listed = r.listed
  <2> DEFINE copied == r.copied + 1
  <2> HIDE DEF r, t, copied
  <2>0. r.copied \in Nat
    BY <1>3 DEF Client
  <2>1. r.copied + 1 \in Nat
    BY <2>0
  <2>2. t = [r EXCEPT !.at = at, !.copied = copied]
    BY DEF t, copied
  <2>3. copied \in Nat
    BY <2>1 DEF copied
  <2>4. QED
    BY <1>3, <2>2, <2>3 DEF Client
<1>5. Filled(t, AllNames(root_nodes)[r.index + 1], dirent')
  OBVIOUS
<1> HIDE DEF r, t
<1>6. r.at \in InEntry
  BY DEF r
<1>7. Listing(t, root_nodes, dirent')
  <2>1. /\ r.index = Len(r.listed) /\ r.node = RootNode
        /\ Len(r.listed) <= Len(Directory(r.node, root_nodes))
        /\ r.index < Len(AllNames(root_nodes))
    BY <1>3, <1>6 DEF ClientInv, Listing
  <2>2. at \notin {"idle", "read", "end", "astray", "listed"}
    BY DEF InEntry
  <2>3. QED
    BY <1>4, <1>5, <2>1, <2>2 DEF Listing
<1>8. AllRight(t, root_nodes) /\ Reading(t, file_headers)
  BY <1>3, <1>4 DEF ClientInv, AllRight, Reading, InEntry
<1>9. ClientInv(t, root_nodes, file_headers, dirent')
  BY <1>4, <1>7, <1>8 DEF ClientInv
<1>10. \A o \in Clients : ClientInv(client'[o], root_nodes, file_headers, dirent')
  <2> TAKE o \in Clients
  <2>1. CASE o = c
    BY <2>1, <1>1, <1>9
  <2>2. CASE o # c
    <3>1. ClientInv(client[o], root_nodes, file_headers, dirent)
      BY DEF FsInv
    <3>2. client'[o] = [client[o] EXCEPT !.mixed = @ \/ client[o].at \in InEntry]
      BY <2>2, <1>1
    <3>3. QED
      BY <3>1, <3>2, OtherStores
  <2>3. QED
    BY <2>1, <2>2
<1>11. dirent' \in [1..InodeNo -> Nat]
  BY <1>1 DEF FsInv
<1>12. client' = [o \in Clients |-> client'[o]]
  BY <1>1
<1>13. Loaded'
  BY <1>1 DEF FsInv, Loaded, Base
<1> HIDE DEF ClientInv
<1>14. \A o \in Clients : ClientInv(client'[o], root_nodes', file_headers', dirent')
  BY <1>1, <1>10
<1>15. QED
  BY <1>1, <1>2, <1>11, <1>12, <1>13, <1>14 DEF FsInv

LEMMA StartsStep ==
  ASSUME FsInv, NEW c \in Clients, NEW at \in {"readdir", "read"},
         NEW node \in Int, NEW index \in 0..(Word - 1),
         at = "readdir" => index = 0, Starts(c, at, node, index)
  PROVE  FsInv'
<1>1. Len(Directory(node, root_nodes)) \in Nat
  <2>1. Len(AllNames(root_nodes)) \in Nat
    BY AllNamesFacts DEF FsInv, Loaded
  <2>2. QED
    BY <2>1, EmptySeq DEF Directory
<1>2. ClientInv([Idle EXCEPT !.at = at, !.node = node, !.from = index,
                             !.index = index], root_nodes, file_headers, dirent)
  BY <1>1, StartInv
<1>3. QED
  BY <1>2, OneClient DEF Starts

LEMMA FinishStep ==
  ASSUME FsInv, NEW c \in Clients, Finish(c)
  PROVE  FsInv'
<1>1. stage = "mounted"
  BY DEF Finish, FsInv
<1>2. QED
  BY <1>1, IdleInv, OneClient DEF Finish

LEMMA ListedStep ==
  ASSUME FsInv, NEW c \in Clients, Listed(c)
  PROVE  FsInv'
<1> DEFINE r == client[c]
           t == [r EXCEPT !.at = "listed"]
<1>1. stage = "mounted" /\ r.at = "readdir" /\ ReaddirFs(r.node, r.index) = {}
  BY DEF Listed, FsInv
<1>2. ClientInv(r, root_nodes, file_headers, dirent)
  BY DEF FsInv
<1>3. /\ t \in Client /\ t.at = "listed"
      /\ t.node = r.node /\ t.index = r.index /\ t.listed = r.listed
  BY <1>2 DEF ClientInv, Client
<1>4. /\ Len(r.listed) = Len(Directory(r.node, root_nodes))
      /\ r.index = Len(r.listed)
      /\ Len(r.listed) <= Len(Directory(r.node, root_nodes))
  <2>1. r.index = Len(r.listed) /\ r.index \in Nat
        /\ Len(r.listed) <= Len(Directory(r.node, root_nodes))
    BY <1>1, <1>2 DEF ClientInv, Listing, Client
  <2>2. CASE r.node = RootNode
    <3>1. ~(r.index < Len(AllNames(root_nodes)))
      BY <1>1, <2>2, ReaddirFacts
    <3>2. Len(AllNames(root_nodes)) \in Nat
      BY AllNamesFacts DEF FsInv, Loaded
    <3>3. QED
      BY <2>1, <2>2, <3>1, <3>2 DEF Directory
  <2>3. CASE r.node # RootNode
    BY <2>1, <2>3, EmptySeq DEF Directory
  <2>4. QED
    BY <2>1, <2>2, <2>3
<1>5. client' = [client EXCEPT ![c] = t]
      /\ UNCHANGED <<pack_vars, mounted, file_headers, root_nodes, dirent>>
  BY DEF Listed
<1> HIDE DEF r, t
<1>6. ClientInv(t, root_nodes, file_headers, dirent)
  BY <1>1, <1>2, <1>3, <1>4
     DEF ClientInv, Listing, AllRight, Reading, InEntry
<1>7. QED
  BY <1>1, <1>5, <1>6, OneClient

LEMMA ReaddirStep ==
  ASSUME FsInv, NEW c \in Clients, Readdir(c)
  PROVE  FsInv'
<1> DEFINE r == client[c]
           t == [r EXCEPT !.at = "strcpy", !.copied = 0, !.mixed = FALSE]
<1>1. stage = "mounted" /\ r.at = "readdir" /\ ReaddirFs(r.node, r.index) # {}
  BY DEF Readdir, FsInv
<1>2. ClientInv(r, root_nodes, file_headers, dirent)
  BY DEF FsInv
<1>3. /\ t \in Client /\ t.at = "strcpy" /\ t.copied = 0 /\ ~t.mixed
      /\ t.node = r.node /\ t.index = r.index /\ t.listed = r.listed
  BY <1>2 DEF ClientInv, Client, InEntry
<1>4. r.node = RootNode /\ r.index < Len(AllNames(root_nodes))
  BY <1>1, ReaddirFacts
<1>5. client' = [client EXCEPT ![c] = t]
      /\ UNCHANGED <<pack_vars, mounted, file_headers, root_nodes, dirent>>
  BY DEF Readdir
<1>6. AllNames(root_nodes)[r.index + 1] \in Chars
  <2>1. r.index \in Nat
    BY <1>2 DEF ClientInv, Client
  <2>2. AllNames(root_nodes) \in Seq(Chars) /\ Len(AllNames(root_nodes)) \in Nat
    BY AllNamesFacts DEF FsInv, Loaded
  <2> HIDE DEF r
  <2>3. r.index + 1 \in 1..Len(AllNames(root_nodes))
    BY <1>4, <2>1, <2>2
  <2>4. QED
    BY <2>2, <2>3
<1> HIDE DEF r, t
<1>7. Filled(t, AllNames(root_nodes)[r.index + 1], dirent)
  <2> DEFINE name == AllNames(root_nodes)[r.index + 1]
  <2>1. Len(name) \in Nat /\ (name = <<>> \/ Len(name) > 0)
    BY <1>6, EmptySeq DEF Chars
  <2> HIDE DEF name
  <2>2. Filled(t, name, dirent)
    BY <1>3, <2>1 DEF Filled
  <2>3. QED
    BY <2>2 DEF name
<1>8. ClientInv(t, root_nodes, file_headers, dirent)
  BY <1>1, <1>2, <1>3, <1>4, <1>7
     DEF ClientInv, Listing, AllRight, Reading, InEntry
<1>9. QED
  BY <1>1, <1>5, <1>8, OneClient

LEMMA CopyCharacterStep ==
  ASSUME FsInv, NEW c \in Clients, CopyCharacter(c)
  PROVE  FsInv'
<1> DEFINE r == client[c]
           name == AllNames(root_nodes)[r.index + 1]
           i == r.copied + 1
           value == IF name = <<>> THEN Nul ELSE name[i]
           at == IF i < Len(name) THEN "strcpy" ELSE "terminate"
           t == [r EXCEPT !.at = at, !.copied = @ + 1]
<1>1. r.at = "strcpy" /\ r.at \in InEntry
  BY DEF CopyCharacter, InEntry
<1>2. /\ ReaddirFs(r.node, r.index) = {name} /\ name \in Chars
      /\ Len(name) \in Nat /\ Filled(r, name, dirent)
  BY <1>1, EntryName
<1>3. Stores(c, i, value, at)
  BY <1>2 DEF CopyCharacter
<1>4. r \in Client /\ r.copied \in Nat /\ dirent \in [1..InodeNo -> Nat]
  BY DEF FsInv, ClientInv, Client
<1>5. /\ t.at = at /\ t.copied = i /\ t.mixed = r.mixed
      /\ at \in {"strcpy", "terminate"} /\ at \in InEntry
  BY <1>4 DEF Client, InEntry
<1>6. dirent' = IF i \in 1..InodeNo THEN [dirent EXCEPT ![i] = value] ELSE dirent
  BY <1>3 DEF Stores
<1>7. (name = <<>> /\ Len(name) = 0) \/ i \in 1..Len(name)
  <2>1. name = <<>> \/ r.copied < Len(name)
    BY <1>1, <1>2 DEF Filled
  <2> HIDE DEF name, r
  <2>2. QED
    BY <2>1, <1>2, <1>4, EmptySeq
<1>8. i \in Int /\ value \in Nat
  <2>1. name # <<>> => name[i] \in Nat
    BY <1>2, <1>7 DEF Chars
  <2>2. QED
    BY <1>4, <2>1 DEF Nul
<1>9. Filled(t, name, dirent')
  <2>1. IF at = "strcpy" THEN name = <<>> \/ i < Len(name) ELSE i >= Len(name)
    <3> HIDE DEF name
    <3>1. QED
      BY <1>2, <1>4
  <2>2. ASSUME ~r.mixed, NEW j \in 1..Len(name), j <= i, j <= DirentSize
        PROVE  dirent'[j] = name[j]
    <3>1. j \in 1..InodeNo /\ i \in 1..Len(name) /\ name # <<>>
      BY <1>2, <1>7, <2>2, EmptySeq DEF InodeNo
    <3>2. CASE j = i
      <4>1. i \in 1..InodeNo /\ value = name[j]
        BY <3>1, <3>2
      <4> HIDE DEF i, value, name
      <4>2. QED
        BY <1>4, <1>6, <3>2, <4>1
    <3>3. CASE j # i
      <4>1. j <= r.copied
        BY <1>4, <2>2, <3>3, <3>1
      <4>2. dirent[j] = name[j]
        BY <1>2, <2>2, <4>1 DEF Filled
      <4> HIDE DEF i, value, name
      <4>3. QED
        BY <1>4, <1>6, <3>1, <3>3, <4>2
    <3>4. QED
      BY <3>2, <3>3
  <2> HIDE DEF r, t, name, i, at
  <2>3. QED
    BY <1>5, <2>1, <2>2 DEF Filled
<1> HIDE DEF i, value, at
<1>10. QED
  BY <1>1, <1>3, <1>5, <1>8, <1>9, StoresStep DEF i

LEMMA TerminateStep ==
  ASSUME FsInv, NEW c \in Clients, Terminate(c)
  PROVE  FsInv'
<1> DEFINE r == client[c]
           name == AllNames(root_nodes)[r.index + 1]
           t == [r EXCEPT !.at = "inode", !.copied = @ + 1]
<1>1. r.at = "terminate" /\ r.at \in InEntry /\ "inode" \in InEntry
  BY DEF Terminate, InEntry
<1>2. /\ ReaddirFs(r.node, r.index) = {name} /\ name \in Chars
      /\ Len(name) \in Nat /\ Filled(r, name, dirent)
  BY <1>1, EntryName
<1>3. Stores(c, Len(name) + 1, Nul, "inode")
  BY <1>2 DEF Terminate, EndPlace
<1>4. r \in Client /\ r.copied \in Nat /\ dirent \in [1..InodeNo -> Nat]
  BY DEF FsInv, ClientInv, Client
<1>5. t.at = "inode" /\ t.copied = r.copied + 1 /\ t.mixed = r.mixed
  BY <1>4 DEF Client
<1>6. dirent' = IF Len(name) + 1 \in 1..InodeNo
                THEN [dirent EXCEPT ![Len(name) + 1] = Nul] ELSE dirent
  BY <1>3 DEF Stores
<1>7. Len(name) + 1 \in Int /\ Nul \in Nat
  BY <1>2 DEF Nul
<1>8. Filled(t, name, dirent')
  <2> HIDE DEF r, t, name
  <2>1. r.copied >= Len(name) /\ r.copied + 1 >= Len(name)
    BY <1>1, <1>2, <1>4 DEF Filled
  <2>2. ASSUME ~r.mixed, NEW j \in 1..Len(name), j <= DirentSize
        PROVE  dirent'[j] = name[j]
    <3>1. j \in 1..InodeNo /\ j # Len(name) + 1 /\ j <= r.copied
      BY <1>2, <1>4, <2>1, <2>2 DEF InodeNo
    <3>2. dirent[j] = name[j]
      BY <1>2, <2>2, <3>1 DEF Filled
    <3>3. QED
      BY <1>4, <1>6, <3>1, <3>2
  <2>3. ASSUME Len(name) < DirentSize PROVE dirent'[Len(name) + 1] = Nul
    <3>1. Len(name) + 1 \in 1..InodeNo
      BY <1>2, <2>3 DEF InodeNo
    <3>2. QED
      BY <1>4, <1>6, <3>1
  <2>4. QED
    BY <1>5, <2>1, <2>2, <2>3 DEF Filled
<1>9. QED
  BY <1>1, <1>3, <1>7, <1>8, StoresStep

LEMMA StoreInodeStep ==
  ASSUME FsInv, NEW c \in Clients, StoreInode(c)
  PROVE  FsInv'
<1> DEFINE r == client[c]
           name == AllNames(root_nodes)[r.index + 1]
           value == InodeOf(r.index) % 256
           t == [r EXCEPT !.at = "finddir", !.copied = @ + 1]
<1>1. r.at = "inode" /\ r.at \in InEntry /\ "finddir" \in InEntry
      /\ Stores(c, InodeNo, value, "finddir")
  BY DEF StoreInode, InEntry
<1>2. Len(name) \in Nat /\ Filled(r, name, dirent)
  BY <1>1, EntryName
<1>3. r \in Client /\ r.copied \in Nat /\ r.index \in Nat
      /\ dirent \in [1..InodeNo -> Nat]
  BY DEF FsInv, ClientInv, Client
<1>4. t.at = "finddir" /\ t.copied = r.copied + 1 /\ t.mixed = r.mixed
  BY <1>3 DEF Client
<1>5. InodeNo \in 1..InodeNo /\ InodeNo \in Int
  BY DEF InodeNo
<1>6. value \in Nat
  <2>1. InodeOf(r.index) \in Nat
    BY <1>3 DEF InodeOf
  <2>2. QED
    BY <2>1
<1>7. dirent' = [dirent EXCEPT ![InodeNo] = value]
  BY <1>1, <1>5 DEF Stores
<1> HIDE DEF value
<1>8. Filled(t, name, dirent')
  <2> HIDE DEF r, t, name
  <2>1. r.copied >= Len(name) /\ r.copied + 1 >= Len(name)
    BY <1>1, <1>2, <1>3 DEF Filled
  <2>2. ASSUME ~r.mixed, NEW j \in 1..Len(name), j <= DirentSize
        PROVE  dirent'[j] = name[j]
    <3>1. j \in 1..InodeNo /\ j # InodeNo /\ j <= r.copied
      BY <1>2, <1>3, <2>1, <2>2 DEF InodeNo
    <3>2. dirent[j] = name[j]
      BY <1>2, <2>2, <3>1 DEF Filled
    <3>3. QED
      BY <1>3, <1>7, <3>1, <3>2
  <2>3. ASSUME ~r.mixed, Len(name) < DirentSize
        PROVE  dirent'[Len(name) + 1] = Nul
    <3>1. Len(name) + 1 \in 1..InodeNo /\ Len(name) + 1 # InodeNo
      BY <1>2, <2>3 DEF InodeNo
    <3>2. dirent[Len(name) + 1] = Nul
      BY <1>1, <1>2, <2>3 DEF Filled
    <3>3. QED
      BY <1>3, <1>7, <3>1, <3>2
  <2>4. QED
    BY <1>4, <2>1, <2>2, <2>3 DEF Filled
<1>9. QED
  BY <1>1, <1>5, <1>6, <1>8, StoresStep

LEMMA FinddirStep ==
  ASSUME FsInv, NEW c \in Clients, Finddir(c)
  PROVE  FsInv'
<1> DEFINE r == client[c]
           name == AllNames(root_nodes)[r.index + 1]
           entry == IF r.mixed THEN Torn
                    ELSE [name |-> NameIn, mixed |-> FALSE,
                          node |-> FinddirFs(r.node, NameIn)]
           t == [r EXCEPT !.at = "readdir", !.index = @ + 1,
                          !.listed = Append(@, entry)]
           n == Len(r.listed)
<1>1. stage = "mounted" /\ r.at = "finddir" /\ r.at \in InEntry
  BY DEF Finddir, FsInv, InEntry
<1>2. ClientInv(r, root_nodes, file_headers, dirent)
      /\ dirent \in [1..InodeNo -> Nat]
  BY DEF FsInv
<1>3. client' = [client EXCEPT ![c] = t]
      /\ UNCHANGED <<pack_vars, mounted, file_headers, root_nodes, dirent>>
  BY DEF Finddir
<1>4. /\ r.index = n /\ n \in Nat /\ r.node = RootNode
      /\ n < Len(AllNames(root_nodes))
      /\ r.listed \in Seq(Entry) /\ r \in Client
  BY <1>1, <1>2 DEF ClientInv, Listing, Client
<1>5. name \in Chars /\ Len(name) \in Nat /\ Filled(r, name, dirent)
  BY <1>1, EntryName
<1>6. AllNames(root_nodes) \in Seq(Chars) /\ Len(AllNames(root_nodes)) \in Nat
      /\ Len(AllNames(root_nodes)) = Len(root_nodes) + 1
      /\ AllNames(root_nodes)[1] = Dev
      /\ DOMAIN root_nodes = 1..Len(root_nodes) /\ Len(root_nodes) \in Nat
      /\ \A k \in 1..Len(root_nodes) : AllNames(root_nodes)[k + 1] = root_nodes[k]
  <2>1. root_nodes \in Seq(Chars)
    BY DEF FsInv, Loaded
  <2>2. DOMAIN root_nodes = 1..Len(root_nodes) /\ Len(root_nodes) \in Nat
    BY <2>1
  <2>3. Len(AllNames(root_nodes)) \in Nat
    BY <2>1, <2>2, AllNamesFacts
  <2>4. QED
    BY <2>1, <2>2, <2>3, AllNamesFacts
<1>7. name = Dev \/ \E k \in DOMAIN root_nodes : root_nodes[k] = name
  <2>1. n = 0 \/ n \in 1..Len(root_nodes)
    BY <1>4, <1>6
  <2>2. CASE n = 0
    BY <1>4, <1>6, <2>2
  <2>3. CASE n \in 1..Len(root_nodes)
    BY <1>4, <1>6, <2>3
  <2>4. QED
    BY <2>1, <2>2, <2>3
<1>8. ASSUME ~r.mixed, Len(name) < DirentSize
      PROVE  NameIn = name /\ IsFound(name, FinddirFs(r.node, NameIn), root_nodes)
  <2>1. dirent[Len(name) + 1] = Nul
    BY <1>1, <1>5, <1>8 DEF Filled
  <2>2. ASSUME NEW i \in 1..Len(name) PROVE dirent[i] = name[i]
    <3>1. r.copied \in Nat /\ r.copied >= Len(name)
      BY <1>1, <1>4, <1>5 DEF Filled, Client
    <3>2. i <= r.copied /\ i <= DirentSize
      BY <1>5, <1>8, <3>1
    <3>3. QED
      BY <1>5, <1>8, <3>2 DEF Filled
  <2>3. NameIn = name
    BY <1>2, <1>5, <1>8, <2>1, <2>2, NameInFacts
  <2>4. QED
    BY <1>4, <1>7, <2>3, FinddirFacts
<1>9. entry \in Entry
  <2>1. FinddirFs(r.node, NameIn) \in Int
    <3>1. Named(NameIn) \subseteq Nat
      BY <1>6 DEF Named
    <3>2. CASE Named(NameIn) = {}
      BY <3>2 DEF FinddirFs, Null, DevNode
    <3>3. CASE Named(NameIn) # {}
      <4>1. \E k \in Named(NameIn) : \A m \in Named(NameIn) : k <= m
        BY <3>1, <3>3, NatMin
      <4>2. (CHOOSE k \in Named(NameIn) : \A m \in Named(NameIn) : k <= m)
               \in Named(NameIn)
        BY <4>1
      <4>3. QED
        BY <3>1, <4>2 DEF FinddirFs, Null, DevNode
    <3>4. QED
      BY <3>2, <3>3
  <2>2. NameIn \in Seq(Nat)
    <3>1. dirent \in Seq(Nat)
      BY <1>2 DEF InodeNo
    <3>2. CASE Ends = {}
      BY <3>1, <3>2 DEF NameIn
    <3>3. CASE Ends # {}
      <4> DEFINE e == CHOOSE i \in Ends : \A m \in Ends : i <= m
      <4>1. Ends \in SUBSET Nat /\ Ends \subseteq 1..InodeNo
        BY DEF Ends
      <4>2. e \in Ends
        <5>1. \E k \in Ends : \A m \in Ends : k <= m
          BY <3>3, <4>1, NatMin
        <5>2. QED
          BY <5>1
      <4>3. e \in 1..InodeNo
        BY <4>1, <4>2
      <4> HIDE DEF e
      <4>4. \A i \in 1..(e - 1) : dirent[i] \in Nat
        BY <1>2, <4>3 DEF InodeNo
      <4>5. SubSeq(dirent, 1, e - 1) \in Seq(Nat)
        BY <4>3, <4>4, SubSeqProperties DEF InodeNo
      <4>6. QED
        BY <3>3, <4>5 DEF NameIn, e
    <3>4. QED
      BY <3>2, <3>3
  <2>3. Torn \in Entry
    BY EmptySeq DEF Torn, Entry, Null
  <2>4. QED
    BY <2>1, <2>2, <2>3 DEF Entry
<1>10. IsRight(entry, name, root_nodes)
  <2>1. CASE r.mixed
    BY <2>1 DEF IsRight, Torn
  <2>2. CASE ~r.mixed
    BY <2>2, <1>8 DEF IsRight
  <2>3. QED
    BY <2>1, <2>2
<1> HIDE DEF entry
<1>11. /\ t \in Client /\ t.at = "readdir" /\ t.node = r.node
       /\ t.index = n + 1 /\ t.listed = Append(r.listed, entry)
  <2> DEFINE listed == Append(r.listed, entry)
  <2>1. listed \in Seq(Entry) /\ r.index + 1 = n + 1 /\ r.index + 1 \in Nat
    BY <1>4, <1>9, AppendProperties
  <2>2. t = [r EXCEPT !.at = "readdir", !.index = r.index + 1, !.listed = listed]
    OBVIOUS
  <2> HIDE DEF r, n, t, listed
  <2>3. t \in Client
    BY <2>1, <2>2, <1>4 DEF Client
  <2>4. t.at = "readdir" /\ t.node = r.node /\ t.index = r.index + 1
        /\ t.listed = listed
    BY <2>2, <1>4 DEF Client
  <2>5. QED
    BY <2>1, <2>3, <2>4 DEF listed
<1>12. /\ Len(t.listed) = n + 1 /\ t.listed[n + 1] = entry
       /\ \A k \in 1..n : t.listed[k] = r.listed[k]
  <2> HIDE DEF r, t
  <2>1. QED
    BY <1>4, <1>9, <1>11, AppendProperties
<1>13. name = AllNames(root_nodes)[n + 1]
  BY <1>4
<1> HIDE DEF r, t, n, name
<1>14. Listing(t, root_nodes, dirent)
  <2>1. Len(Directory(t.node, root_nodes)) = Len(AllNames(root_nodes))
    BY <1>4, <1>11 DEF Directory
  <2>2. n + 1 <= Len(AllNames(root_nodes))
    BY <1>4, <1>6
  <2>3. QED
    BY <2>1, <2>2, <1>11, <1>12 DEF Listing, InEntry
<1>15. AllRight(t, root_nodes)
  <2>1. ASSUME NEW k \in 1..(n + 1)
        PROVE  IsRight(t.listed[k], AllNames(root_nodes)[k], root_nodes)
    <3>1. CASE k \in 1..n
      <4>1. IsRight(r.listed[k], AllNames(root_nodes)[k], root_nodes)
        BY <3>1, <1>2 DEF ClientInv, AllRight, n
      <4>2. QED
        BY <3>1, <4>1, <1>12
    <3>2. CASE k = n + 1
      BY <3>2, <1>10, <1>12, <1>13
    <3>3. QED
      BY <3>1, <3>2, <1>4
  <2>2. QED
    BY <2>1, <1>12 DEF AllRight
<1>16. ClientInv(t, root_nodes, file_headers, dirent)
  BY <1>11, <1>14, <1>15 DEF ClientInv, Reading
<1>17. QED
  BY <1>1, <1>3, <1>16, OneClient

\* What a read returns keeps a client within the file, or is marked astray.
LEMMA ReadStep ==
  ASSUME FsInv, NEW c \in Clients, Read(c)
  PROVE  FsInv'
<1> DEFINE r == client[c]
           length == file_headers[r.node].length
<1>1. PICK size \in 1..(Word - 1) :
        LET count == ReadFs(r.node, r.index, size) IN
        client' = [client EXCEPT
          ![c].index = (r.index + count) % Word,
          ![c].at = IF count = 0 THEN "end"
                    ELSE IF r.index + size >= Word THEN "astray" ELSE "read",
          ![c].start = IF count = 0 THEN @ ELSE r.index,
          ![c].source = IF count = 0 THEN @ ELSE Source(r.node, r.index)]
  BY DEF Read
<1> DEFINE count == ReadFs(r.node, r.index, size)
           index == Counted(r.index + count)
           at == IF count = 0 THEN "end"
                 ELSE IF r.index + size >= Word THEN "astray" ELSE "read"
           start == IF count = 0 THEN r.start ELSE r.index
           source == IF count = 0 THEN r.source ELSE Source(r.node, r.index)
           s == [r EXCEPT !.index = index, !.at = at, !.start = start,
                          !.source = source]
<1>2. /\ stage = "mounted" /\ r.at = "read"
      /\ UNCHANGED <<pack_vars, mounted, file_headers, root_nodes, dirent>>
  BY DEF Read, FsInv
<1>3. ClientInv(r, root_nodes, file_headers, dirent) /\ r \in Client
  BY DEF FsInv, ClientInv
<1>4. client' = [client EXCEPT ![c] = s]
  <2>1. index = (r.index + count) % Word
    BY DEF Counted
  <2> HIDE DEF index
  <2>2. client' = [client EXCEPT ![c].index = index, ![c].at = at,
                                 ![c].start = start, ![c].source = source]
    BY <1>1, <2>1 DEF FsInv
  <2> HIDE DEF count, at, start, source
  <2>3. QED
    BY <2>2
<1>5. /\ Word \in Nat /\ size \in 1..(Word - 1)
      /\ r.index \in 0..(Word - 1) /\ r.from \in 0..(Word - 1)
      /\ r.start \in Nat /\ r.source \in Nat
      /\ r.index # r.from =>
           /\ r.node \in DOMAIN file_headers
           /\ r.index \in r.from..length /\ r.start \in r.from..r.index
           /\ r.source = (file_headers[r.node].offset + r.start) % Word
  BY <1>2, <1>3, MountAssumption DEF ClientInv, Reading, Client
<1>6. CASE r.node \in DOMAIN root_nodes
  <2>1. length \in 0..(Word - 1) /\ file_headers[r.node].offset \in Nat
        /\ r.node \in DOMAIN file_headers
    BY <1>6 DEF FsInv, Loaded
  <2>2. count = IF r.index > length THEN 0
                ELSE IF Counted(r.index + size) > length
                THEN Counted(length - r.index) ELSE size
    BY <1>6 DEF ReadFs, IsFile, OffsetBeyond, Clipped, Counted
  <2>3. Source(r.node, r.index) = (file_headers[r.node].offset + r.index) % Word
    BY DEF Source
  <2>4. Source(r.node, r.index) \in Nat
    <3>1. file_headers[r.node].offset + r.index \in Int /\ Word > 0
      BY <1>5, <2>1
    <3>2. QED
      BY <2>3, <3>1, CountedType DEF Counted
  <2> HIDE DEF r, length, count, at, start, source, s
  <2>5. ASSUME r.index > length
        PROVE  /\ at = "end" /\ count = 0 /\ index = r.index
               /\ index \in 0..(Word - 1) /\ index >= length
    <3>1. count = 0 /\ index = r.index
      BY <2>2, <2>5, <1>5, CountedHere
    <3>2. at = "end"
      BY <3>1 DEF at
    <3>3. r.index \in 0..(Word - 1) /\ r.index >= length
      BY <2>1, <2>5, <1>5
    <3> HIDE DEF index
    <3>4. QED
      BY <3>1, <3>2, <3>3
  <2>6. ASSUME r.index <= length, Counted(r.index + size) > length
        PROVE  /\ at \in {"end", "astray", "read"}
               /\ index \in 0..(Word - 1) /\ index = length
               /\ index \in r.index..length /\ (count = 0 => index = r.index)
    <3>1. length - r.index \in 0..(Word - 1)
      BY <2>1, <2>6, <1>5
    <3>2. ~(r.index > length)
      BY <2>1, <2>6, <1>5
    <3>3. count = length - r.index
      BY <2>2, <2>6, <3>1, <3>2, CountedHere
    <3>4. r.index + count = length /\ (count = 0 => length = r.index)
      BY <3>3, <2>1, <1>5
    <3>5. index = length
      BY <3>4, <2>1, CountedHere
    <3> HIDE DEF index
    <3>6. QED
      BY <3>4, <3>5, <2>1, <2>6, <1>5 DEF at
  <2>7. ASSUME r.index <= length, ~(Counted(r.index + size) > length)
        PROVE  /\ at \in {"astray", "read"} /\ count # 0
               /\ index \in 0..(Word - 1)
               /\ at = "read" => index \in r.index..length
    <3>1. ~(r.index > length)
      BY <2>1, <2>7, <1>5
    <3>2. count = size /\ size # 0
      BY <2>2, <2>7, <3>1, <1>5
    <3>3. at = IF r.index + size >= Word THEN "astray" ELSE "read"
      BY <3>2 DEF at
    <3>4. index = Counted(r.index + size)
      BY <3>2
    <3>5. index \in 0..(Word - 1)
      <4>1. r.index + size \in Int /\ Word > 0
        BY <1>5
      <4> HIDE DEF index
      <4>2. QED
        BY <3>4, <4>1, CountedType
    <3>6. ASSUME at = "read" PROVE index \in r.index..length
      <4>1. r.index + size \in 0..(Word - 1)
        BY <3>3, <3>6, <1>5
      <4>2. index = r.index + size
        BY <3>4, <4>1, CountedHere
      <4>3. ~(index > length)
        BY <2>7, <3>4
      <4> HIDE DEF index
      <4>4. QED
        BY <4>2, <4>3, <2>1, <1>5
    <3>7. QED
      BY <3>2, <3>3, <3>5, <3>6
  <2>8. /\ at \in {"end", "astray", "read"} /\ index \in 0..(Word - 1)
        /\ at = "end" => index >= length
        /\ at \in {"end", "read"} =>
             (count = 0 /\ index = r.index) \/ (index \in r.index..length)
        /\ count = 0 => at = "end"
    <3>1. r.index <= length \/ r.index > length
      BY <2>1, <1>5
    <3>2. count = 0 => at = "end"
      BY DEF at
    <3> HIDE DEF index
    <3>3. QED
      BY <3>1, <3>2, <2>1, <2>5, <2>6, <2>7
  <2>9. start \in Nat /\ source \in Nat
    BY <1>5, <2>4 DEF start, source
  <2> HIDE DEF index
  <2>10. /\ s \in Client /\ s.at = at /\ s.index = index /\ s.start = start
         /\ s.source = source /\ s.node = r.node /\ s.from = r.from
         /\ s.listed = r.listed
    <3>1. index \in Nat
      BY <2>8
    <3>2. QED
      BY <2>8, <2>9, <3>1, <1>3 DEF s, Client
  <2>11. /\ Listing(s, root_nodes, dirent) /\ AllRight(s, root_nodes)
    BY <2>8, <2>10, <1>2, <1>3 DEF Listing, AllRight, ClientInv, r, InEntry
  <2>12. ASSUME at \in {"end", "read"}, index # r.from
         PROVE  /\ index \in r.from..length /\ start \in r.from..index
                /\ source = (file_headers[r.node].offset + start) % Word
    <3>1. CASE count = 0
      <4>1. start = r.start /\ source = r.source
        BY <3>1 DEF start, source
      <4>2. index = r.index
        BY <3>1, <2>1, <2>2, <2>5, <2>6, <2>7, <1>5
      <4>3. QED
        BY <4>1, <4>2, <2>12, <1>5
    <3>2. CASE count # 0
      <4>1. start = r.index /\ source = Source(r.node, r.index)
        BY <3>2 DEF start, source
      <4>2. index \in r.index..length
        BY <3>2, <2>8, <2>12
      <4>3. r.from <= r.index
        BY <1>5
      <4>4. QED
        BY <4>1, <4>2, <4>3, <2>1, <2>3, <1>5
    <3>3. QED
      BY <3>1, <3>2
  <2>13. Reading(s, file_headers)
    BY <2>1, <2>8, <2>10, <2>12, <1>5 DEF Reading, length
  <2>14. ClientInv(s, root_nodes, file_headers, dirent)
    BY <2>10, <2>11, <2>13 DEF ClientInv
  <2>15. QED
    BY <1>2, <1>4, <2>14, OneClient
<1>7. CASE r.node \notin DOMAIN root_nodes
  <2>1. count = 0 /\ r.node \notin DOMAIN file_headers
    BY <1>7 DEF ReadFs, IsFile, FsInv, Loaded
  <2> HIDE DEF r, count, at, start, source, s
  <2>2. index = r.index /\ at = "end" /\ start = r.start /\ source = r.source
    BY <2>1, <1>5, CountedHere DEF at, start, source
  <2> HIDE DEF index
  <2>3. /\ s \in Client /\ s.at = "end" /\ s.index = r.index
        /\ s.node = r.node /\ s.from = r.from /\ s.listed = r.listed
    BY <2>2, <1>3 DEF s, Client
  <2>4. /\ Listing(s, root_nodes, dirent) /\ AllRight(s, root_nodes)
    BY <2>3, <1>2, <1>3 DEF Listing, AllRight, ClientInv, r, InEntry
  <2>5. Reading(s, file_headers)
    BY <2>1, <2>3, <1>5 DEF Reading
  <2>6. ClientInv(s, root_nodes, file_headers, dirent)
    BY <2>3, <2>4, <2>5 DEF ClientInv
  <2>7. QED
    BY <1>2, <1>4, <2>6, OneClient
<1>8. QED
  BY <1>6, <1>7

LEMMA ListStep ==
  ASSUME FsInv, NEW c \in Clients, List(c) \/ Open(c)
  PROVE  FsInv'
<1>1. {RootNode, DevNode} \cup DOMAIN root_nodes \subseteq Int
  BY DEF FsInv, Loaded, RootNode, DevNode
<1>2. 0 \in 0..(Word - 1)
  BY MountAssumption
<1>3. CASE List(c)
  <2>1. PICK node \in {RootNode, DevNode} \cup DOMAIN root_nodes :
          Starts(c, "readdir", node, 0)
    BY <1>3 DEF List
  <2>2. QED
    BY <2>1, <1>1, <1>2, StartsStep
<1>4. CASE Open(c)
  <2>1. PICK node \in {RootNode} \cup DOMAIN root_nodes,
             offset \in 0..(Word - 1) : Starts(c, "read", node, offset)
    BY <1>4 DEF Open
  <2>2. QED
    BY <2>1, <1>1, StartsStep
<1>5. QED
  BY <1>3, <1>4

-----------------------------------------------------------------------------
(* Mounting *)

\* strcpy changes nothing of what it copies.
LEMMA StrCpyFacts ==
  ASSUME NEW name \in Names, NEW copy \in StrCpy(name)
  PROVE  copy \in Chars /\ \A i \in DOMAIN name : copy[i] = name[i]
<1>1. name \in Chars /\ Junk \subseteq Chars
  BY MountAssumption DEF Chars
<1>2. CASE name = <<>>
  BY <1>1, <1>2 DEF StrCpy
<1>3. CASE name # <<>>
  <2>1. PICK junk \in Junk : copy = name \o junk
    BY <1>3 DEF StrCpy
  <2>2. name \in Seq(Nat \ {Nul}) /\ junk \in Seq(Nat \ {Nul})
    BY <1>1 DEF Chars
  <2>3. /\ name \o junk \in Seq(Nat \ {Nul})
        /\ \A i \in 1..(Len(name) + Len(junk)) :
             (name \o junk)[i] = IF i <= Len(name) THEN name[i]
                                 ELSE junk[i - Len(name)]
    BY <2>2, ConcatProperties
  <2>4. ASSUME NEW i \in DOMAIN name PROVE (name \o junk)[i] = name[i]
    <3>1. i \in 1..Len(name) /\ Len(name) \in Nat /\ Len(junk) \in Nat
      BY <2>2
    <3>2. QED
      BY <2>3, <3>1
  <2>5. QED
    BY <2>1, <2>3, <2>4 DEF Chars
<1>4. QED
  BY <1>2, <1>3

LEMMA MountStep == ASSUME FsInv, Mount PROVE FsInv'
<1>1. HeadersAt(Location) = Table
  <2>1. Location = Image => FileHeaders(Location) # Image + 4
    BY MountAssumption DEF FileHeaders
  <2>2. QED
    BY <2>1, Zenon DEF HeadersAt
<1>2. PICK table \in Table :
        /\ mounted' = table
        /\ file_headers' = [k \in DOMAIN table |-> Relocated(table[k], Len(table))]
        /\ root_nodes' \in [DOMAIN table -> Text]
        /\ \A k \in DOMAIN table : root_nodes'[k] \in StrCpy(table[k].name)
  BY <1>1 DEF Mount
<1>3. stage = "packed" /\ stage' = "mounted" /\ dirent' = dirent /\ client' = client
  BY DEF Mount
<1>4. PICK n \in 0..MaxFiles : table \in [1..n -> File]
  BY <1>2 DEF Table
<1>5. DOMAIN table = 1..n /\ Len(table) = n /\ n < Word /\ n \in Nat
  BY <1>4, MountAssumption
<1>6. \A k \in 1..n : table[k] \in File /\ root_nodes'[k] \in Chars
        /\ \A i \in DOMAIN table[k].name : root_nodes'[k][i] = table[k].name[i]
  <2> TAKE k \in 1..n
  <2>1. table[k] \in File
    BY <1>4
  <2>2. table[k].name \in Names
    BY <2>1 DEF File
  <2>3. QED
    BY <1>2, <1>5, <2>1, <2>2, StrCpyFacts
<1>7. root_nodes' \in Seq(Chars) /\ Len(root_nodes') = n /\ DOMAIN root_nodes' = 1..n
  <2>1. root_nodes' \in [1..n -> Chars]
    BY <1>2, <1>5, <1>6
  <2>2. QED
    BY <2>1, <1>5
<1>8. ASSUME NEW k \in 1..n
      PROVE  /\ file_headers'[k].offset = (table[k].offset + n) % Word
             /\ file_headers'[k].offset \in Nat
             /\ file_headers'[k].length = table[k].length
             /\ table[k].length \in 0..(Word - 1)
  <2>1. table[k] \in File
    BY <1>6
  <2>2. table[k].offset \in Nat /\ table[k].length \in 0..(Word - 1)
    BY <2>1, MountAssumption DEF File
  <2>3. file_headers'[k] = [table[k] EXCEPT !.offset = (@ + n) % Word]
    BY <1>2, <1>5 DEF Relocated
  <2>4. (table[k].offset + n) % Word \in Nat
    BY <2>2, <1>5, CountedType, MountAssumption DEF Counted
  <2>5. QED
    BY <2>1, <2>2, <2>3, <2>4 DEF File
<1>9. Loaded'
  <2>1. DOMAIN file_headers' = DOMAIN root_nodes'
    BY <1>2, <1>5, <1>7
  <2>2. \A k \in DOMAIN root_nodes' : Base(k)' = (table[k].offset + n) % Word
    BY <1>2, <1>5 DEF Base
  <2>3. QED
    BY <1>2, <1>5, <1>6, <1>7, <1>8, <2>1, <2>2 DEF Loaded
<1>10. ASSUME NEW c \in Clients
       PROVE  ClientInv(client[c], root_nodes', file_headers', dirent)
  <2>1. client[c].at = "idle"
        /\ ClientInv(client[c], root_nodes, file_headers, dirent)
    BY <1>3 DEF FsInv
  <2>2. QED
    BY <2>1, EmptySeq DEF ClientInv, Listing, AllRight, Reading, InEntry
<1> HIDE DEF ClientInv
<1>11. \A c \in Clients :
         ClientInv(client'[c], root_nodes', file_headers', dirent')
  BY <1>3, <1>10
<1>12. QED
  BY <1>3, <1>9, <1>11 DEF FsInv

LEMMA SameFs ==
  ASSUME FsInv, UNCHANGED fs_vars, stage' = stage \/ stage # "mounted"
  PROVE  FsInv'
<1>1. UNCHANGED <<mounted, file_headers, root_nodes, dirent, client>>
  BY DEF fs_vars
<1>2. stage' # "mounted" => stage # "mounted"
  OBVIOUS
<1>3. Loaded'
  BY <1>1 DEF FsInv, Loaded, Base
<1> HIDE DEF ClientInv
<1>4. \A c \in Clients :
        ClientInv(client'[c], root_nodes', file_headers', dirent')
  BY <1>1 DEF FsInv
<1>5. stage' # "mounted" => \A c \in Clients : client[c].at = "idle"
  BY <1>2 DEF FsInv
<1>6. client' = [c \in Clients |-> client'[c]]
  BY <1>1 DEF FsInv
<1>7. QED
  BY <1>1, <1>3, <1>4, <1>5, <1>6 DEF FsInv

LEMMA NextFs == FsInv /\ [Next]_vars => FsInv'
<1> SUFFICES ASSUME FsInv, [Next]_vars PROVE FsInv'
  OBVIOUS
<1>1. CASE Pack /\ UNCHANGED fs_vars
  <2>1. stage # "mounted"
    BY <1>1 DEF Pack, Measure, FileNotFound, WriteTable, WriteFile, Close
  <2>2. QED
    BY <1>1, <2>1, SameFs
<1>2. CASE Mount
  BY <1>2, MountStep
<1>3. ASSUME NEW c \in Clients, List(c) \/ Open(c) PROVE FsInv'
  BY <1>3, ListStep
<1>4. ASSUME NEW c \in Clients,
             \/ Readdir(c) \/ CopyCharacter(c) \/ Terminate(c)
             \/ StoreInode(c) \/ Finddir(c) \/ Listed(c)
      PROVE  FsInv'
  BY <1>4, ReaddirStep, CopyCharacterStep, TerminateStep, StoreInodeStep,
     FinddirStep, ListedStep
<1>5. ASSUME NEW c \in Clients, Read(c) \/ Finish(c) PROVE FsInv'
  BY <1>5, ReadStep, FinishStep
<1>6. CASE UNCHANGED vars
  <2>1. stage' = stage /\ UNCHANGED fs_vars
    BY <1>6 DEF vars, pack_vars
  <2>2. QED
    BY <2>1, SameFs
<1>7. QED
  BY <1>1, <1>2, <1>3, <1>4, <1>5, <1>6 DEF Next

LEMMA InitFs == Init => FsInv
<1> SUFFICES ASSUME Init PROVE FsInv
  OBVIOUS
<1>1. root_nodes \in Seq(Chars) /\ Len(root_nodes) = 0 /\ DOMAIN root_nodes = {}
      /\ DOMAIN file_headers = {}
  BY EmptySeq DEF Init
<1>2. Loaded
  BY <1>1, MountAssumption DEF Loaded
<1>3. client = [c \in Clients |-> Idle]
  BY DEF Init
<1>4. \A c \in Clients : client[c] = Idle /\ client[c].at = "idle"
  BY <1>3 DEF Idle
<1>5. \A c \in Clients : ClientInv(client[c], root_nodes, file_headers, dirent)
  BY <1>4, IdleInv
<1>6. client = [c \in Clients |-> client[c]]
  BY <1>3
<1>7. dirent \in [1..InodeNo -> Nat]
  BY DEF Init, Nul
<1> HIDE DEF ClientInv
<1>8. QED
  BY <1>2, <1>4, <1>5, <1>6, <1>7 DEF FsInv

\* What is true of every client, whatever is mounted and however many there are.
THEOREM FsInvariance == Spec => []FsInv
<1>1. QED
  BY InitFs, NextFs, PTL DEF Spec

\* However many clients list directories at once, a listing has an entry for
\* each one of the directory, and every entry that no other client wrote into
\* is in full that of its place and found as what it was listed as, if it fits
\* the dirent.
THEOREM ListingTheorem == Spec => []ListingComplete
<1>1. FsInv => ListingComplete
  <2> SUFFICES ASSUME FsInv, NEW c \in Clients PROVE
        LET node == client[c].node
            listed == client[c].listed
            all == IF node = RootNode THEN <<Dev>> \o root_nodes ELSE <<>>
        IN /\ client[c].at = "listed" => Len(listed) = Len(all)
           /\ \A k \in DOMAIN listed :
                ~listed[k].mixed /\ Len(all[k]) < DirentSize =>
                  /\ listed[k].name = all[k]
                  /\ k > 1 => \A i \in DOMAIN mounted[k - 1].name :
                                all[k][i] = mounted[k - 1].name[i]
                  /\ IF all[k] = Dev THEN listed[k].node = DevNode
                     ELSE /\ listed[k].node \in DOMAIN root_nodes
                          /\ root_nodes[listed[k].node] = all[k]
                          /\ \A n \in 1..(listed[k].node - 1) :
                               root_nodes[n] # all[k]
    BY DEF ListingComplete
  <2> DEFINE r == client[c]
             all == Directory(r.node, root_nodes)
  <2>1. ClientInv(r, root_nodes, file_headers, dirent) /\ r \in Client
    BY DEF FsInv, ClientInv
  <2>2. all = IF r.node = RootNode THEN <<Dev>> \o root_nodes ELSE <<>>
    BY DEF Directory, AllNames
  <2>3. r.at = "listed" => Len(r.listed) = Len(all)
    BY <2>1 DEF ClientInv, Listing
  <2>4. ASSUME NEW k \in DOMAIN r.listed, ~r.listed[k].mixed,
               Len(all[k]) < DirentSize
        PROVE  /\ r.listed[k].name = all[k]
               /\ k > 1 => \A i \in DOMAIN mounted[k - 1].name :
                             all[k][i] = mounted[k - 1].name[i]
               /\ IF all[k] = Dev THEN r.listed[k].node = DevNode
                  ELSE /\ r.listed[k].node \in DOMAIN root_nodes
                       /\ root_nodes[r.listed[k].node] = all[k]
                       /\ \A n \in 1..(r.listed[k].node - 1) :
                            root_nodes[n] # all[k]
    <3>1. /\ r.listed \in Seq(Entry) /\ k \in 1..Len(r.listed)
          /\ Len(r.listed) \in Nat
      BY <2>1 DEF Client
    <3>2. r.at \in {"readdir", "listed"} \cup InEntry
      <4>1. r.listed # <<>>
        BY <3>1, EmptySeq
      <4>2. QED
        BY <4>1, <2>1 DEF ClientInv, Listing, Client
    <3>3. k <= Len(Directory(r.node, root_nodes))
          /\ Len(Directory(r.node, root_nodes)) \in Nat
      <4>1. Len(Directory(r.node, root_nodes)) \in Nat
        BY AllNamesFacts, EmptySeq DEF FsInv, Loaded, Directory
      <4>2. Len(r.listed) <= Len(Directory(r.node, root_nodes))
        BY <3>2, <2>1 DEF ClientInv, Listing
      <4>3. QED
        BY <3>1, <4>1, <4>2
    <3>4. r.node = RootNode /\ all = AllNames(root_nodes)
      BY <3>1, <3>3, EmptySeq DEF Directory
    <3>5. IsRight(r.listed[k], AllNames(root_nodes)[k], root_nodes)
      BY <3>1, <2>1 DEF ClientInv, AllRight
    <3>6. r.listed[k].name = all[k] /\ IsFound(all[k], r.listed[k].node, root_nodes)
      BY <2>4, <3>4, <3>5 DEF IsRight
    <3>7. ASSUME k > 1, NEW i \in DOMAIN mounted[k - 1].name
          PROVE  all[k][i] = mounted[k - 1].name[i]
      <4>1. k - 1 \in 1..Len(root_nodes) /\ k - 1 + 1 = k
        <5>1. root_nodes \in Seq(Chars)
          BY DEF FsInv, Loaded
        <5>2. Len(all) = Len(root_nodes) + 1 /\ Len(root_nodes) \in Nat
          BY <3>4, <5>1, AllNamesFacts
        <5>3. k <= Len(all) /\ k \in Nat
          BY <3>1, <3>3
        <5> HIDE DEF all
        <5>4. QED
          BY <3>7, <5>2, <5>3
      <4>2. AllNames(root_nodes)[k - 1 + 1] = root_nodes[k - 1]
        BY <4>1, AllNamesFacts DEF FsInv, Loaded
      <4>3. DOMAIN root_nodes = 1..Len(root_nodes)
        BY DEF FsInv, Loaded
      <4>4. root_nodes[k - 1][i] = mounted[k - 1].name[i]
        BY <4>1, <4>3, <3>7 DEF FsInv, Loaded
      <4> HIDE DEF all
      <4>5. QED
        BY <3>4, <4>1, <4>2, <4>4
    <3> HIDE DEF all
    <3>8. QED
      BY <3>6, <3>7 DEF IsFound
  <2> HIDE DEF r, all
  <2>5. QED
    BY <2>2, <2>3, <2>4 DEF r
<1>2. QED
  BY <1>1, FsInvariance, PTL

\* Whatever the files and the sizes asked for, what a client gets is bytes of
\* the file, no more than its header says, all taken from where the offset in
\* the header and the number of files say: whoever reads until nothing comes has
\* all the rest of it.
THEOREM ReadTheorem == Spec => []ReadsAreExact
<1>1. FsInv => ReadsAreExact
  <2> SUFFICES ASSUME FsInv, NEW c \in Clients PROVE
        LET node == client[c].node
            index == client[c].index
            from == client[c].from
            start == client[c].start
        IN /\ client[c].at \in {"read", "end"} /\ index # from =>
                /\ IsFile(node) /\ index \in from..mounted[node].length
                /\ start \in from..index
                /\ client[c].source = (Base(node) + start) % Word
           /\ client[c].at = "end" /\ IsFile(node) => index >= mounted[node].length
    BY DEF ReadsAreExact
  <2>1. Reading(client[c], file_headers)
    BY DEF FsInv, ClientInv
  <2>2. DOMAIN file_headers = DOMAIN root_nodes
        /\ \A k \in DOMAIN root_nodes : file_headers[k].offset = Base(k)
                               /\ file_headers[k].length = mounted[k].length
    BY DEF FsInv, Loaded
  <2>3. QED
    BY <2>1, <2>2 DEF Reading, IsFile
<1>2. QED
  BY <1>1, FsInvariance, PTL

=============================================================================
