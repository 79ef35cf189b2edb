------------------------------- MODULE OSMem -------------------------------
(***************************************************************************)
(* A memory partition (os_mem.c): blocks of one size, linked through their *)
(* own first word into a free list.  A block that a client has is its to   *)
(* overwrite, the link with it; OSMemCreate() links the blocks while other *)
(* tasks may already call OSMemGet(), which then finds a partition of no   *)
(* blocks.  Clients are tasks and interrupt handlers: OSMemGet() and       *)
(* OSMemPut() are one critical section each.                               *)
(***************************************************************************)
EXTENDS Integers, FiniteSets

CONSTANTS NbrBlks,   \* n_blks
          Client     \* who gets and puts blocks

ASSUME MemAssumption == NbrBlks \in Nat \ {0, 1}

Blk  == 1..NbrBlks   \* the blocks, in the order of their addresses
Null == 0

VARIABLES link,    \* the first word of each block
          next,    \* OSMemCreate(): the block to link next, or Created
          free,    \* FreeListPtr
          nbrFree, \* NbrFree
          held     \* the blocks each client has

vars == <<link, next, free, nbrFree, held>>

Created == NbrBlks + 1
Out == {b \in Blk : \E c \in Client : b \in held[c]}

TypeOK ==
  /\ link \in [Blk -> Blk \cup {Null}]
  /\ next \in 1..Created
  /\ free \in Blk \cup {Null}
  /\ nbrFree \in 0..NbrBlks
  /\ held \in [Client -> SUBSET Blk]

(* The memory holds anything; the partition itself is zero.                *)
Init ==
  /\ link \in [Blk -> Blk \cup {Null}]
  /\ next = 1
  /\ free = Null
  /\ nbrFree = 0
  /\ held = [c \in Client |-> {}]

-----------------------------------------------------------------------------
(* One turn of the loop of OSMemCreate(), outside any critical section.    *)
LinkNext ==
  /\ next < NbrBlks
  /\ link' = [link EXCEPT ![next] = next + 1]
  /\ next' = next + 1
  /\ UNCHANGED <<free, nbrFree, held>>

(* The last link, and the partition is there for everybody to use.         *)
Publish ==
  /\ next = NbrBlks
  /\ link' = [link EXCEPT ![NbrBlks] = Null]
  /\ next' = Created
  /\ free' = 1
  /\ nbrFree' = NbrBlks
  /\ UNCHANGED held

(* Mutant: the block stays the head of the free list.                      *)
MutantMemGet(c) ==
  /\ nbrFree > 0
  /\ nbrFree' = nbrFree - 1
  /\ held' = [held EXCEPT ![c] = @ \cup {free}]
  /\ UNCHANGED <<link, next, free>>

OSMemGet(c) ==
  /\ nbrFree > 0
  /\ free' = link[free]
  /\ nbrFree' = nbrFree - 1
  /\ held' = [held EXCEPT ![c] = @ \cup {free}]
  /\ UNCHANGED <<link, next>>

(* Mutant: the block keeps what the client left in its first word.         *)
MutantMemPut(c, b) ==
  /\ b \in held[c] /\ nbrFree < NbrBlks
  /\ free' = b
  /\ nbrFree' = nbrFree + 1
  /\ held' = [held EXCEPT ![c] = @ \ {b}]
  /\ UNCHANGED <<link, next>>

(* A client puts back what it has; the code checks only the count.         *)
OSMemPut(c, b) ==
  /\ b \in held[c] /\ nbrFree < NbrBlks
  /\ link' = [link EXCEPT ![b] = free]
  /\ free' = b
  /\ nbrFree' = nbrFree + 1
  /\ held' = [held EXCEPT ![c] = @ \ {b}]
  /\ UNCHANGED next

(* A client uses a block.                                                  *)
Write(c, b) ==
  /\ b \in held[c]
  /\ \E w \in Blk \cup {Null} : link' = [link EXCEPT ![b] = w]
  /\ UNCHANGED <<next, free, nbrFree, held>>

(* A client hands a block to another.                                      *)
Hand(c, d, b) ==
  /\ b \in held[c] /\ c # d
  /\ held' = [held EXCEPT ![c] = @ \ {b}, ![d] = @ \cup {b}]
  /\ UNCHANGED <<link, next, free, nbrFree>>

Next ==
  \/ LinkNext
  \/ Publish
  \/ \E c \in Client :
       \/ OSMemGet(c)
       \/ \E b \in Blk : OSMemPut(c, b) \/ Write(c, b)
       \/ \E d \in Client, b \in Blk : Hand(c, d, b)

Spec == Init /\ [][Next]_vars

-----------------------------------------------------------------------------
(* Properties.                                                             *)

(* s lists the blocks nobody has, each once, as the links chain them.      *)
Chain(s) ==
  /\ \A i, j \in 1..nbrFree : s[i] = s[j] => i = j
  /\ \A b \in Blk : b \notin Out <=> \E i \in 1..nbrFree : s[i] = b
  /\ free = IF nbrFree = 0 THEN Null ELSE s[1]
  /\ \A i \in 1..nbrFree : link[s[i]] = IF i < nbrFree THEN s[i + 1] ELSE Null

(* Once the partition is created, following the links from FreeListPtr     *)
(* visits NbrFree blocks, exactly those that no client has, whatever the   *)
(* clients wrote into the ones they have; before, there is nothing to get. *)
FreeListIsRest ==
  IF next = Created THEN \E s \in [1..nbrFree -> Blk] : Chain(s)
  ELSE nbrFree = 0 /\ Out = {}

(* No block is given to a client while any has it.                         *)
NoBlockTwice ==
  [][\A c \in Client : \A b \in held'[c] \ held[c] :
       b \notin Out \/ \E d \in Client : b \in held[d] \ held'[d]]_vars

(* A block belongs to one client, and a client that has one can always put *)
(* it back: OS_ERR_MEM_FULL is no answer to it.                            *)
PutIsTaken ==
  /\ \A c, d \in Client : c # d => held[c] \cap held[d] = {}
  /\ Out # {} => nbrFree < NbrBlks
=============================================================================
