------------------------------- MODULE LFUCache -------------------------------
(***************************************************************************)
(* The cache of src/cache/LFUCache.{h,cpp}: a list of frequency nodes in   *)
(* ascending order, each with the list of the keys used that often, and    *)
(* two maps from a key to its nodes.  get and set hold the mutex           *)
(* throughout: one step each.  The threads use it as staticRequest of      *)
(* example/static_server_example.cpp does: look a path up and, when it is  *)
(* not there, read the file and set it, so that two threads may miss the   *)
(* same path and both set it.                                              *)
(*                                                                         *)
(* A frequency node is named by its frequency and a key node by its value, *)
(* which no other has.  The head node, of frequency 0, has no keys and is  *)
(* left out of lists; it is index 0.                                       *)
(***************************************************************************)
EXTENDS Naturals, FiniteSets, Sequences, SequencesExt

CONSTANTS
  Threads, Keys,
  capacity,
  MaxOps,    \* bound: calls that touch a key
  NULL

ASSUME CapacityAssumption == capacity \in Nat \ {0}

VARIABLES
  lists,        \* frequency nodes after head: [freq, keys], latest key first
  kmap, fmap,   \* key to key node, key to frequency
  missed,       \* of each thread: the key it did not find, or NULL
  clock,        \* history: calls that touched a key
  used,         \* history: of each key, how often and when last it was touched
  overwritten   \* history: a key was set that was in the cache

vars == <<lists, kmap, fmap, missed, clock, used, overwritten>>

Nodes == [key : Keys, value : Nat]

Init ==
  /\ lists = <<>>
  /\ kmap = <<>> /\ fmap = <<>>
  /\ missed = [t \in Threads |-> NULL]
  /\ clock = 0
  /\ used = [k \in Keys |-> [count |-> 0, last |-> 0]]
  /\ overwritten = FALSE

Without(f, k) == [x \in DOMAIN f \ {k} |-> f[x]]

With(f, k, y) == [x \in DOMAIN f \cup {k} |-> IF x = k THEN y ELSE f[x]]

----------------------------------------------------------------------------
(* KeyList::add, at the front, and KeyList::del, which unlinks the node.   *)
KeyListAdd(l, node) == [l EXCEPT !.keys = <<node>> \o @]

Place(keys, node) == CHOOSE p \in DOMAIN keys : keys[p] = node

KeyListDel(l, node) == [l EXCEPT !.keys = RemoveAt(@, Place(@, node))]

(* Mutant: the key that was used last goes first. *)
GetFirst(l) == Head(l.keys)

GetLast(l) == Last(l.keys)

(* LFUCache::del of a frequency node that has no keys left. *)
DropIfEmpty(s, i) == IF s[i].keys = <<>> THEN RemoveAt(s, i) ELSE s

(* Mutant: the frequency the key leaves is not dropped. *)
AddFreqKeepsEmpty(s, node, i) ==
  LET freq == IF i = 0 THEN 0 ELSE s[i].freq
      isNew == i = Len(s) \/ s[i + 1].freq # freq + 1
      grown == IF isNew THEN InsertAt(s, i + 1, [freq |-> freq + 1, keys |-> <<>>]) ELSE s
      added == [grown EXCEPT ![i + 1] = KeyListAdd(@, node)]
  IN  IF i = 0 THEN added ELSE [added EXCEPT ![i] = KeyListDel(@, node)]

(* addfreq: the key node moves from the i-th frequency to the next, which  *)
(* is inserted if it is not there.                                         *)
AddFreq(s, node, i) ==
  LET freq == IF i = 0 THEN 0 ELSE s[i].freq
      isNew == i = Len(s) \/ s[i + 1].freq # freq + 1
      grown == IF isNew THEN InsertAt(s, i + 1, [freq |-> freq + 1, keys |-> <<>>]) ELSE s
      added == [grown EXCEPT ![i + 1] = KeyListAdd(@, node)]
  IN  IF i = 0 THEN added
      ELSE DropIfEmpty([added EXCEPT ![i] = KeyListDel(@, node)], i)

IndexOf(s, freq) == CHOOSE i \in 1 .. Len(s) : s[i].freq = freq

----------------------------------------------------------------------------
(* get(k). *)
Hit(t, k) ==
  /\ missed[t] = NULL
  /\ clock < MaxOps
  /\ k \in DOMAIN fmap
  /\ lists' = AddFreq(lists, kmap[k], IndexOf(lists, fmap[k]))
  /\ fmap' = With(fmap, k, fmap[k] + 1)
  /\ clock' = clock + 1
  /\ used' = [used EXCEPT ![k] = [count |-> @.count + 1, last |-> clock + 1]]
  /\ UNCHANGED <<kmap, missed, overwritten>>

Miss(t, k) ==
  /\ missed[t] = NULL
  /\ k \notin DOMAIN fmap
  /\ missed' = [missed EXCEPT ![t] = k]
  /\ UNCHANGED <<lists, kmap, fmap, clock, used, overwritten>>

(* The state with one key fewer when the cache is full: the last key of    *)
(* the lowest frequency goes.                                              *)
Evicted ==
  IF Cardinality(DOMAIN kmap) # capacity
    THEN [lists |-> lists, kmap |-> kmap, fmap |-> fmap]
    ELSE LET last == GetLast(lists[1]) IN
           [lists |-> DropIfEmpty([lists EXCEPT ![1] = KeyListDel(@, last)], 1),
            kmap |-> Without(kmap, last.key),
            fmap |-> Without(fmap, last.key)]

(* set(missed[t], v): it does not look whether the key is there. *)
Set(t) ==
  /\ missed[t] # NULL
  /\ clock < MaxOps
  /\ LET k == missed[t]
         node == [key |-> k, value |-> clock + 1]
     IN  /\ lists' = AddFreq(Evicted.lists, node, 0)
         /\ fmap' = With(Evicted.fmap, k, 1)
         /\ kmap' = With(Evicted.kmap, k, node)
         /\ used' = [used EXCEPT ![k] = [count |-> 1, last |-> clock + 1]]
         /\ overwritten' = (overwritten \/ k \in DOMAIN kmap)
  /\ clock' = clock + 1
  /\ missed' = [missed EXCEPT ![t] = NULL]

(* There is no such file. *)
NoFile(t) ==
  /\ missed[t] # NULL
  /\ missed' = [missed EXCEPT ![t] = NULL]
  /\ UNCHANGED <<lists, kmap, fmap, clock, used, overwritten>>

(* staticRequest(): from the cache, or from the file and into the cache.   *)
StaticRequest(t) ==
  \/ \E k \in Keys : Hit(t, k) \/ Miss(t, k)
  \/ Set(t)
  \/ NoFile(t)

Next == \E t \in Threads : StaticRequest(t)

Spec == Init /\ [][Next]_vars

----------------------------------------------------------------------------
(* Types; and the structure: frequencies ascend and none is empty, so that *)
(* a full cache has a key to evict; the two maps have the same keys and    *)
(* lead to a node that is still there, in the list of its frequency.  As   *)
(* long as no key is set that is in the cache, there are no other nodes    *)
(* and at most capacity of these.  (Once one is, the old node is left in   *)
(* its list; when it is evicted after its key, the size of kmap passes     *)
(* the capacity, and set, which compares with ==, evicts no more.)         *)
CacheIntegrity ==
  /\ lists \in Seq([freq : Nat \ {0}, keys : Seq(Nodes)])
  /\ missed \in [Threads -> Keys \cup {NULL}]
  /\ \A i \in 1 .. Len(lists) :
       /\ lists[i].keys # <<>>
       /\ i > 1 => lists[i - 1].freq < lists[i].freq
  /\ DOMAIN kmap = DOMAIN fmap
  /\ \A k \in DOMAIN kmap :
       /\ kmap[k].key = k
       /\ \E i \in 1 .. Len(lists) :
            lists[i].freq = fmap[k] /\ kmap[k] \in ToSet(lists[i].keys)
  /\ \/ overwritten
     \/ /\ Cardinality(DOMAIN kmap) <= capacity
        /\ \A i \in 1 .. Len(lists) : \A n \in ToSet(lists[i].keys) :
             n.key \in DOMAIN kmap /\ kmap[n.key] = n

(* A key that leaves the cache has been used least often of all since it   *)
(* was set and, of those, not for the longest time; unless a key was set   *)
(* that was in the cache, whose old node then still counts.                *)
EvictsLeastUsed ==
  [][\A k \in DOMAIN kmap \ DOMAIN kmap' : overwritten \/
       \A j \in DOMAIN kmap \ {k} :
         \/ used[k].count < used[j].count
         \/ used[k].count = used[j].count /\ used[k].last < used[j].last]_vars

=============================================================================
